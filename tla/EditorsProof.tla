----------------------------- MODULE EditorsProof -----------------------------
(***************************************************************************)
(* Proofs about the editors: policies, workflows, mailboxes, the settings  *)
(* of nodes, and the routes behind them; and of the browser that has these *)
(* and the review: its types.                                              *)
(***************************************************************************)
EXTENDS MCEditors, ReviewProof, DataLemmas

-----------------------------------------------------------------------------
(* Policies.                                                              *)

\* The rules there may be when n were created.
RulesUpTo(n) == [id : 1 .. n, pos : 0 .. n - 1, text : Criteria]
WellNumbered(rules, n) ==
  /\ rules \subseteq RulesUpTo(n)
  /\ \A r, s \in rules : r.id = s.id => r = s

\* Rules with numbers of their own are no more than the numbers.
LEMMA RulesAreFinite ==
  ASSUME NEW n \in Nat, NEW rules, WellNumbered(rules, n)
  PROVE  IsFiniteSet(rules) /\ Cardinality(rules) \in Nat /\ Cardinality(rules) <= n
<1> DEFINE f == [r \in rules |-> r.id]
<1>1. f \in Injection(rules, 1 .. n)
  <2>1. f \in [rules -> 1 .. n]
    BY DEF WellNumbered, RulesUpTo
  <2>2. \A r, s \in rules : f[r] = f[s] => r = s
    BY DEF WellNumbered
  <2> HIDE DEF f
  <2>3. QED
    BY <2>1, <2>2 DEF Injection, IsInjective
<1>2. IsFiniteSet(1 .. n) /\ Cardinality(1 .. n) = n
  BY FS_Interval
<1> HIDE DEF f
<1>3. IsFiniteSet(rules) /\ Cardinality(rules) <= Cardinality(1 .. n)
  BY <1>1, <1>2, FS_Injection
<1>4. Cardinality(rules) \in Nat
  BY <1>3, FS_CardinalityType
<1>5. QED
  BY <1>2, <1>3, <1>4

\* The list of the rules has each of them once, and in their order.
LEMMA ListedIsASort ==
  ASSUME NEW n \in Nat, NEW rules, WellNumbered(rules, n)
  PROVE  /\ Listed(rules) \in [1 .. Cardinality(rules) -> rules]
         /\ \A r \in rules : \E k \in 1 .. Cardinality(rules) : Listed(rules)[k] = r
         /\ \A i, j \in 1 .. Cardinality(rules) : i < j => Before(Listed(rules)[i], Listed(rules)[j])
<1> DEFINE c == Cardinality(rules)
           Upto(r) == {s \in rules : s = r \/ Before(s, r)}
           f == [r \in rules |-> Place(r, rules)]
<1>1. IsFiniteSet(rules) /\ c \in Nat
  BY RulesAreFinite
<1>2. \A r \in rules : r.id \in Nat /\ r.pos \in Nat
  BY DEF WellNumbered, RulesUpTo
<1>3. \A r, s \in rules : r # s => r.id # s.id
  BY DEF WellNumbered
<1>4. \A r, s, t \in rules :
        /\ ~Before(r, r) /\ (r # s => Before(r, s) \/ Before(s, r))
        /\ Before(r, s) /\ Before(s, t) => Before(r, t)
  BY <1>2, <1>3 DEF Before
<1>5. \A r \in rules : IsFiniteSet(Upto(r)) /\ Cardinality(Upto(r)) \in 1 .. c
  <2> SUFFICES ASSUME NEW r \in rules PROVE IsFiniteSet(Upto(r)) /\ Cardinality(Upto(r)) \in 1 .. c
    OBVIOUS
  <2>1. Upto(r) \in SUBSET rules /\ Upto(r) # {}
    OBVIOUS
  <2> HIDE DEF Upto
  <2>2. IsFiniteSet(Upto(r)) /\ Cardinality(Upto(r)) <= c
    BY <1>1, <2>1, FS_Subset
  <2>3. Cardinality(Upto(r)) \in Nat /\ Cardinality(Upto(r)) # 0
    BY <2>1, <2>2, FS_CardinalityType, FS_EmptySet
  <2>4. QED
    BY <1>1, <2>2, <2>3
<1>6. \A r, s \in rules : Before(r, s) => Cardinality(Upto(r)) < Cardinality(Upto(s))
  <2> SUFFICES ASSUME NEW r \in rules, NEW s \in rules, Before(r, s)
               PROVE  Cardinality(Upto(r)) < Cardinality(Upto(s))
    OBVIOUS
  <2>1. Upto(r) \in SUBSET Upto(s)
    BY <1>4
  <2>2. s \in Upto(s) /\ s \notin Upto(r)
    BY <1>4
  <2>3. IsFiniteSet(Upto(s)) /\ Cardinality(Upto(s)) \in 1 .. c /\ Cardinality(Upto(r)) \in 1 .. c
    BY <1>5
  <2> HIDE DEF Upto
  <2>4. Cardinality(Upto(r)) <= Cardinality(Upto(s)) /\ Cardinality(Upto(r)) # Cardinality(Upto(s))
    BY <2>1, <2>2, <2>3, FS_Subset
  <2>5. QED
    BY <1>1, <2>3, <2>4
<1>7. \A r \in rules : f[r] = Cardinality(Upto(r))
  BY DEF Place
<1> HIDE DEF Upto
<1>8. f \in [rules -> 1 .. c]
  BY <1>5, <1>7
<1>9. \A r, s \in rules : Before(r, s) => f[r] < f[s]
  BY <1>6, <1>7
<1>10. f \in Injection(rules, 1 .. c)
  <2>1. \A r \in rules : f[r] \in Nat
    BY <1>1, <1>8
  <2>2. \A r, s \in rules : f[r] = f[s] => r = s
    BY <1>4, <1>9, <2>1
  <2> HIDE DEF f
  <2>3. QED
    BY <1>8, <2>2 DEF Injection, IsInjective
<1>11. f \in Surjection(rules, 1 .. c)
  <2>1. IsFiniteSet(1 .. c) /\ Cardinality(1 .. c) = c
    BY <1>1, FS_Interval
  <2> HIDE DEF f
  <2>2. QED
    BY <1>10, <2>1, FS_Injection
<1>12. ASSUME NEW k \in 1 .. c
       PROVE  Listed(rules)[k] \in rules /\ f[Listed(rules)[k]] = k
  <2>1. \E r \in rules : Place(r, rules) = k
    <3>1. \E r \in rules : f[r] = k
      BY <1>11 DEF Surjection
    <3>2. QED
      BY <3>1
  <2>2. Listed(rules)[k] = CHOOSE r \in rules : Place(r, rules) = k
    BY DEF Listed
  <2>3. Listed(rules)[k] \in rules /\ Place(Listed(rules)[k], rules) = k
    BY <2>1, <2>2
  <2>4. QED
    BY <2>3
<1>13. Listed(rules) \in [1 .. c -> rules]
  <2>1. Listed(rules) = [k \in 1 .. c |-> CHOOSE r \in rules : Place(r, rules) = k]
    BY DEF Listed
  <2>2. QED
    BY <1>12, <2>1
<1> HIDE DEF f
<1>14. ASSUME NEW r \in rules PROVE \E k \in 1 .. c : Listed(rules)[k] = r
  <2>1. f[r] \in 1 .. c
    BY <1>8
  <2>2. Listed(rules)[f[r]] \in rules /\ f[Listed(rules)[f[r]]] = f[r]
    BY <1>12, <2>1
  <2>3. Listed(rules)[f[r]] = r
    BY <1>10, <2>2 DEF Injection, IsInjective
  <2>4. QED
    BY <2>1, <2>3
<1>15. ASSUME NEW i \in 1 .. c, NEW j \in 1 .. c, i < j
       PROVE  Before(Listed(rules)[i], Listed(rules)[j])
  <2>1. /\ Listed(rules)[i] \in rules /\ f[Listed(rules)[i]] = i
        /\ Listed(rules)[j] \in rules /\ f[Listed(rules)[j]] = j
    BY <1>12
  <2>2. ~Before(Listed(rules)[j], Listed(rules)[i])
    BY <1>1, <1>9, <1>15, <2>1
  <2>3. Listed(rules)[i] # Listed(rules)[j]
    BY <1>1, <1>15, <2>1
  <2>4. QED
    BY <1>4, <2>1, <2>2, <2>3
<1>16. QED
  BY <1>13, <1>14, <1>15

\* Rules keep their numbers when more are created.
LEMMA NumbersGrow ==
  ASSUME NEW n \in Nat, NEW m \in Nat, n <= m, NEW rules, WellNumbered(rules, n)
  PROVE  WellNumbered(rules, m)
<1>1. RulesUpTo(n) \subseteq RulesUpTo(m)
  <2>1. 1 .. n \subseteq 1 .. m /\ 0 .. n - 1 \subseteq 0 .. m - 1
    OBVIOUS
  <2>2. QED
    BY <2>1 DEF RulesUpTo
<1>2. QED
  BY <1>1 DEF WellNumbered

PolicyRules == SUBSET [id : Nat, pos : Nat, text : Criteria]
PolicyRow == [name : Names, num : Nat, rules : PolicyRules]
Version == [num : Nat, name : Names, saw : PolicyRules, was : PolicyRules]
PolicyOps == {"create", "update", "delete", "reorder", "save", "restore"}
PolicyCall == [by : Desks, op : PolicyOps, name : Names, id : Nat, text : Criteria,
               order : Seq(Nat), version : Nat, row : PolicyRow, num : Nat, saw : PolicyRules,
               pc : {"sent", "loaded", "numbered", "done"}]
TypedName == [name : Names, kept : BOOLEAN, during : BOOLEAN, saved : BOOLEAN]

\* A policy as it was when no more than so many versions and rules had been made.
RowUpTo(p, versionsMade, n) ==
  /\ p \in PolicyRow /\ p.num \in 0 .. versionsMade
  /\ WellNumbered(p.rules, n)

\* The rows: the rules the policy has and had are among those that were created, no two
\* with one number; it is the numbers that were given out and not taken back.
PolicyRows ==
  /\ nextId \in 1 .. MaxIds + 1 /\ gone \subseteq 1 .. nextId - 1
  /\ snapshots \in Seq(Version)
  /\ RowUpTo(policy, Len(snapshots), nextId - 1)
  /\ \A k \in 1 .. Len(snapshots) :
        /\ snapshots[k].num \in 1 .. k
        /\ WellNumbered(snapshots[k].saw, nextId - 1) /\ WellNumbered(snapshots[k].was, nextId - 1)
  /\ RulesOnlyLeaveByDecision

\* The pages: what they show is some earlier state of the rows.
PolicyPages ==
  /\ shown = [u \in Desks |-> shown[u]]
  /\ \A u \in Desks : RowUpTo(shown[u], Len(snapshots), nextId - 1)

\* The requests: they name versions there are, no more rules than were created, and what
\* they have loaded is some earlier state of the rows; a number that was taken is at
\* most the next one.
CallWhole(c, versionsMade, n) ==
  /\ c \in PolicyCall /\ Len(c.order) <= n
  /\ c.op = "restore" => c.version \in 1 .. versionsMade
  /\ c.op = "delete" /\ c.pc # "sent" => c.id \in 1 .. n
  /\ RowUpTo(c.row, versionsMade, n) /\ WellNumbered(c.saw, n)
  /\ c.pc = "numbered" => c.num \in 1 .. versionsMade + 1
CallsWhole ==
  /\ \A c \in calls : CallWhole(c, Len(snapshots), nextId - 1)
  /\ IsFiniteSet(calls) /\ Cardinality(calls) <= MaxCalls /\ tries \in 0 .. MaxTries

\* The forms: while a form may still be filled again what is typed in it does not count
\* as kept; and a save of what was typed holds just that, unless another was under way.
FormKept(u) ==
  /\ refill[u] \/ Pending(u, "restore") => ~typed[u].kept
  /\ typed[u].kept => nameForm[u] = typed[u].name
  /\ typed[u].kept /\ ~typed[u].during =>
        /\ formDirty[u] \/ typed[u].saved
        /\ \A c \in calls : c.by = u /\ c.op = "save" =>
              c.name = typed[u].name /\ (c.pc = "done" => typed[u].saved)
PolicyForms ==
  /\ nameForm \in [Desks -> Names] /\ typed \in [Desks -> TypedName]
  /\ formDirty \in [Desks -> BOOLEAN] /\ formSaving \in [Desks -> BOOLEAN] /\ refill \in [Desks -> BOOLEAN]
  /\ \A u \in Desks : FormKept(u)

SavingAwaited == \A u \in Desks : formSaving[u] => \E c \in calls : c.by = u /\ c.op = "save"

PolicyInvariant == PolicyRows /\ PolicyPages /\ CallsWhole /\ PolicyForms /\ SavingAwaited

-----------------------------------------------------------------------------
\* A policy of some time is one of every later time.
LEMMA RowsGrow ==
  ASSUME NEW m \in Nat, NEW n \in Nat, NEW mm \in Nat, NEW nn \in Nat, m <= mm, n <= nn,
         NEW p, RowUpTo(p, m, n)
  PROVE  RowUpTo(p, mm, nn)
<1>1. WellNumbered(p.rules, nn)
  BY NumbersGrow DEF RowUpTo
<1>2. p.num \in 0 .. mm
  BY DEF RowUpTo
<1>3. QED
  BY <1>1, <1>2 DEF RowUpTo

\* And so is a request, but for a number it has taken.
LEMMA CallsGrow ==
  ASSUME NEW m \in Nat, NEW n \in Nat, NEW mm \in Nat, NEW nn \in Nat, m <= mm, n <= nn,
         NEW c, CallWhole(c, m, n)
  PROVE  CallWhole(c, mm, nn)
<1>1. RowUpTo(c.row, mm, nn) /\ WellNumbered(c.saw, nn)
  BY RowsGrow, NumbersGrow DEF CallWhole
<1>2. Len(c.order) \in Nat
  BY DEF CallWhole, PolicyCall
<1>3. Len(c.order) <= nn /\ 1 .. m \subseteq 1 .. mm /\ 1 .. n \subseteq 1 .. nn /\ 1 .. m + 1 \subseteq 1 .. mm + 1
  BY <1>2 DEF CallWhole
<1>4. QED
  BY <1>1, <1>3 DEF CallWhole

\* Numbers that count something.
LEMMA PolicyCounts ==
  ASSUME PolicyRows
  PROVE  /\ nextId \in Nat /\ nextId - 1 \in Nat /\ nextId >= 1 /\ MaxIds \in Nat /\ nextId <= MaxIds + 1
         /\ Len(snapshots) \in Nat /\ DOMAIN snapshots = 1 .. Len(snapshots)
         /\ policy.rules \subseteq RulesUpTo(nextId - 1) /\ policy.name \in Names
         /\ WellNumbered(policy.rules, nextId - 1) /\ policy.num \in Nat
         /\ Ids(policy.rules) = (1 .. nextId - 1) \ gone
<1>1. MaxIds \in Nat
  BY PolicyDeskAssumption
<1>2. QED
  BY <1>1 DEF PolicyRows, RowUpTo, WellNumbered, PolicyRow, RulesOnlyLeaveByDecision

\* A number that is no lower.
LEMMA NumbersAreHigher ==
  ASSUME NEW a \in Nat, a >= 1, NEW m \in Nat, NEW b \in a .. m + 1
  PROVE  /\ b \in Nat /\ a - 1 \in Nat /\ b - 1 \in Nat /\ a - 1 <= b - 1
         /\ b \in 1 .. m + 1 /\ a <= b
OBVIOUS

\* A version is made of rules that are numbered well: the rows stay whole.
LEMMA CommitKeepsRows ==
  ASSUME PolicyRows, NEW c, c.num \in 1 .. Len(snapshots) + 1, c.saw \in PolicyRules, WellNumbered(c.saw, nextId - 1),
         nextId' \in nextId .. MaxIds + 1, gone' \subseteq 1 .. nextId' - 1,
         NEW name \in Names, NEW rules, WellNumbered(rules, nextId' - 1),
         Ids(rules) = (1 .. nextId' - 1) \ gone', Commit(c, name, rules)
  PROVE  PolicyRows' /\ Len(snapshots') = Len(snapshots) + 1 /\ nextId <= nextId'
<1> DEFINE new == [num |-> c.num, name |-> name, saw |-> c.saw, was |-> rules]
           now == IF name = c.row.name THEN policy.name ELSE name
<1>1. nextId \in Nat /\ nextId' \in Nat /\ nextId - 1 \in Nat /\ nextId' - 1 \in Nat /\ nextId - 1 <= nextId' - 1
      /\ nextId' \in 1 .. MaxIds + 1 /\ nextId <= nextId' /\ Len(snapshots) \in Nat
  <2>1. nextId \in Nat /\ nextId >= 1 /\ nextId - 1 \in Nat /\ MaxIds \in Nat /\ Len(snapshots) \in Nat
    BY PolicyCounts
  <2>2. nextId' \in nextId .. MaxIds + 1
    OBVIOUS
  <2>3. QED
    BY <2>1, <2>2, NumbersAreHigher
<1>2. policy' = [name |-> now, num |-> c.num, rules |-> rules] /\ snapshots' = Append(snapshots, new)
  BY DEF Commit
<1>3. now \in Names /\ c.num \in Nat /\ rules \in PolicyRules
  <2>1. RulesUpTo(nextId' - 1) \subseteq [id : Nat, pos : Nat, text : Criteria]
    BY <1>1 DEF RulesUpTo
  <2>2. QED
    BY <1>1, <2>1, PolicyCounts DEF WellNumbered, PolicyRules
<1>4. new \in Version /\ new.num = c.num /\ new.saw = c.saw /\ new.was = rules
  BY <1>3 DEF Version
<1> HIDE DEF new, now
<1>5. /\ snapshots' \in Seq(Version) /\ Len(snapshots') = Len(snapshots) + 1
      /\ \A k \in 1 .. Len(snapshots') : snapshots'[k] = IF k = Len(snapshots) + 1 THEN new ELSE snapshots[k]
  BY <1>1, <1>2, <1>4 DEF PolicyRows
<1>6. ASSUME NEW k \in 1 .. Len(snapshots')
      PROVE  /\ snapshots'[k].num \in 1 .. k
             /\ WellNumbered(snapshots'[k].saw, nextId' - 1) /\ WellNumbered(snapshots'[k].was, nextId' - 1)
  <2>1. CASE k = Len(snapshots) + 1
    <3>1. snapshots'[k] = new
      BY <1>5, <2>1
    <3>2. WellNumbered(c.saw, nextId' - 1)
      BY <1>1, NumbersGrow
    <3>3. QED
      BY <1>4, <2>1, <3>1, <3>2
  <2>2. CASE k # Len(snapshots) + 1
    <3>1. k \in 1 .. Len(snapshots) /\ snapshots'[k] = snapshots[k]
      BY <1>1, <1>5, <2>2
    <3>2. snapshots[k].num \in 1 .. k /\ WellNumbered(snapshots[k].saw, nextId - 1)
          /\ WellNumbered(snapshots[k].was, nextId - 1)
      BY <3>1 DEF PolicyRows
    <3>3. QED
      BY <1>1, <3>1, <3>2, NumbersGrow
  <2>3. QED
    BY <2>1, <2>2
<1>7. RowUpTo(policy', Len(snapshots'), nextId' - 1) /\ policy'.rules = rules
  <2>1. c.num \in 0 .. Len(snapshots')
    BY <1>1, <1>5
  <2>2. QED
    BY <1>2, <1>3, <2>1 DEF RowUpTo, PolicyRow
<1>8. QED
  BY <1>1, <1>5, <1>6, <1>7 DEF PolicyRows, RulesOnlyLeaveByDecision

\* A rule that is created is behind those the route has loaded, and has the next number.
LEMMA CreateKeepsRows ==
  ASSUME PolicyRows, NEW c, CallWhole(c, Len(snapshots), nextId - 1), c.pc = "numbered", CreateRoute(c)
  PROVE  PolicyRows' /\ Len(snapshots') = Len(snapshots) + 1 /\ nextId <= nextId'
<1> DEFINE last == {r.pos + 1 : r \in c.row.rules} \cup {0}
           pos == Max(last)
           rule == [id |-> nextId, pos |-> pos, text |-> c.text]
           rules == policy.rules \cup {rule}
<1>1. /\ nextId \in Nat /\ nextId - 1 \in Nat /\ nextId' = nextId + 1 /\ nextId' - 1 = nextId
      /\ nextId' \in nextId .. MaxIds + 1
  BY PolicyCounts DEF CreateRoute
<1>2. gone' = gone /\ Commit(c, c.row.name, rules)
  BY DEF CreateRoute
<1>3. /\ c.text \in Criteria /\ c.row.name \in Names /\ c.num \in 1 .. Len(snapshots) + 1 /\ c.saw \in PolicyRules
      /\ WellNumbered(c.saw, nextId - 1)
  BY DEF CallWhole, PolicyCall, RowUpTo, PolicyRow
<1>4. pos \in 0 .. nextId - 1
  <2>1. \A r \in c.row.rules : r.pos \in 0 .. nextId - 2
    BY <1>1 DEF CallWhole, RowUpTo, WellNumbered, RulesUpTo
  <2>2. last \in SUBSET (0 .. nextId - 1) /\ last # {}
    BY <1>1, <2>1
  <2> HIDE DEF last
  <2>3. Max(last) \in last
    BY <1>1, <2>2, MaxIsGreatest
  <2>4. QED
    BY <2>2, <2>3
<1> HIDE DEF pos
<1>5. rule \in RulesUpTo(nextId) /\ rule.id = nextId
  BY <1>1, <1>3, <1>4 DEF RulesUpTo
<1> HIDE DEF rule
<1>6. WellNumbered(policy.rules, nextId) /\ \A r \in policy.rules : r.id # rule.id
  <2>1. WellNumbered(policy.rules, nextId)
    BY <1>1, PolicyCounts, NumbersGrow
  <2>2. \A r \in policy.rules : r.id \in 1 .. nextId - 1
    BY PolicyCounts DEF RulesUpTo
  <2>3. QED
    BY <1>1, <1>5, <2>1, <2>2
<1>7. WellNumbered(rules, nextId)
  BY <1>5, <1>6 DEF WellNumbered
<1>8. Ids(rules) = (1 .. nextId) \ gone /\ gone \subseteq 1 .. nextId
  <2>1. Ids(policy.rules) = (1 .. nextId - 1) \ gone /\ gone \subseteq 1 .. nextId - 1
    BY PolicyCounts DEF PolicyRows
  <2>2. Ids(rules) = Ids(policy.rules) \cup {nextId}
    BY <1>5 DEF Ids
  <2>3. 1 .. nextId = (1 .. nextId - 1) \cup {nextId} /\ nextId \notin 1 .. nextId - 1
    BY <1>1
  <2>4. QED
    BY <2>1, <2>2, <2>3
<1> HIDE DEF rules
<1>9. gone' \subseteq 1 .. nextId' - 1 /\ WellNumbered(rules, nextId' - 1) /\ Ids(rules) = (1 .. nextId' - 1) \ gone'
  BY <1>1, <1>2, <1>7, <1>8
<1>10. QED
  BY <1>1, <1>2, <1>3, <1>9, CommitKeepsRows

\* A route that creates no rule and makes a version of the rules it leaves.
LEMMA SameNumbersKeepRows ==
  ASSUME PolicyRows, NEW c, CallWhole(c, Len(snapshots), nextId - 1), c.pc = "numbered",
         nextId' = nextId, gone' \subseteq 1 .. nextId - 1,
         NEW name \in Names, NEW rules, WellNumbered(rules, nextId - 1),
         Ids(rules) = (1 .. nextId - 1) \ gone', Commit(c, name, rules)
  PROVE  PolicyRows' /\ Len(snapshots') = Len(snapshots) + 1 /\ nextId <= nextId'
<1>1. nextId' \in nextId .. MaxIds + 1
  BY PolicyCounts
<1>2. c.num \in 1 .. Len(snapshots) + 1 /\ c.saw \in PolicyRules /\ WellNumbered(c.saw, nextId - 1)
  BY DEF CallWhole, PolicyCall
<1>3. /\ gone' \subseteq 1 .. nextId' - 1 /\ WellNumbered(rules, nextId' - 1)
      /\ Ids(rules) = (1 .. nextId' - 1) \ gone'
  OBVIOUS
<1>4. QED
  BY <1>1, <1>2, <1>3, CommitKeepsRows

\* The text of a rule: no version, and the same numbers.
LEMMA UpdateKeepsRows ==
  ASSUME PolicyRows, NEW c, CallWhole(c, Len(snapshots), nextId - 1), UpdateRoute(c)
  PROVE  PolicyRows' /\ snapshots' = snapshots /\ nextId' = nextId
<1> DEFINE edited(r) == IF r.id = c.id THEN [r EXCEPT !.text = c.text] ELSE r
           rules == Edited(policy.rules, c.id, c.text)
<1>1. UNCHANGED <<snapshots, nextId, gone>> /\ c.text \in Criteria
      /\ (policy' = [policy EXCEPT !.rules = rules] \/ policy' = policy)
  BY DEF UpdateRoute, CallWhole, PolicyCall
<1>2. rules = {edited(r) : r \in policy.rules}
  BY DEF Edited
<1>3. \A r \in policy.rules : edited(r) \in RulesUpTo(nextId - 1) /\ edited(r).id = r.id
  BY <1>1, PolicyCounts DEF RulesUpTo
<1> HIDE DEF edited, rules
<1>4. WellNumbered(rules, nextId - 1)
  BY <1>2, <1>3, PolicyCounts DEF WellNumbered
<1>5. Ids(rules) = Ids(policy.rules)
  BY <1>2, <1>3 DEF Ids
<1>6. rules \in PolicyRules
  BY <1>4, PolicyCounts DEF WellNumbered, RulesUpTo, PolicyRules
<1>7. CASE policy' = policy
  BY <1>1, <1>7 DEF PolicyRows, RulesOnlyLeaveByDecision
<1>8. CASE policy' = [policy EXCEPT !.rules = rules]
  <2>1. policy \in PolicyRow /\ policy.num \in 0 .. Len(snapshots)
    BY DEF PolicyRows, RowUpTo
  <2>2. policy' \in PolicyRow /\ policy'.num = policy.num /\ policy'.rules = rules
    BY <1>6, <1>8, <2>1 DEF PolicyRow
  <2>3. RowUpTo(policy', Len(snapshots), nextId - 1)
    BY <1>4, <2>1, <2>2 DEF RowUpTo
  <2>4. QED
    BY <1>1, <1>5, <2>2, <2>3 DEF PolicyRows, RulesOnlyLeaveByDecision
<1>9. QED
  BY <1>1, <1>7, <1>8

\* A rule that is deleted is gone for good, also if it was gone already.
LEMMA DeleteKeepsRows ==
  ASSUME PolicyRows, NEW c, CallWhole(c, Len(snapshots), nextId - 1), c.pc = "numbered", c.op = "delete", DeleteRoute(c)
  PROVE  PolicyRows' /\ Len(snapshots') = Len(snapshots) + 1 /\ nextId <= nextId'
<1> DEFINE left == {r \in policy.rules : r.id # c.id}
<1>1. gone' = gone \cup {c.id} /\ nextId' = nextId /\ Commit(c, c.row.name, left)
  BY DEF DeleteRoute
<1>2. c.id \in 1 .. nextId - 1 /\ c.row.name \in Names
  BY DEF CallWhole, RowUpTo, PolicyRow
<1>3. WellNumbered(left, nextId - 1)
  BY PolicyCounts DEF WellNumbered
<1>4. Ids(left) = Ids(policy.rules) \ {c.id}
  BY DEF Ids
<1> HIDE DEF left
<1>5. gone' \subseteq 1 .. nextId - 1 /\ Ids(left) = (1 .. nextId - 1) \ gone'
  BY <1>1, <1>2, <1>4, PolicyCounts DEF PolicyRows
<1>6. QED
  BY <1>1, <1>2, <1>3, <1>5, SameNumbersKeepRows

\* The places a request gives are below the number of the rules it names.
LEMMA PlacedIsWhole ==
  ASSUME NEW n \in Nat, NEW c, c.order \in Seq(Nat), Len(c.order) <= n, NEW r \in RulesUpTo(n)
  PROVE  Placed(r, c) \in RulesUpTo(n) /\ Placed(r, c).id = r.id
<1>1. CASE r.id \in Moved(c)
  <2> DEFINE S == {k \in DOMAIN c.order : c.order[k] = r.id}
  <2>1. Contains(c.order, r.id)
    BY <1>1 DEF Moved
  <2>2. S \in SUBSET (1 .. Len(c.order)) /\ S # {} /\ Len(c.order) \in Nat
    BY <2>1 DEF Contains
  <2> HIDE DEF S
  <2>3. S \in SUBSET (0 .. Len(c.order))
    BY <2>2
  <2>4. Max(S) \in S
    BY <2>2, <2>3, MaxIsGreatest
  <2>5. PlaceIn(c.order, r.id) \in 1 .. Len(c.order)
    BY <2>2, <2>4 DEF PlaceIn, S
  <2>6. PlaceIn(c.order, r.id) - 1 \in 0 .. n - 1
    BY <2>2, <2>5
  <2>7. Placed(r, c) = [r EXCEPT !.pos = PlaceIn(c.order, r.id) - 1]
    BY <1>1 DEF Placed
  <2>8. QED
    BY <1>1, <2>6, <2>7 DEF RulesUpTo
<1>2. CASE r.id \notin Moved(c)
  BY <1>2 DEF Placed
<1>3. QED
  BY <1>1, <1>2

\* Rules whose places are set stay the same rules.
LEMMA ReorderedIsWhole ==
  ASSUME NEW n \in Nat, NEW c, c.order \in Seq(Nat), Len(c.order) <= n, NEW rules, WellNumbered(rules, n)
  PROVE  WellNumbered(Reordered(rules, c), n) /\ Ids(Reordered(rules, c)) = Ids(rules)
<1>1. \A r \in rules : Placed(r, c) \in RulesUpTo(n) /\ Placed(r, c).id = r.id
  BY PlacedIsWhole DEF WellNumbered
<1>2. WellNumbered(Reordered(rules, c), n)
  BY <1>1 DEF WellNumbered, Reordered
<1>3. Ids(Reordered(rules, c)) = Ids(rules)
  BY <1>1 DEF Ids, Reordered
<1>4. QED
  BY <1>2, <1>3

\* The positions of the rules the request names: the policy keeps all its rules.
LEMMA ReorderKeepsRows ==
  ASSUME PolicyRows, NEW c, CallWhole(c, Len(snapshots), nextId - 1), c.pc = "numbered", ReorderRoute(c)
  PROVE  PolicyRows' /\ Len(snapshots') = Len(snapshots) + 1 /\ nextId <= nextId'
<1>1. c.order \in Seq(Nat) /\ Len(c.order) <= nextId - 1 /\ c.row.name \in Names
  BY DEF CallWhole, PolicyCall, RowUpTo, PolicyRow
<1>2. Commit(c, c.row.name, Reordered(policy.rules, c)) /\ UNCHANGED <<nextId, gone>>
  BY DEF ReorderRoute
<1>3. /\ WellNumbered(Reordered(policy.rules, c), nextId - 1)
      /\ Ids(Reordered(policy.rules, c)) = (1 .. nextId - 1) \ gone /\ gone \subseteq 1 .. nextId - 1
  <2>1. nextId - 1 \in Nat
    BY PolicyCounts
  <2>2. /\ WellNumbered(policy.rules, nextId - 1)
        /\ Ids(policy.rules) = (1 .. nextId - 1) \ gone /\ gone \subseteq 1 .. nextId - 1
    BY PolicyCounts DEF PolicyRows
  <2>3. /\ WellNumbered(Reordered(policy.rules, c), nextId - 1)
        /\ Ids(Reordered(policy.rules, c)) = Ids(policy.rules)
    BY <1>1, <2>1, <2>2, ReorderedIsWhole
  <2>4. QED
    BY <2>2, <2>3
<1>4. QED
  BY <1>1, <1>2, <1>3, SameNumbersKeepRows

\* The name.
LEMMA SaveKeepsRows ==
  ASSUME PolicyRows, NEW c, CallWhole(c, Len(snapshots), nextId - 1), c.pc = "numbered", SaveRoute(c)
  PROVE  PolicyRows' /\ Len(snapshots') = Len(snapshots) + 1 /\ nextId <= nextId'
<1>1. Commit(c, c.name, policy.rules) /\ UNCHANGED <<nextId, gone>> /\ c.name \in Names
  BY DEF SaveRoute, CallWhole, PolicyCall
<1>2. gone' \subseteq 1 .. nextId - 1 /\ Ids(policy.rules) = (1 .. nextId - 1) \ gone'
  BY <1>1, PolicyCounts DEF PolicyRows
<1>3. QED
  BY <1>1, <1>2, PolicyCounts, SameNumbersKeepRows

\* A restore: every rule the route has loaded is gone, and each rule of the version comes
\* back under a number of its own.
LEMMA RestoreKeepsRows ==
  ASSUME PolicyRows, NEW c, CallWhole(c, Len(snapshots), nextId - 1), c.pc = "numbered", c.op = "restore",
         RestoreRoute(c)
  PROVE  PolicyRows' /\ Len(snapshots') = Len(snapshots) + 1 /\ nextId <= nextId'
<1> DEFINE old == snapshots[c.version]
           seq == Listed(old.saw)
           n == Cardinality(old.saw)
           fresh == {[seq[k] EXCEPT !.id = nextId + k - 1] : k \in DOMAIN seq}
           kept == {r \in policy.rules : r.id \notin Ids(c.row.rules)}
<1>1. nextId \in Nat /\ nextId - 1 \in Nat /\ MaxIds \in Nat /\ nextId >= 1
  BY PolicyCounts
<1>2. old.name \in Names /\ WellNumbered(old.saw, nextId - 1)
  <2>1. c.version \in 1 .. Len(snapshots)
    BY DEF CallWhole
  <2>2. old \in Version /\ WellNumbered(old.saw, nextId - 1)
    BY <2>1 DEF PolicyRows
  <2>3. QED
    BY <2>2 DEF Version
<1> HIDE DEF old
<1>3. n \in Nat /\ seq \in [1 .. n -> old.saw]
  BY <1>1, <1>2, RulesAreFinite, ListedIsASort
<1>4. Len(seq) = n /\ DOMAIN seq = 1 .. n
  <2> HIDE DEF seq, n
  <2>1. DOMAIN seq = 1 .. n
    BY <1>3
  <2>2. seq \in Seq(old.saw)
    BY <1>3, SeqDef
  <2>3. Len(seq) \in Nat /\ DOMAIN seq = 1 .. Len(seq)
    BY <2>2
  <2>4. QED
    BY <1>3, <2>1, <2>3
<1>5. /\ nextId' = nextId + n /\ nextId' \in nextId .. MaxIds + 1 /\ gone' = gone \cup Ids(c.row.rules)
      /\ Commit(c, old.name, kept \cup fresh)
  <2>1. /\ nextId' = nextId + Len(seq) /\ nextId + Len(seq) <= MaxIds + 1
        /\ gone' = gone \cup Ids(c.row.rules) /\ Commit(c, old.name, kept \cup fresh)
    BY DEF RestoreRoute, old
  <2> HIDE DEF seq, n, kept, fresh
  <2>2. QED
    BY <1>1, <1>3, <1>4, <2>1
<1> HIDE DEF n, seq
<1>6. \A k \in 1 .. n : /\ [seq[k] EXCEPT !.id = nextId + k - 1] \in RulesUpTo(nextId' - 1)
                        /\ [seq[k] EXCEPT !.id = nextId + k - 1].id = nextId + k - 1
  <2> SUFFICES ASSUME NEW k \in 1 .. n
               PROVE  /\ [seq[k] EXCEPT !.id = nextId + k - 1] \in RulesUpTo(nextId' - 1)
                      /\ [seq[k] EXCEPT !.id = nextId + k - 1].id = nextId + k - 1
    OBVIOUS
  <2>1. seq[k] \in [id : 1 .. nextId - 1, pos : 0 .. (nextId - 1) - 1, text : Criteria]
    BY <1>2, <1>3 DEF WellNumbered, RulesUpTo
  <2>2. nextId + k - 1 \in 1 .. nextId' - 1 /\ 0 .. (nextId - 1) - 1 \subseteq 0 .. (nextId' - 1) - 1
    BY <1>1, <1>3, <1>5
  <2>3. QED
    BY <2>1, <2>2 DEF RulesUpTo
<1>7. fresh = {[seq[k] EXCEPT !.id = nextId + k - 1] : k \in 1 .. n}
  BY <1>4
<1> HIDE DEF fresh
<1>8. WellNumbered(fresh, nextId' - 1)
  <2>1. \A j, k \in 1 .. n : nextId + j - 1 = nextId + k - 1 => j = k
    BY <1>1, <1>3
  <2>2. fresh \subseteq RulesUpTo(nextId' - 1)
    BY <1>6, <1>7
  <2>3. ASSUME NEW r \in fresh, NEW s \in fresh, r.id = s.id PROVE r = s
    <3>1. PICK j \in 1 .. n : r = [seq[j] EXCEPT !.id = nextId + j - 1]
      BY <1>7
    <3>2. PICK k \in 1 .. n : s = [seq[k] EXCEPT !.id = nextId + k - 1]
      BY <1>7
    <3>3. r.id = nextId + j - 1 /\ s.id = nextId + k - 1
      BY <1>6, <3>1, <3>2
    <3>4. j = k
      BY <2>1, <2>3, <3>3
    <3>5. QED
      BY <3>1, <3>2, <3>4
  <2>4. QED
    BY <2>2, <2>3 DEF WellNumbered
<1>9. Ids(fresh) = nextId .. nextId' - 1
  <2>1. Ids(fresh) = {nextId + k - 1 : k \in 1 .. n}
    BY <1>6, <1>7 DEF Ids
  <2>2. \A x \in nextId .. nextId' - 1 : x - nextId + 1 \in 1 .. n /\ x = nextId + (x - nextId + 1) - 1
    BY <1>1, <1>3, <1>5
  <2>3. \A k \in 1 .. n : nextId + k - 1 \in nextId .. nextId' - 1
    BY <1>1, <1>3, <1>5
  <2>4. QED
    BY <2>1, <2>2, <2>3
<1>10. WellNumbered(kept, nextId - 1) /\ Ids(kept) = Ids(policy.rules) \ Ids(c.row.rules)
  <2>1. WellNumbered(kept, nextId - 1)
    BY PolicyCounts DEF WellNumbered
  <2>2. Ids(kept) = Ids(policy.rules) \ Ids(c.row.rules)
    BY DEF Ids
  <2>3. QED
    BY <2>1, <2>2
<1>11. nextId' - 1 \in Nat /\ nextId - 1 <= nextId' - 1
  BY <1>1, <1>3, <1>5
<1> HIDE DEF kept
<1>12. WellNumbered(kept \cup fresh, nextId' - 1)
  <2>1. WellNumbered(kept, nextId' - 1)
    BY <1>1, <1>10, <1>11, NumbersGrow
  <2>2. \A r \in kept : r.id \in 1 .. nextId - 1
    BY <1>10 DEF WellNumbered, RulesUpTo
  <2>3. \A r \in fresh : r.id \in nextId .. nextId' - 1
    BY <1>9 DEF Ids
  <2>4. \A r \in kept, s \in fresh : r.id # s.id
    BY <1>1, <2>2, <2>3
  <2>5. QED
    BY <1>8, <2>1, <2>4 DEF WellNumbered
<1>13. Ids(c.row.rules) \subseteq 1 .. nextId - 1
  BY DEF CallWhole, RowUpTo, WellNumbered, RulesUpTo, Ids
<1>14. gone' \subseteq 1 .. nextId' - 1 /\ Ids(kept \cup fresh) = (1 .. nextId' - 1) \ gone'
  <2>1. 1 .. nextId' - 1 = (1 .. nextId - 1) \cup (nextId .. nextId' - 1)
        /\ (1 .. nextId - 1) \cap (nextId .. nextId' - 1) = {}
    BY <1>1, <1>3, <1>5
  <2>2. Ids(kept \cup fresh) = Ids(kept) \cup Ids(fresh)
    BY DEF Ids
  <2>3. Ids(policy.rules) = (1 .. nextId - 1) \ gone /\ gone \subseteq 1 .. nextId - 1
    BY PolicyCounts DEF PolicyRows
  <2>4. QED
    BY <1>5, <1>9, <1>10, <1>13, <2>1, <2>2, <2>3
<1>15. c.num \in 1 .. Len(snapshots) + 1 /\ c.saw \in PolicyRules /\ WellNumbered(c.saw, nextId - 1)
  BY DEF CallWhole, PolicyCall
<1>16. QED
  BY <1>2, <1>5, <1>12, <1>14, <1>15, CommitKeepsRows

-----------------------------------------------------------------------------
\* A call before its fields are set, and one whose fields are.
LEMMA CallIsWhole ==
  ASSUME NEW m \in Nat, NEW n \in Nat, NEW u \in Desks, NEW op \in PolicyOps
  PROVE  /\ Call(u, op) \in PolicyCall /\ Call(u, op).by = u /\ Call(u, op).op = op
         /\ Call(u, op).pc = "sent" /\ Call(u, op).name = InitialName
         /\ (op # "restore" => CallWhole(Call(u, op), m, n))
         /\ Len(Call(u, op).order) = 0 /\ RowUpTo(Call(u, op).row, m, n) /\ Call(u, op).saw = {}
<1>1. InitialName \in Names /\ InitialText \in Criteria
  BY PolicyDeskAssumption DEF InitialName, InitialText
<1> DEFINE none == <<>>
<1>2. none \in Seq(Nat) /\ Len(none) = 0
  OBVIOUS
<1>3. {} \in PolicyRules /\ WellNumbered({}, n)
  BY DEF PolicyRules, WellNumbered
<1>4. NoRow \in PolicyRow /\ RowUpTo(NoRow, m, n)
  BY <1>1, <1>3 DEF NoRow, PolicyRow, RowUpTo
<1>5. Call(u, op) = [by |-> u, op |-> op, name |-> InitialName, id |-> 0, text |-> InitialText, order |-> none,
                     version |-> 0, row |-> NoRow, num |-> 0, saw |-> {}, pc |-> "sent"]
  BY DEF Call
<1> HIDE DEF none
<1>6. Call(u, op) \in PolicyCall
  BY <1>1, <1>2, <1>3, <1>4, <1>5 DEF PolicyCall
<1>7. /\ Call(u, op).by = u /\ Call(u, op).op = op /\ Call(u, op).pc = "sent" /\ Call(u, op).order = none
      /\ Call(u, op).row = NoRow /\ Call(u, op).saw = {} /\ Call(u, op).name = InitialName
  BY <1>5
<1>8. QED
  BY <1>2, <1>3, <1>4, <1>6, <1>7 DEF CallWhole

\* Setting one field of a call keeps it a call of its kind, and leaves the others.
LEMMA SetId ==
  ASSUME NEW c \in PolicyCall, NEW x \in Nat, NEW d, d = [c EXCEPT !.id = x]
  PROVE  /\ d \in PolicyCall /\ d.by = c.by /\ d.op = c.op /\ d.pc = c.pc /\ d.order = c.order
         /\ d.row = c.row /\ d.saw = c.saw /\ d.name = c.name
<1>1. d = [by |-> c.by, op |-> c.op, name |-> c.name, id |-> x, text |-> c.text, order |-> c.order,
          version |-> c.version, row |-> c.row, num |-> c.num, saw |-> c.saw, pc |-> c.pc]
  BY DEF PolicyCall
<1>2. QED
  BY <1>1 DEF PolicyCall

\* Its text.
LEMMA SetText ==
  ASSUME NEW c \in PolicyCall, NEW x \in Criteria, NEW d, d = [c EXCEPT !.text = x]
  PROVE  /\ d \in PolicyCall /\ d.by = c.by /\ d.op = c.op /\ d.pc = c.pc /\ d.order = c.order
         /\ d.row = c.row /\ d.saw = c.saw /\ d.name = c.name
<1>1. d = [by |-> c.by, op |-> c.op, name |-> c.name, id |-> c.id, text |-> x, order |-> c.order,
          version |-> c.version, row |-> c.row, num |-> c.num, saw |-> c.saw, pc |-> c.pc]
  BY DEF PolicyCall
<1>2. QED
  BY <1>1 DEF PolicyCall

\* Its name.
LEMMA SetName ==
  ASSUME NEW c \in PolicyCall, NEW x \in Names, NEW d, d = [c EXCEPT !.name = x]
  PROVE  /\ d \in PolicyCall /\ d.by = c.by /\ d.op = c.op /\ d.pc = c.pc /\ d.order = c.order
         /\ d.row = c.row /\ d.saw = c.saw /\ d.name = x
<1>1. d = [by |-> c.by, op |-> c.op, name |-> x, id |-> c.id, text |-> c.text, order |-> c.order,
          version |-> c.version, row |-> c.row, num |-> c.num, saw |-> c.saw, pc |-> c.pc]
  BY DEF PolicyCall
<1>2. QED
  BY <1>1 DEF PolicyCall

\* Its version.
LEMMA SetVersion ==
  ASSUME NEW c \in PolicyCall, NEW x \in Nat, NEW d, d = [c EXCEPT !.version = x]
  PROVE  /\ d \in PolicyCall /\ d.by = c.by /\ d.op = c.op /\ d.pc = c.pc /\ d.order = c.order
         /\ d.row = c.row /\ d.saw = c.saw /\ d.name = c.name /\ d.version = x
<1>1. d = [by |-> c.by, op |-> c.op, name |-> c.name, id |-> c.id, text |-> c.text, order |-> c.order,
          version |-> x, row |-> c.row, num |-> c.num, saw |-> c.saw, pc |-> c.pc]
  BY DEF PolicyCall
<1>2. QED
  BY <1>1 DEF PolicyCall

\* Its order.
LEMMA SetOrder ==
  ASSUME NEW c \in PolicyCall, NEW x \in Seq(Nat), NEW d, d = [c EXCEPT !.order = x]
  PROVE  /\ d \in PolicyCall /\ d.by = c.by /\ d.op = c.op /\ d.pc = c.pc /\ d.row = c.row
         /\ d.saw = c.saw /\ d.name = c.name /\ d.order = x
<1>1. d = [by |-> c.by, op |-> c.op, name |-> c.name, id |-> c.id, text |-> c.text, order |-> x,
          version |-> c.version, row |-> c.row, num |-> c.num, saw |-> c.saw, pc |-> c.pc]
  BY DEF PolicyCall
<1>2. QED
  BY <1>1 DEF PolicyCall

\* It has committed.
LEMMA SetDone ==
  ASSUME NEW c \in PolicyCall, NEW d, d = [c EXCEPT !.pc = "done"]
  PROVE  /\ d \in PolicyCall /\ d.by = c.by /\ d.op = c.op /\ d.order = c.order /\ d.row = c.row
         /\ d.saw = c.saw /\ d.name = c.name /\ d.id = c.id /\ d.version = c.version /\ d.pc = "done"
<1>1. d = [by |-> c.by, op |-> c.op, name |-> c.name, id |-> c.id, text |-> c.text, order |-> c.order,
          version |-> c.version, row |-> c.row, num |-> c.num, saw |-> c.saw, pc |-> "done"]
  BY DEF PolicyCall
<1>2. QED
  BY <1>1 DEF PolicyCall

\* It has loaded its rows.
WithRow(c, x) == [c EXCEPT !.row = x, !.pc = "loaded"]
LEMMA SetLoaded ==
  ASSUME NEW c \in PolicyCall, NEW x \in PolicyRow, NEW d, d = WithRow(c, x)
  PROVE  /\ d \in PolicyCall /\ d.by = c.by /\ d.op = c.op /\ d.order = c.order /\ d.saw = c.saw
         /\ d.name = c.name /\ d.id = c.id /\ d.version = c.version /\ d.row = x /\ d.pc = "loaded"
<1>1. d = [by |-> c.by, op |-> c.op, name |-> c.name, id |-> c.id, text |-> c.text, order |-> c.order,
          version |-> c.version, row |-> x, num |-> c.num, saw |-> c.saw, pc |-> "loaded"]
  BY DEF PolicyCall, WithRow
<1>2. QED
  BY <1>1 DEF PolicyCall

\* It has its number.
WithNumber(c, x, y) == [c EXCEPT !.num = x, !.saw = y, !.pc = "numbered"]
LEMMA SetNumbered ==
  ASSUME NEW c \in PolicyCall, NEW x \in Nat, NEW y \in PolicyRules, NEW d, d = WithNumber(c, x, y)
  PROVE  /\ d \in PolicyCall /\ d.by = c.by /\ d.op = c.op /\ d.order = c.order /\ d.row = c.row
         /\ d.name = c.name /\ d.id = c.id /\ d.version = c.version /\ d.num = x /\ d.saw = y /\ d.pc = "numbered"
<1>1. d = [by |-> c.by, op |-> c.op, name |-> c.name, id |-> c.id, text |-> c.text, order |-> c.order,
          version |-> c.version, row |-> c.row, num |-> x, saw |-> y, pc |-> "numbered"]
  BY DEF PolicyCall, WithNumber
<1>2. QED
  BY <1>1 DEF PolicyCall

\* A route goes on: the request is one of those under way, and stays the request it is.
LEMMA TurnedSteps ==
  ASSUME CallsWhole, PolicyForms, SavingAwaited, NEW c \in calls, NEW d, Turned(c, d),
         Len(snapshots) \in Nat, Len(snapshots') \in Nat, Len(snapshots) <= Len(snapshots'),
         nextId - 1 \in Nat, nextId' - 1 \in Nat, nextId - 1 <= nextId' - 1,
         CallWhole(d, Len(snapshots'), nextId' - 1), d.by = c.by, d.op = c.op, d.name = c.name,
         UNCHANGED <<nameForm, formDirty, formSaving, refill, tries>>,
         typed' \in [Desks -> TypedName],
         \A u \in Desks : /\ typed'[u].name = typed[u].name /\ typed'[u].kept = typed[u].kept
                          /\ typed'[u].during = typed[u].during /\ (typed[u].saved => typed'[u].saved),
         d.op = "save" /\ d.pc = "done" /\ c.pc # "done" /\ d.name = typed[d.by].name => typed'[d.by].saved
  PROVE  CallsWhole' /\ PolicyForms' /\ SavingAwaited'
<1>1. calls' = (calls \ {c}) \cup {d} /\ \A e \in calls : CallWhole(e, Len(snapshots), nextId - 1)
  BY DEF Turned, CallsWhole
<1>2. CallsWhole'
  <2>1. \A e \in calls' : CallWhole(e, Len(snapshots'), nextId' - 1)
    <3> SUFFICES ASSUME NEW e \in calls' PROVE CallWhole(e, Len(snapshots'), nextId' - 1)
      OBVIOUS
    <3>1. CASE e = d
      BY <3>1
    <3>2. CASE e \in calls
      BY <1>1, <3>2, CallsGrow
    <3>3. QED
      BY <1>1, <3>1, <3>2
  <2>2. IsFiniteSet(calls) /\ Cardinality(calls) <= MaxCalls /\ tries \in 0 .. MaxTries
    BY DEF CallsWhole
  <2>3. IsFiniteSet(calls \ {c}) /\ Cardinality(calls \ {c}) = Cardinality(calls) - 1 /\ Cardinality(calls) \in Nat
    BY <2>2, FS_RemoveElement, FS_CardinalityType
  <2>4. IsFiniteSet(calls') /\ Cardinality(calls') <= Cardinality(calls) /\ Cardinality(calls') \in Nat
    <3>1. IsFiniteSet(calls') /\ (Cardinality(calls') = Cardinality(calls \ {c}) \/ Cardinality(calls') = Cardinality(calls \ {c}) + 1)
      BY <1>1, <2>3, FS_AddElement
    <3>2. Cardinality(calls') \in Nat
      BY <3>1, FS_CardinalityType
    <3>3. QED
      BY <2>3, <3>1, <3>2
  <2>5. Cardinality(calls') <= MaxCalls
    <3>1. MaxCalls \in Nat
      BY PolicyDeskAssumption
    <3>2. QED
      BY <2>2, <2>3, <2>4, <3>1
  <2>6. QED
    BY <2>1, <2>2, <2>4, <2>5 DEF CallsWhole
<1>3. SavingAwaited'
  <2> SUFFICES ASSUME NEW u \in Desks, formSaving[u] PROVE \E e \in calls' : e.by = u /\ e.op = "save"
    BY DEF SavingAwaited
  <2>1. PICK e \in calls : e.by = u /\ e.op = "save"
    BY DEF SavingAwaited
  <2>2. QED
    BY <1>1, <2>1
<1>4. ASSUME NEW u \in Desks PROVE FormKept(u)'
  <2>1. FormKept(u)
    BY DEF PolicyForms
  <2>2. Pending(u, "restore")' => Pending(u, "restore")
    BY <1>1 DEF Pending
  <2>3. ASSUME typed[u].kept, ~typed[u].during, NEW e \in calls', e.by = u, e.op = "save"
        PROVE  e.name = typed[u].name /\ (e.pc = "done" => typed'[u].saved)
    <3>1. CASE e \in calls
      BY <2>1, <2>3, <3>1 DEF FormKept
    <3>2. CASE e = d
      BY <2>1, <2>3, <3>2 DEF FormKept
    <3>3. QED
      BY <1>1, <3>1, <3>2
  <2>4. QED
    BY <2>1, <2>2, <2>3 DEF FormKept
<1>5. PolicyForms'
  BY <1>4 DEF PolicyForms
<1>6. QED
  BY <1>2, <1>3, <1>5

\* What a route that commits does to the rows.
LEMMA RouteKeepsRows ==
  ASSUME PolicyRows, CallsWhole, NEW c, PolicyRouteCommits(c)
  PROVE  PolicyRows' /\ Len(snapshots') \in {Len(snapshots), Len(snapshots) + 1} /\ nextId <= nextId'
<1>1. CallWhole(c, Len(snapshots), nextId - 1) /\ (c.op # "update" => c.pc = "numbered")
  BY DEF CallsWhole, PolicyRouteCommits
<1>2. c.op \in PolicyOps
  BY <1>1 DEF PolicyCall, CallWhole
<1>3. Len(snapshots) \in Nat /\ nextId \in Nat
  BY PolicyCounts
<1>4. CASE c.op = "create"
  <2>1. CreateRoute(c)
    BY <1>4 DEF PolicyRouteCommits
  <2>2. QED
    BY <1>1, <1>4, <2>1, CreateKeepsRows
<1>5. CASE c.op = "update"
  <2>1. UpdateRoute(c)
    BY <1>5 DEF PolicyRouteCommits
  <2>2. QED
    BY <1>1, <1>3, <2>1, UpdateKeepsRows
<1>6. CASE c.op = "delete"
  <2>1. DeleteRoute(c)
    BY <1>6 DEF PolicyRouteCommits
  <2>2. QED
    BY <1>1, <1>6, <2>1, DeleteKeepsRows
<1>7. CASE c.op = "reorder"
  <2>1. ReorderRoute(c)
    BY <1>7 DEF PolicyRouteCommits
  <2>2. QED
    BY <1>1, <1>7, <2>1, ReorderKeepsRows
<1>8. CASE c.op = "save"
  <2>1. SaveRoute(c)
    BY <1>8 DEF PolicyRouteCommits
  <2>2. QED
    BY <1>1, <1>8, <2>1, SaveKeepsRows
<1>9. CASE c.op = "restore"
  <2>1. RestoreRoute(c)
    BY <1>9 DEF PolicyRouteCommits
  <2>2. QED
    BY <1>1, <1>9, <2>1, RestoreKeepsRows
<1>10. QED
  BY <1>2, <1>4, <1>5, <1>6, <1>7, <1>8, <1>9 DEF PolicyOps

\* A route commits.
LEMMA CommitSteps ==
  ASSUME PolicyInvariant, NEW c, PolicyRouteCommits(c)
  PROVE  PolicyInvariant'
<1> DEFINE done == [c EXCEPT !.pc = "done"]
<1> HIDE DEF done
<1>1. PolicyRows /\ PolicyRows' /\ Len(snapshots') \in {Len(snapshots), Len(snapshots) + 1} /\ nextId <= nextId'
  BY RouteKeepsRows DEF PolicyInvariant
<1>2. /\ Len(snapshots) \in Nat /\ Len(snapshots') \in Nat /\ Len(snapshots) <= Len(snapshots')
      /\ nextId - 1 \in Nat /\ nextId' - 1 \in Nat /\ nextId - 1 <= nextId' - 1
  <2>1. MaxIds \in Nat /\ nextId \in Nat /\ nextId >= 1 /\ Len(snapshots) \in Nat /\ nextId' \in 1 .. MaxIds + 1
    BY <1>1, PolicyCounts DEF PolicyRows
  <2>2. Len(snapshots') = Len(snapshots) \/ Len(snapshots') = Len(snapshots) + 1
    BY <1>1
  <2>3. nextId' \in nextId .. MaxIds + 1
    BY <1>1, <2>1
  <2>4. nextId - 1 \in Nat /\ nextId' - 1 \in Nat /\ nextId - 1 <= nextId' - 1
    BY <2>1, <2>3, NumbersAreHigher
  <2>5. Len(snapshots') \in Nat /\ Len(snapshots) <= Len(snapshots')
    BY <2>1, <2>2
  <2>6. QED
    BY <2>1, <2>4, <2>5
<1>3. /\ c \in calls /\ Turned(c, done) /\ c.pc # "done"
      /\ UNCHANGED <<shown, nameForm, formDirty, formSaving, refill, tries>>
      /\ typed' = IF c.op = "save" /\ c.name = typed[c.by].name THEN [typed EXCEPT ![c.by].saved = TRUE] ELSE typed
  BY DEF PolicyRouteCommits, done
<1>4. CallWhole(c, Len(snapshots'), nextId' - 1)
  BY <1>2, <1>3, CallsGrow DEF PolicyInvariant, CallsWhole
<1>5. /\ done \in PolicyCall /\ done.pc = "done" /\ done.op = c.op /\ done.by = c.by /\ done.order = c.order
      /\ done.version = c.version /\ done.row = c.row /\ done.saw = c.saw /\ done.id = c.id /\ done.name = c.name
  BY <1>4, SetDone DEF CallWhole, done
<1>6. c.by \in Desks /\ typed \in [Desks -> TypedName]
  BY <1>4 DEF CallWhole, PolicyCall, PolicyInvariant, PolicyForms
<1>7. CallWhole(done, Len(snapshots'), nextId' - 1)
  <2>1. c.op = "delete" => c.pc # "sent"
    BY DEF PolicyRouteCommits
  <2>2. QED
    BY <1>4, <1>5, <2>1 DEF CallWhole
<1>8. /\ typed' \in [Desks -> TypedName]
      /\ \A u \in Desks : /\ typed'[u].name = typed[u].name /\ typed'[u].kept = typed[u].kept
                          /\ typed'[u].during = typed[u].during /\ (typed[u].saved => typed'[u].saved)
      /\ c.op = "save" /\ c.name = typed[c.by].name => typed'[c.by].saved
  BY <1>3, <1>6 DEF TypedName
<1>9. CallsWhole' /\ PolicyForms' /\ SavingAwaited'
  BY <1>2, <1>3, <1>5, <1>7, <1>8, TurnedSteps DEF PolicyInvariant
<1>10. PolicyPages'
  <2>1. \A u \in Desks : RowUpTo(shown[u], Len(snapshots'), nextId' - 1)
    BY <1>2, RowsGrow DEF PolicyInvariant, PolicyPages
  <2>2. QED
    BY <1>3, <2>1 DEF PolicyInvariant, PolicyPages
<1>11. QED
  BY <1>1, <1>9, <1>10 DEF PolicyInvariant

\* A route loads its rows, or takes its number.
LEMMA ReadSteps ==
  ASSUME PolicyInvariant, NEW c, RouteLoads(c) \/ RouteNumbers(c)
  PROVE  PolicyInvariant'
<1>1. /\ c \in calls /\ CallWhole(c, Len(snapshots), nextId - 1) /\ c \in PolicyCall
      /\ UNCHANGED <<policy, snapshots, nextId, gone, shown, nameForm, formDirty, formSaving, refill, typed, tries>>
  BY DEF RouteLoads, RouteNumbers, PolicyInvariant, CallsWhole, CallWhole
<1>2. PolicyRows /\ PolicyRows' /\ PolicyPages'
  BY <1>1 DEF PolicyInvariant, PolicyRows, RulesOnlyLeaveByDecision, PolicyPages
<1>3. /\ nextId - 1 \in Nat /\ Len(snapshots) \in Nat /\ typed \in [Desks -> TypedName]
      /\ WellNumbered(policy.rules, nextId - 1)
  BY <1>2, PolicyCounts DEF PolicyInvariant, PolicyForms
<1>4. CASE RouteLoads(c)
  <2> DEFINE d == [c EXCEPT !.row = policy, !.pc = "loaded"]
  <2>1. Turned(c, d) /\ (c.op = "delete" => c.id \in Ids(policy.rules))
    BY <1>4 DEF RouteLoads
  <2>2. RowUpTo(policy, Len(snapshots), nextId - 1) /\ policy \in PolicyRow
    BY <1>2 DEF PolicyRows, RowUpTo
  <2>3. /\ d \in PolicyCall /\ d.by = c.by /\ d.op = c.op /\ d.pc = "loaded" /\ d.order = c.order
        /\ d.version = c.version /\ d.row = policy /\ d.saw = c.saw /\ d.id = c.id /\ d.name = c.name
    <3>1. d = WithRow(c, policy) /\ c \in PolicyCall
      BY <1>1 DEF WithRow
    <3> HIDE DEF d
    <3>2. QED
      BY <2>2, <3>1, SetLoaded
  <2> HIDE DEF d
  <2>4. c.op = "delete" => c.id \in 1 .. nextId - 1
    BY <1>3, <2>1 DEF WellNumbered, RulesUpTo, Ids
  <2>5. CallWhole(d, Len(snapshots'), nextId' - 1)
    BY <1>1, <2>2, <2>3, <2>4 DEF CallWhole
  <2>6. CallsWhole' /\ PolicyForms' /\ SavingAwaited'
    BY <1>1, <1>3, <2>1, <2>3, <2>5, TurnedSteps DEF PolicyInvariant
  <2>7. QED
    BY <1>2, <2>6 DEF PolicyInvariant
<1>5. CASE RouteNumbers(c)
  <2> DEFINE d == [c EXCEPT !.num = Highest + 1, !.saw = Saw(c), !.pc = "numbered"]
             nums == {snapshots[k].num : k \in DOMAIN snapshots} \cup {0}
  <2>1. Turned(c, d) /\ c.pc = "loaded"
    BY <1>5 DEF RouteNumbers
  <2>2. Highest \in 0 .. Len(snapshots)
    <3>1. \A k \in DOMAIN snapshots : snapshots[k].num \in 0 .. Len(snapshots)
      BY <1>2, <1>3, PolicyCounts DEF PolicyRows
    <3>2. nums \in SUBSET (0 .. Len(snapshots)) /\ nums # {}
      BY <1>3, <3>1
    <3> HIDE DEF nums
    <3>3. Max(nums) \in nums
      BY <1>3, <3>2, MaxIsGreatest
    <3>4. QED
      BY <3>2, <3>3 DEF Highest, nums
  <2>3. WellNumbered(Saw(c), nextId - 1)
    <3>1. WellNumbered(c.row.rules, nextId - 1) /\ c.order \in Seq(Nat) /\ Len(c.order) <= nextId - 1
      BY <1>1 DEF CallWhole, RowUpTo, PolicyCall
    <3>2. WellNumbered(Reordered(c.row.rules, c), nextId - 1)
      BY <1>3, <3>1, ReorderedIsWhole
    <3>3. WellNumbered({r \in policy.rules : r.id # c.id}, nextId - 1)
      BY <1>3 DEF WellNumbered
    <3>4. \/ Saw(c) = c.row.rules \/ Saw(c) = Reordered(c.row.rules, c)
          \/ Saw(c) = {r \in policy.rules : r.id # c.id} \/ Saw(c) = policy.rules
      <4>1. c.op \in PolicyOps
        BY <1>1 DEF PolicyCall
      <4>2. QED
        BY <4>1 DEF Saw, PolicyOps
    <3>5. QED
      BY <1>3, <3>1, <3>2, <3>3, <3>4
  <2>4. Highest + 1 \in Nat /\ Highest + 1 \in 1 .. Len(snapshots) + 1
    BY <1>3, <2>2
  <2>5. Saw(c) \in PolicyRules
    BY <1>3, <2>3 DEF WellNumbered, RulesUpTo, PolicyRules
  <2>6. /\ d \in PolicyCall /\ d.by = c.by /\ d.op = c.op /\ d.pc = "numbered" /\ d.order = c.order
        /\ d.version = c.version /\ d.row = c.row /\ d.saw = Saw(c) /\ d.num = Highest + 1 /\ d.id = c.id
        /\ d.name = c.name
    <3>1. d = WithNumber(c, Highest + 1, Saw(c)) /\ c \in PolicyCall
      BY <1>1 DEF WithNumber
    <3> HIDE DEF d
    <3>2. QED
      BY <2>4, <2>5, <3>1, SetNumbered
  <2> HIDE DEF d
  <2>7. CallWhole(d, Len(snapshots'), nextId' - 1)
    BY <1>1, <2>1, <2>3, <2>4, <2>6 DEF CallWhole
  <2>8. CallsWhole' /\ PolicyForms' /\ SavingAwaited'
    BY <1>1, <1>3, <2>1, <2>6, <2>7, TurnedSteps DEF PolicyInvariant
  <2>9. QED
    BY <1>2, <2>8 DEF PolicyInvariant
<1>6. QED
  BY <1>4, <1>5

\* A request is sent: it is one more; one to restore a version makes what was typed no
\* longer count, and a save holds the name of the form.
LEMMA SendSteps ==
  ASSUME PolicyInvariant, NEW new, NEW forms \in [Desks -> BOOLEAN],
         CallWhole(new, Len(snapshots), nextId - 1), new.pc = "sent",
         new.op = "save" => new.name = nameForm[new.by],
         \A u \in Desks : forms[u] => formSaving[u] \/ (new.by = u /\ new.op = "save"),
         SendFrom(new, forms)
  PROVE  PolicyInvariant'
<1>1. /\ new \notin calls /\ Cardinality(calls) < MaxCalls /\ tries < MaxTries
      /\ calls' = calls \cup {new} /\ tries' = tries + 1 /\ formSaving' = forms
      /\ typed' = IF new.op = "restore" THEN [typed EXCEPT ![new.by].kept = FALSE] ELSE typed
      /\ UNCHANGED <<policy, snapshots, nextId, gone, shown, nameForm, formDirty, refill>>
  BY DEF SendFrom
<1>2. PolicyRows' /\ PolicyPages'
  BY <1>1 DEF PolicyInvariant, PolicyRows, RulesOnlyLeaveByDecision, PolicyPages
<1>3. CallsWhole'
  <2>1. IsFiniteSet(calls) /\ tries \in 0 .. MaxTries
    BY DEF PolicyInvariant, CallsWhole
  <2>2. IsFiniteSet(calls') /\ Cardinality(calls') = Cardinality(calls) + 1 /\ Cardinality(calls) \in Nat
    BY <1>1, <2>1, FS_AddElement, FS_CardinalityType
  <2>3. Cardinality(calls') <= MaxCalls /\ tries' \in 0 .. MaxTries
    BY <1>1, <2>1, <2>2, PolicyDeskAssumption
  <2>4. \A e \in calls' : CallWhole(e, Len(snapshots'), nextId' - 1)
    BY <1>1 DEF PolicyInvariant, CallsWhole
  <2>5. QED
    BY <2>2, <2>3, <2>4 DEF CallsWhole
<1>4. SavingAwaited'
  BY <1>1 DEF PolicyInvariant, SavingAwaited
<1>5. new.by \in Desks /\ typed \in [Desks -> TypedName]
  BY DEF CallWhole, PolicyCall, PolicyInvariant, PolicyForms
<1>6. /\ typed' \in [Desks -> TypedName]
      /\ \A u \in Desks : /\ typed'[u].name = typed[u].name /\ typed'[u].during = typed[u].during
                          /\ typed'[u].saved = typed[u].saved
                          /\ (typed'[u].kept => typed[u].kept /\ ~(new.op = "restore" /\ new.by = u))
                          /\ typed'[u].kept \in BOOLEAN
  BY <1>1, <1>5 DEF TypedName
<1>7. ASSUME NEW u \in Desks PROVE FormKept(u)'
  <2>1. FormKept(u)
    BY DEF PolicyInvariant, PolicyForms
  <2>2. Pending(u, "restore")' => Pending(u, "restore") \/ (new.op = "restore" /\ new.by = u)
    BY <1>1 DEF Pending
  <2>3. (refill[u] \/ Pending(u, "restore")') => ~typed'[u].kept
    BY <1>6, <2>1, <2>2 DEF FormKept
  <2>4. typed'[u].kept => nameForm[u] = typed'[u].name
    BY <1>6, <2>1 DEF FormKept
  <2>5. ASSUME typed'[u].kept, ~typed'[u].during
        PROVE  /\ formDirty[u] \/ typed'[u].saved
               /\ \A e \in calls' : e.by = u /\ e.op = "save" =>
                     e.name = typed'[u].name /\ (e.pc = "done" => typed'[u].saved)
    <3>1. typed[u].kept /\ ~typed[u].during /\ nameForm[u] = typed[u].name
      BY <1>6, <2>1, <2>5 DEF FormKept
    <3>2. ASSUME NEW e \in calls', e.by = u, e.op = "save"
          PROVE  e.name = typed[u].name /\ (e.pc = "done" => typed[u].saved)
      <4>1. CASE e \in calls
        BY <2>1, <3>1, <3>2, <4>1 DEF FormKept
      <4>2. CASE e = new
        BY <3>1, <3>2, <4>2
      <4>3. QED
        BY <1>1, <4>1, <4>2
    <3>3. formDirty[u] \/ typed[u].saved
      BY <2>1, <3>1 DEF FormKept
    <3>4. QED
      BY <1>6, <3>2, <3>3
  <2>6. QED
    BY <1>1, <2>3, <2>4, <2>5 DEF FormKept
<1>8. PolicyForms'
  BY <1>1, <1>6, <1>7 DEF PolicyInvariant, PolicyForms
<1>9. QED
  BY <1>2, <1>3, <1>4, <1>8 DEF PolicyInvariant

\* The requests of the page but the save.
LEMMA PlainSends ==
  ASSUME PolicyInvariant, NEW new, CallWhole(new, Len(snapshots), nextId - 1), new.pc = "sent", new.op # "save",
         SendCall(new)
  PROVE  PolicyInvariant'
<1>1. formSaving \in [Desks -> BOOLEAN] /\ SendFrom(new, formSaving)
  BY DEF SendCall, PolicyInvariant, PolicyForms
<1>2. QED
  BY <1>1, SendSteps

\* What a page sends, from the rules it shows.
LEMMA PageSends ==
  ASSUME PolicyInvariant, NEW u \in Desks,
         \/ \E r \in shown[u].rules : DeleteRule(u, r) \/ \E t \in Criteria : LeaveField(u, r, t) \/ PickField(u, r, t)
         \/ \E k \in 1 .. MaxIds : MoveDown(u, k)
         \/ \E k \in 1 .. MaxTries : RestoreSnapshot(u, k)
         \/ SavePolicy(u) \/ AddRule(u)
  PROVE  PolicyInvariant'
<1>1. nextId - 1 \in Nat /\ Len(snapshots) \in Nat /\ DOMAIN snapshots = 1 .. Len(snapshots)
  BY PolicyCounts DEF PolicyInvariant
<1>2. WellNumbered(shown[u].rules, nextId - 1)
  BY DEF PolicyInvariant, PolicyPages, RowUpTo
<1>3. \A r \in shown[u].rules : r.id \in Nat
  BY <1>2 DEF WellNumbered, RulesUpTo
<1>4. ASSUME NEW op \in PolicyOps
      PROVE  /\ Call(u, op) \in PolicyCall /\ Call(u, op).by = u /\ Call(u, op).op = op /\ Call(u, op).pc = "sent"
             /\ Len(Call(u, op).order) = 0 /\ RowUpTo(Call(u, op).row, Len(snapshots), nextId - 1)
             /\ WellNumbered(Call(u, op).saw, nextId - 1)
  <2>1. /\ Call(u, op) \in PolicyCall /\ Call(u, op).by = u /\ Call(u, op).op = op /\ Call(u, op).pc = "sent"
        /\ Len(Call(u, op).order) = 0 /\ RowUpTo(Call(u, op).row, Len(snapshots), nextId - 1)
        /\ Call(u, op).saw = {}
    BY <1>1, CallIsWhole
  <2>2. WellNumbered({}, nextId - 1)
    BY DEF WellNumbered
  <2>3. QED
    BY <2>1, <2>2
<1>5. ASSUME NEW r \in shown[u].rules, DeleteRule(u, r) PROVE PolicyInvariant'
  <2> DEFINE base == Call(u, "delete")
             new == [base EXCEPT !.id = r.id]
  <2>1. base \in PolicyCall /\ base.op = "delete" /\ base.pc = "sent" /\ Len(base.order) = 0
        /\ RowUpTo(base.row, Len(snapshots), nextId - 1) /\ WellNumbered(base.saw, nextId - 1)
    BY <1>4 DEF PolicyOps
  <2>2. SendCall(new)
    BY <1>5 DEF DeleteRule
  <2> HIDE DEF base
  <2>3. new \in PolicyCall /\ new.pc = "sent" /\ Len(new.order) = 0 /\ new.op = "delete"
        /\ new.row = base.row /\ new.saw = base.saw
    BY <1>3, <2>1, SetId
  <2> HIDE DEF new
  <2>4. CallWhole(new, Len(snapshots), nextId - 1)
    BY <1>1, <2>1, <2>3 DEF CallWhole
  <2>5. QED
    BY <2>2, <2>3, <2>4, PlainSends
<1>6. ASSUME NEW r \in shown[u].rules, NEW t \in Criteria, LeaveField(u, r, t) PROVE PolicyInvariant'
  <2> DEFINE base == Call(u, "update")
             named == [base EXCEPT !.id = r.id]
             new == [base EXCEPT !.id = r.id, !.text = t]
  <2>1. base \in PolicyCall /\ base.op = "update" /\ base.pc = "sent" /\ Len(base.order) = 0
        /\ RowUpTo(base.row, Len(snapshots), nextId - 1) /\ WellNumbered(base.saw, nextId - 1)
    BY <1>4 DEF PolicyOps
  <2>2. SendCall(new) /\ new = [named EXCEPT !.text = t]
    BY <1>6 DEF LeaveField
  <2> HIDE DEF base
  <2>3. named \in PolicyCall /\ named.pc = "sent" /\ Len(named.order) = 0 /\ named.op = "update"
        /\ named.row = base.row /\ named.saw = base.saw
    BY <1>3, <2>1, SetId
  <2> HIDE DEF named, new
  <2>4. new \in PolicyCall /\ new.pc = "sent" /\ Len(new.order) = 0 /\ new.op = "update"
        /\ new.row = base.row /\ new.saw = base.saw
    BY <2>2, <2>3, SetText
  <2>5. CallWhole(new, Len(snapshots), nextId - 1)
    BY <1>1, <2>1, <2>4 DEF CallWhole
  <2>6. QED
    BY <2>2, <2>4, <2>5, PlainSends
<1>7. ASSUME NEW k \in 1 .. MaxIds, MoveDown(u, k) PROVE PolicyInvariant'
  <2> DEFINE list == Listed(shown[u].rules)
             n == Cardinality(shown[u].rules)
             ids == Order(shown[u].rules)
             order == [ids EXCEPT ![k] = ids[k + 1], ![k + 1] = ids[k]]
             base == Call(u, "reorder")
             new == [base EXCEPT !.order = order]
  <2>1. n \in Nat /\ n <= nextId - 1 /\ list \in [1 .. n -> shown[u].rules]
    BY <1>1, <1>2, RulesAreFinite, ListedIsASort
  <2>2. k + 1 \in DOMAIN ids /\ SendCall(new)
    BY <1>7 DEF MoveDown
  <2>3. ids = [i \in DOMAIN list |-> list[i].id]
    BY DEF Order
  <2> HIDE DEF list, n
  <2>4. ids \in [1 .. n -> Nat]
    BY <1>3, <2>1, <2>3
  <2> HIDE DEF ids
  <2>5. k + 1 \in 1 .. n /\ k \in 1 .. n
    <3>1. MaxIds \in Nat
      BY PolicyDeskAssumption
    <3>2. QED
      BY <2>1, <2>2, <2>4, <3>1
  <2>6. order \in [1 .. n -> Nat]
    BY <2>4, <2>5
  <2> HIDE DEF order
  <2>7. order \in Seq(Nat)
    BY <2>1, <2>6, SeqDef
  <2>8. DOMAIN order = 1 .. n /\ DOMAIN order = 1 .. Len(order) /\ Len(order) \in Nat
    BY <2>6, <2>7
  <2>9. Len(order) = n
    BY <2>1, <2>8
  <2>10. base \in PolicyCall /\ base.op = "reorder" /\ base.pc = "sent"
         /\ RowUpTo(base.row, Len(snapshots), nextId - 1) /\ WellNumbered(base.saw, nextId - 1)
    BY <1>4 DEF PolicyOps
  <2> HIDE DEF base
  <2>11. new \in PolicyCall /\ new.pc = "sent" /\ new.order = order /\ new.op = "reorder"
         /\ new.row = base.row /\ new.saw = base.saw
    BY <2>7, <2>10, SetOrder
  <2> HIDE DEF new
  <2>12. CallWhole(new, Len(snapshots), nextId - 1)
    BY <1>1, <2>1, <2>9, <2>10, <2>11 DEF CallWhole
  <2>13. QED
    BY <2>2, <2>11, <2>12, PlainSends
<1>8. ASSUME NEW k \in 1 .. MaxTries, RestoreSnapshot(u, k) PROVE PolicyInvariant'
  <2> DEFINE base == Call(u, "restore")
             new == [base EXCEPT !.version = k]
  <2>1. k \in Nat /\ k \in 1 .. Len(snapshots) /\ SendCall(new)
    BY <1>1, <1>8, PolicyDeskAssumption DEF RestoreSnapshot
  <2>2. base \in PolicyCall /\ base.op = "restore" /\ base.pc = "sent" /\ Len(base.order) = 0
        /\ RowUpTo(base.row, Len(snapshots), nextId - 1) /\ WellNumbered(base.saw, nextId - 1)
    BY <1>4 DEF PolicyOps
  <2> HIDE DEF base
  <2>3. new \in PolicyCall /\ new.op = "restore" /\ new.pc = "sent" /\ Len(new.order) = 0 /\ new.version = k
        /\ new.row = base.row /\ new.saw = base.saw
    BY <2>1, <2>2, SetVersion
  <2> HIDE DEF new
  <2>4. CallWhole(new, Len(snapshots), nextId - 1)
    BY <1>1, <2>1, <2>2, <2>3 DEF CallWhole
  <2>5. QED
    BY <2>1, <2>3, <2>4, PlainSends
<1>9. ASSUME SavePolicy(u) PROVE PolicyInvariant'
  <2> DEFINE base == Call(u, "save")
             new == [base EXCEPT !.name = nameForm[u]]
             forms == [formSaving EXCEPT ![u] = TRUE]
  <2>1. nameForm[u] \in Names /\ formSaving \in [Desks -> BOOLEAN]
    BY DEF PolicyInvariant, PolicyForms
  <2>2. base \in PolicyCall /\ base.op = "save" /\ base.by = u /\ base.pc = "sent" /\ Len(base.order) = 0
        /\ RowUpTo(base.row, Len(snapshots), nextId - 1) /\ WellNumbered(base.saw, nextId - 1)
    BY <1>4 DEF PolicyOps
  <2>3. SendFrom(new, forms)
    BY <1>9 DEF SavePolicy
  <2> HIDE DEF base
  <2>4. new \in PolicyCall /\ new.pc = "sent" /\ Len(new.order) = 0 /\ new.op = "save" /\ new.by = u
        /\ new.row = base.row /\ new.saw = base.saw /\ new.name = nameForm[u]
    BY <2>1, <2>2, SetName
  <2>5. forms \in [Desks -> BOOLEAN] /\ \A v \in Desks : forms[v] => formSaving[v] \/ v = u
    BY <2>1
  <2> HIDE DEF new, forms
  <2>6. CallWhole(new, Len(snapshots), nextId - 1)
    BY <1>1, <2>2, <2>4 DEF CallWhole
  <2>7. QED
    BY <2>3, <2>4, <2>5, <2>6, SendSteps
<1>10. ASSUME AddRule(u) PROVE PolicyInvariant'
  <2> DEFINE new == Call(u, "create")
  <2>1. /\ new \in PolicyCall /\ new.pc = "sent" /\ Len(new.order) = 0 /\ new.op = "create"
        /\ RowUpTo(new.row, Len(snapshots), nextId - 1) /\ WellNumbered(new.saw, nextId - 1)
    BY <1>4 DEF PolicyOps
  <2>2. SendCall(new)
    BY <1>10 DEF AddRule
  <2> HIDE DEF new
  <2>3. CallWhole(new, Len(snapshots), nextId - 1)
    BY <1>1, <2>1 DEF CallWhole
  <2>4. QED
    BY <2>1, <2>2, <2>3, PlainSends
<1>11. QED
  BY <1>5, <1>6, <1>7, <1>8, <1>9, <1>10 DEF PickField

\* What is typed, what a form is filled with again, and what a refetch brings.
LEMMA FormSteps ==
  ASSUME PolicyInvariant, NEW u \in Desks,
         (\E n \in Names : TypeName(u, n)) \/ Refilled(u) \/ PolicyLands(u)
  PROVE  PolicyInvariant'
<1>1. UNCHANGED <<policy, snapshots, nextId, gone, calls, tries>>
  BY DEF TypeName, Refilled, PolicyLands
<1>2. PolicyRows' /\ CallsWhole'
  BY <1>1 DEF PolicyInvariant, PolicyRows, RulesOnlyLeaveByDecision, CallsWhole
<1>3. \A v \in Desks : FormKept(v)
  BY DEF PolicyInvariant, PolicyForms
<1>4. shown[u].name \in Names /\ policy.name \in Names
  BY PolicyCounts DEF PolicyInvariant, PolicyPages, RowUpTo, PolicyRow
<1>5. /\ nameForm \in [Desks -> Names] /\ typed \in [Desks -> TypedName]
      /\ formDirty \in [Desks -> BOOLEAN] /\ formSaving \in [Desks -> BOOLEAN] /\ refill \in [Desks -> BOOLEAN]
  BY DEF PolicyInvariant, PolicyForms
<1>6. \A v \in Desks : Pending(v, "restore") \in BOOLEAN /\ Pending(v, "save") \in BOOLEAN
        /\ Pending(v, "restore")' = Pending(v, "restore")
  BY <1>1 DEF Pending
<1>7. ASSUME NEW n \in Names, TypeName(u, n) PROVE PolicyInvariant'
  <2>1. UNCHANGED shown /\ formDirty' = [formDirty EXCEPT ![u] = TRUE] /\ formSaving' = [formSaving EXCEPT ![u] = FALSE]
        /\ refill' = [refill EXCEPT ![u] = FALSE]
        /\ nameForm' = [nameForm EXCEPT ![u] = IF refill[u] THEN shown[u].name ELSE n]
        /\ typed' = IF refill[u] THEN typed
                    ELSE [typed EXCEPT ![u] = [name |-> n, kept |-> ~Pending(u, "restore"),
                                               during |-> Pending(u, "save"), saved |-> FALSE]]
    BY <1>7 DEF TypeName
  <2>2. PolicyPages'
    BY <1>1, <2>1 DEF PolicyInvariant, PolicyPages
  <2>3. SavingAwaited'
    BY <1>1, <1>5, <2>1 DEF PolicyInvariant, SavingAwaited
  <2>4. /\ nameForm' \in [Desks -> Names] /\ typed' \in [Desks -> TypedName]
        /\ formDirty' \in [Desks -> BOOLEAN] /\ formSaving' \in [Desks -> BOOLEAN] /\ refill' \in [Desks -> BOOLEAN]
    BY <1>4, <1>5, <1>6, <2>1 DEF TypedName
  <2>5. ASSUME NEW v \in Desks PROVE FormKept(v)'
    <3>1. CASE v # u
      <4>1. nameForm'[v] = nameForm[v] /\ typed'[v] = typed[v] /\ formDirty'[v] = formDirty[v] /\ refill'[v] = refill[v]
        BY <1>5, <2>1, <3>1
      <4>2. QED
        BY <1>1, <1>3, <1>6, <4>1 DEF FormKept
    <3>2. CASE v = u /\ refill[u]
      <4>1. ~typed[u].kept /\ typed' = typed
        BY <1>3, <2>1, <3>2 DEF FormKept
      <4>2. QED
        BY <3>2, <4>1 DEF FormKept
    <3>3. CASE v = u /\ ~refill[u]
      <4>1. /\ nameForm'[u] = n /\ formDirty'[u] /\ ~refill'[u] /\ typed'[u].name = n
            /\ typed'[u].kept = ~Pending(u, "restore") /\ typed'[u].during = Pending(u, "save")
        BY <1>5, <2>1, <3>3
      <4>2. ~Pending(u, "save") => \A e \in calls' : ~(e.by = u /\ e.op = "save")
        BY <1>1 DEF Pending
      <4>3. QED
        BY <1>6, <3>3, <4>1, <4>2 DEF FormKept
    <3>4. QED
      BY <3>1, <3>2, <3>3
  <2>6. PolicyForms'
    BY <2>4, <2>5 DEF PolicyForms
  <2>7. QED
    BY <1>2, <2>2, <2>3, <2>6 DEF PolicyInvariant
<1>8. ASSUME Refilled(u) \/ PolicyLands(u) PROVE PolicyInvariant'
  <2>1. /\ UNCHANGED <<formDirty, formSaving, typed>> /\ refill' = [refill EXCEPT ![u] = FALSE]
        /\ shown' = shown \/ shown' = [shown EXCEPT ![u] = policy]
        /\ nameForm' \in [Desks -> Names]
        /\ \A v \in Desks : nameForm'[v] = nameForm[v] \/ (v = u /\ refill[v])
    BY <1>4, <1>5, <1>8 DEF Refilled, PolicyLands, FilledOnce
  <2>2. PolicyPages'
    <3>1. RowUpTo(policy, Len(snapshots), nextId - 1)
      BY DEF PolicyInvariant, PolicyRows
    <3>2. shown' = [v \in Desks |-> shown'[v]] /\ \A v \in Desks : shown'[v] \in {shown[v], policy}
      BY <2>1 DEF PolicyInvariant, PolicyPages
    <3>3. QED
      BY <1>1, <3>1, <3>2 DEF PolicyInvariant, PolicyPages
  <2>3. SavingAwaited'
    BY <1>1, <2>1 DEF PolicyInvariant, SavingAwaited
  <2>4. ASSUME NEW v \in Desks PROVE FormKept(v)'
    <3>1. refill'[v] => refill[v]
      BY <1>5, <2>1
    <3>2. typed[v].kept => nameForm'[v] = nameForm[v]
      BY <1>3, <2>1 DEF FormKept
    <3>3. QED
      BY <1>1, <1>3, <1>6, <2>1, <3>1, <3>2 DEF FormKept
  <2>5. PolicyForms'
    BY <1>5, <2>1, <2>4 DEF PolicyForms
  <2>6. QED
    BY <1>2, <2>2, <2>3, <2>5 DEF PolicyInvariant
<1>9. QED
  BY <1>7, <1>8

\* A request is over: it is one less, and "saving" is over with a save.
LEMMA AnswerSteps ==
  ASSUME PolicyInvariant, NEW c \in calls, NEW now \in BOOLEAN, CallAnswered(c, now) \/ CallFails(c)
  PROVE  PolicyInvariant'
<1>1. /\ calls' = calls \ {c} /\ formSaving' = SaveOver(c)
      /\ UNCHANGED <<policy, snapshots, nextId, gone, shown, typed, tries>>
  BY DEF CallAnswered, CallFails
<1>2. c.by \in Desks /\ shown[c.by].name \in Names
  BY DEF PolicyInvariant, CallsWhole, CallWhole, PolicyCall, PolicyPages, RowUpTo, PolicyRow
<1>3. PolicyRows' /\ PolicyPages'
  BY <1>1 DEF PolicyInvariant, PolicyRows, RulesOnlyLeaveByDecision, PolicyPages
<1>4. /\ nameForm \in [Desks -> Names] /\ typed \in [Desks -> TypedName]
      /\ formDirty \in [Desks -> BOOLEAN] /\ formSaving \in [Desks -> BOOLEAN] /\ refill \in [Desks -> BOOLEAN]
      /\ \A u \in Desks : FormKept(u)
  BY DEF PolicyInvariant, PolicyForms
<1>5. SaveOver(c) \in [Desks -> BOOLEAN] /\ \A u \in Desks :
        SaveOver(c)[u] => formSaving[u] /\ (c.op = "save" => c.by # u)
  BY <1>2, <1>4 DEF SaveOver
<1>6. SavingAwaited'
  BY <1>1, <1>5 DEF PolicyInvariant, SavingAwaited
<1>7. \A u \in Desks : Pending(u, "restore")' => Pending(u, "restore")
  BY <1>1 DEF Pending
<1>8. PolicyForms'
  <2>1. CASE CallFails(c)
    <3>1. UNCHANGED <<nameForm, formDirty, refill>>
      BY <2>1 DEF CallFails
    <3>2. \A u \in Desks : FormKept(u)'
      BY <1>1, <1>4, <1>7, <3>1 DEF FormKept
    <3>3. QED
      BY <1>1, <1>4, <1>5, <3>1, <3>2 DEF PolicyForms
  <2>2. CASE CallAnswered(c, now)
    <3>1. /\ c.pc = "done" /\ (now => c.op = "restore")
          /\ formDirty' = IF c.op = "save" THEN [formDirty EXCEPT ![c.by] = FALSE] ELSE formDirty
          /\ nameForm' = IF now THEN [nameForm EXCEPT ![c.by] = shown[c.by].name] ELSE nameForm
          /\ refill' = IF c.op = "restore" THEN [refill EXCEPT ![c.by] = ~now] ELSE refill
      BY <2>2 DEF CallAnswered
    <3>2. nameForm' \in [Desks -> Names] /\ formDirty' \in [Desks -> BOOLEAN] /\ refill' \in [Desks -> BOOLEAN]
      BY <1>2, <1>4, <3>1
    <3>3. ASSUME NEW u \in Desks PROVE FormKept(u)'
      <4>1. FormKept(u)
        BY <1>4
      <4>2. c.op = "restore" /\ c.by = u => ~typed[u].kept
        BY <4>1 DEF FormKept, Pending
      <4>3. c.op = "save" /\ c.by = u /\ typed[u].kept /\ ~typed[u].during => typed[u].saved
        BY <3>1, <4>1 DEF FormKept
      <4>4. refill'[u] => refill[u] \/ (c.op = "restore" /\ c.by = u)
        BY <1>2, <1>4, <3>1
      <4>5. typed[u].kept => nameForm'[u] = nameForm[u]
        BY <1>2, <1>4, <3>1, <4>2
      <4>6. typed[u].kept /\ ~typed[u].during => formDirty'[u] \/ typed[u].saved
        BY <1>2, <1>4, <3>1, <4>1, <4>3 DEF FormKept
      <4>7. QED
        BY <1>1, <1>7, <4>1, <4>2, <4>4, <4>5, <4>6 DEF FormKept
    <3>4. QED
      BY <1>1, <1>4, <1>5, <3>2, <3>3 DEF PolicyForms
  <2>3. QED
    BY <2>1, <2>2
<1>9. CallsWhole'
  <2>1. IsFiniteSet(calls) /\ Cardinality(calls) <= MaxCalls /\ tries \in 0 .. MaxTries
    BY DEF PolicyInvariant, CallsWhole
  <2>2. IsFiniteSet(calls') /\ Cardinality(calls') <= Cardinality(calls)
    BY <1>1, <2>1, FS_Subset
  <2>3. Cardinality(calls) \in Nat /\ Cardinality(calls') \in Nat /\ MaxCalls \in Nat
    BY <2>1, <2>2, FS_CardinalityType, PolicyDeskAssumption
  <2>4. Cardinality(calls') <= MaxCalls
    BY <2>1, <2>2, <2>3
  <2>5. QED
    BY <1>1, <2>1, <2>2, <2>4 DEF PolicyInvariant, CallsWhole
<1>10. QED
  BY <1>3, <1>6, <1>8, <1>9 DEF PolicyInvariant

\* The rules a seed gave it are numbered from one on.
LEMMA PolicyStarts == ASSUME PolicyInit PROVE PolicyInvariant
<1> DEFINE seeds == {[id |-> i, pos |-> i - 1, text |-> InitialText] : i \in 1 .. Seeded}
<1>1. InitialName \in Names /\ InitialText \in Criteria
  BY PolicyDeskAssumption DEF InitialName, InitialText
<1>2. Seeded \in Nat /\ MaxIds \in Nat /\ Seeded <= MaxIds /\ MaxCalls \in Nat /\ MaxTries \in Nat
  BY PolicyDeskAssumption
<1>3. WellNumbered(seeds, Seeded) /\ Ids(seeds) = 1 .. Seeded
  <2>1. \A i \in 1 .. Seeded : i - 1 \in 0 .. Seeded - 1
    BY <1>2
  <2>2. WellNumbered(seeds, Seeded)
    BY <1>1, <2>1 DEF WellNumbered, RulesUpTo
  <2>3. Ids(seeds) = 1 .. Seeded
    <3>1. \A i \in 1 .. Seeded : [id |-> i, pos |-> i - 1, text |-> InitialText].id = i
      OBVIOUS
    <3>2. Ids(seeds) = {[id |-> i, pos |-> i - 1, text |-> InitialText].id : i \in 1 .. Seeded}
      BY DEF Ids
    <3>3. QED
      BY <3>1, <3>2
  <2>4. QED
    BY <2>2, <2>3
<1>4. /\ policy = [name |-> InitialName, num |-> 0, rules |-> seeds]
      /\ snapshots = <<>> /\ nextId = Seeded + 1 /\ gone = {} /\ shown = [u \in Desks |-> policy]
      /\ nameForm = [u \in Desks |-> InitialName] /\ typed = [u \in Desks |-> Untyped]
      /\ formDirty = [u \in Desks |-> FALSE] /\ formSaving = formDirty /\ refill = formDirty
      /\ calls = {} /\ tries = 0
  BY DEF PolicyInit
<1> HIDE DEF seeds
<1>5. nextId - 1 = Seeded /\ nextId \in 1 .. MaxIds + 1 /\ Len(snapshots) = 0 /\ snapshots \in Seq(Version)
  BY <1>2, <1>4
<1>6. policy.rules = seeds /\ RowUpTo(policy, Len(snapshots), nextId - 1)
  <2>1. policy.name = InitialName /\ policy.num = 0 /\ policy.rules = seeds
    BY <1>4
  <2>2. seeds \in PolicyRules
    BY <1>2, <1>3 DEF WellNumbered, RulesUpTo, PolicyRules
  <2>3. policy \in PolicyRow
    BY <1>1, <1>4, <2>2 DEF PolicyRow
  <2>4. QED
    BY <1>3, <1>5, <2>1, <2>3 DEF RowUpTo
<1>7. PolicyRows
  <2>1. \A k \in 1 .. Len(snapshots) : FALSE
    BY <1>5
  <2>2. Ids(policy.rules) = (1 .. nextId - 1) \ gone
    BY <1>3, <1>4, <1>5, <1>6
  <2>3. QED
    BY <1>4, <1>5, <1>6, <2>1, <2>2 DEF PolicyRows, RulesOnlyLeaveByDecision
<1>8. PolicyPages
  BY <1>4, <1>6 DEF PolicyPages
<1>9. CallsWhole /\ SavingAwaited
  <2>1. IsFiniteSet({}) /\ Cardinality({}) = 0
    BY FS_EmptySet
  <2>2. QED
    BY <1>2, <1>4, <2>1 DEF CallsWhole, SavingAwaited
<1>10. PolicyForms
  <2>1. Untyped \in TypedName /\ ~Untyped.kept
    BY <1>1 DEF Untyped, TypedName
  <2>2. \A u \in Desks : ~typed[u].kept
    BY <1>4, <2>1
  <2>3. \A u \in Desks : FormKept(u)
    BY <2>2 DEF FormKept
  <2>4. QED
    BY <1>1, <1>4, <2>1, <2>3 DEF PolicyForms
<1>11. QED
  BY <1>7, <1>8, <1>9, <1>10 DEF PolicyInvariant

\* The invariant of the policies holds.
LEMMA PolicyInvariantHolds == PolicySpec => []PolicyInvariant
<1>1. PolicyInit => PolicyInvariant
  BY PolicyStarts
<1>2. PolicyInvariant /\ [PolicyNext]_policyVars => PolicyInvariant'
  <2>1. ASSUME PolicyInvariant, UNCHANGED policyVars PROVE PolicyInvariant'
    BY <2>1 DEF policyVars, PolicyInvariant, PolicyRows, RulesOnlyLeaveByDecision, PolicyPages,
         CallsWhole, PolicyForms, FormKept, Pending, SavingAwaited
  <2>2. ASSUME PolicyInvariant, PolicyNext PROVE PolicyInvariant'
    <3>1. ASSUME NEW u \in Desks,
                 \/ \E n \in Names : TypeName(u, n)
                 \/ \E r \in shown[u].rules :
                       DeleteRule(u, r) \/ \E t \in Criteria : LeaveField(u, r, t) \/ PickField(u, r, t)
                 \/ \E k \in 1 .. MaxIds : MoveDown(u, k)
                 \/ \E k \in 1 .. MaxTries : RestoreSnapshot(u, k)
                 \/ SavePolicy(u) \/ AddRule(u) \/ PolicyLands(u) \/ Refilled(u)
          PROVE  PolicyInvariant'
      BY <2>2, <3>1, PageSends, FormSteps
    <3>2. ASSUME NEW c \in calls,
                 \/ RouteLoads(c) \/ RouteNumbers(c) \/ PolicyRouteCommits(c) \/ CallFails(c)
                 \/ \E now \in BOOLEAN : CallAnswered(c, now)
          PROVE  PolicyInvariant'
      BY <2>2, <3>2, ReadSteps, CommitSteps, AnswerSteps
    <3>3. QED
      BY <2>2, <3>1, <3>2 DEF PolicyNext
  <2>3. QED
    BY <2>1, <2>2
<1>3. QED
  BY <1>1, <1>2, PTL DEF PolicySpec

\* A rule leaves the policy only because it was deleted or a version restored, however old
\* the rules are that the pages build their requests on and the routes have loaded
\* (routers/policies.py).
THEOREM RulesAreOnlyDeleted == PolicySpec => []RulesOnlyLeaveByDecision
<1>1. PolicyInvariant => RulesOnlyLeaveByDecision
  BY DEF PolicyInvariant, PolicyRows
<1>2. QED
  BY <1>1, PolicyInvariantHolds, PTL

\* What was typed in the form stays in it until the user asks for a restore, whatever is
\* fetched and whichever restore is answered late; and the mark of unsaved changes goes
\* only when it is committed, if no save was under way when it was typed
\* (pages/PolicyEditor.tsx).
THEOREM TypingIsNeverLost == PolicySpec => []TypingIsKept
<1>1. PolicyInvariant => TypingIsKept
  BY DEF PolicyInvariant, PolicyForms, FormKept, TypingIsKept
<1>2. QED
  BY <1>1, PolicyInvariantHolds, PTL

\* Every variable of the policy editor has its type; a version number is no higher than
\* the versions are many, though two routes may take one number.
THEOREM PolicyTypes == PolicySpec => []PolicyTypeOK
<1>1. ASSUME PolicyInvariant PROVE PolicyTypeOK
  <2>1. nextId \in 1 .. MaxIds + 1 /\ nextId - 1 \in Nat /\ nextId - 1 <= MaxIds /\ MaxIds \in Nat
    BY <1>1, PolicyCounts DEF PolicyInvariant, PolicyRows
  <2>2. RulesUpTo(nextId - 1) \subseteq Rule
    <3>1. 1 .. nextId - 1 \subseteq 1 .. MaxIds /\ 0 .. (nextId - 1) - 1 \subseteq 0 .. MaxIds
      BY <2>1
    <3>2. QED
      BY <3>1 DEF RulesUpTo, Rule
  <2>3. \A p : RowUpTo(p, Len(snapshots), nextId - 1) => IsPolicy(p)
    BY <2>2 DEF RowUpTo, WellNumbered, IsPolicy, PolicyRow
  <2>4. IsPolicy(policy) /\ \A r, s \in policy.rules : r.id = s.id => r = s
    BY <1>1, <2>3 DEF PolicyInvariant, PolicyRows, RowUpTo, WellNumbered
  <2>5. \A u \in Desks : IsPolicy(shown[u])
    BY <1>1, <2>3 DEF PolicyInvariant, PolicyPages
  <2>6. \A k \in DOMAIN snapshots :
          snapshots[k].num \in 1 .. k /\ snapshots[k].saw \subseteq Rule /\ snapshots[k].was \subseteq Rule
    <3>1. DOMAIN snapshots = 1 .. Len(snapshots)
      BY <1>1 DEF PolicyInvariant, PolicyRows
    <3>2. QED
      BY <1>1, <2>2, <3>1 DEF PolicyInvariant, PolicyRows, WellNumbered
  <2>7. gone \subseteq 1 .. MaxIds
    <3>1. gone \subseteq 1 .. nextId - 1
      BY <1>1 DEF PolicyInvariant, PolicyRows
    <3>2. QED
      BY <2>1, <3>1
  <2>8. \A c \in calls : c.by \in Desks /\ c.pc \in {"sent", "loaded", "numbered", "done"}
    BY <1>1 DEF PolicyInvariant, CallsWhole, CallWhole, PolicyCall
  <2>9. QED
    BY <1>1, <2>1, <2>4, <2>5, <2>6, <2>7, <2>8
       DEF PolicyInvariant, PolicyForms, TypedName, SavingAwaited, CallsWhole, PolicyTypeOK
<1>2. QED
  BY <1>1, PolicyInvariantHolds, PTL

-----------------------------------------------------------------------------
(* Workflows.                                                              *)

AnyRow == [def : SUBSET Parts, num : Nat]
AnyPut == [op : {"none", "save", "restore"}, pc : {"sent", "loaded", "numbered", "done"},
           def : SUBSET Parts, row : Row, num : Nat]
IsVersion(row) ==
  row \in AnyRow /\ \E i \in 1 .. Len(versions) : row.num = versions[i].num /\ (~vraced => row = versions[i])
NumberedEditors == {u \in Editors : put[u].pc = "numbered"}

\* The rows: each version has a number no higher than its place, and the one its place
\* has unless two routes took one number; the last is the workflow's, and its definition
\* too unless a route left it out.
VersionsInOrder ==
  /\ versions \in Seq(AnyRow) /\ Len(versions) >= 1 /\ IsVersion(wf)
  /\ wf.num = versions[Len(versions)].num
  /\ \A i \in 1 .. Len(versions) : versions[i].num \in 1 .. i
  /\ vraced \in BOOLEAN
  /\ ~vraced => \A i \in 1 .. Len(versions) : versions[i].num = i

\* The requests: a number that was taken is at most one ahead, and there is room for it.
PutsInOrder ==
  /\ put \in [Editors -> AnyPut]
  /\ \A u \in Editors :
        /\ put[u].op = "none" => put[u] = NoPut
        /\ put[u].pc = "numbered" => put[u].op # "none" /\ put[u].num \in 1 .. Len(versions) + 1
  /\ IsFiniteSet(NumberedEditors) /\ Len(versions) + Cardinality(NumberedEditors) <= MaxVersions

\* The pages: what they know or have fetched is the row as some version left it.
PagesKnowVersions ==
  /\ canvas \in [Editors -> SUBSET Parts] /\ edits \in 0 .. MaxEdits
  /\ dirty \in [Editors -> BOOLEAN] /\ stale \in [Editors -> BOOLEAN] /\ overlapped \in [Editors -> BOOLEAN]
  /\ known \in [Editors -> AnyRow] /\ \A u \in Editors : IsVersion(known[u])
  /\ fetching = [u \in Editors |-> fetching[u]]
  /\ \A u \in Editors : fetching[u] = <<>> \/ (fetching[u] = <<fetching[u][1]>> /\ IsVersion(fetching[u][1]))

\* A canvas that is not what the page knows has the mark, or an answer is bound to
\* replace it: one was asked for, and brings another row than the page has; what was
\* saved or restored is such a row.
Differs(u) == canvas[u] # known[u].def
Replaced(u) == stale[u] /\ known[u] # wf /\ (fetching[u] = <<>> \/ fetching[u][1] # known[u])
CanvasFollows ==
  \A u \in Editors : ~vraced /\ Differs(u) /\ ~overlapped[u] =>
    /\ dirty[u] \/ Replaced(u)
    /\ put[u].pc = "done" => known[u] # wf

WorkflowInvariant == VersionsInOrder /\ PutsInOrder /\ PagesKnowVersions /\ CanvasFollows

\* No request is a request with nothing in it.
LEMMA NoPutIsAPut == NoPut \in AnyPut /\ NoPut.op = "none" /\ NoPut.pc = "sent"
BY WorkflowDeskAssumption DEF NoPut, AnyPut, Unread, Row

\* The workflow list as it is opened.
LEMMA WorkflowStarts == ASSUME WorkflowInit PROVE WorkflowInvariant
<1>1. wf \in AnyRow /\ wf.num = 1 /\ wf.def = {} /\ versions = <<wf>>
  BY DEF WorkflowInit, Unread, AnyRow
<1>2. versions \in Seq(AnyRow) /\ Len(versions) = 1 /\ versions[1] = wf
  BY <1>1
<1>3. VersionsInOrder
  <2>1. \A i \in 1 .. Len(versions) : i = 1
    BY <1>2
  <2>2. \A i \in 1 .. Len(versions) : versions[i].num = i /\ versions[i].num \in 1 .. i
    <3>1. 1 \in 1 .. 1
      OBVIOUS
    <3>2. QED
      BY <1>1, <1>2, <2>1, <3>1
  <2>3. vraced \in BOOLEAN
    BY DEF WorkflowInit
  <2>4. Len(versions) >= 1 /\ wf.num = versions[Len(versions)].num /\ IsVersion(wf)
    BY <1>1, <1>2 DEF IsVersion
  <2>5. QED
    BY <1>2, <2>2, <2>3, <2>4 DEF VersionsInOrder
<1>4. PutsInOrder
  <2>1. NoPut \in AnyPut /\ NoPut.pc = "sent" /\ NoPut.op = "none"
    BY NoPutIsAPut
  <2>2. put = [u \in Editors |-> NoPut]
    BY DEF WorkflowInit
  <2>3. NumberedEditors = {}
    BY <2>1, <2>2 DEF NumberedEditors
  <2>4. IsFiniteSet({}) /\ Cardinality({}) = 0
    BY FS_EmptySet
  <2>5. Len(versions) + Cardinality(NumberedEditors) <= MaxVersions
    BY <1>2, <2>3, <2>4, WorkflowDeskAssumption
  <2>6. QED
    BY <2>1, <2>2, <2>3, <2>4, <2>5 DEF PutsInOrder
<1>5. IsVersion(wf)
  BY <1>3 DEF VersionsInOrder
<1>6. 0 \in 0 .. MaxEdits
  BY WorkflowDeskAssumption
<1>7. PagesKnowVersions
  BY <1>1, <1>5, <1>6 DEF WorkflowInit, PagesKnowVersions
<1>8. CanvasFollows
  BY DEF WorkflowInit, CanvasFollows, Differs
<1>9. QED
  BY <1>3, <1>4, <1>7, <1>8 DEF WorkflowInvariant

\* The versions stay, and so does what was a version.
LEMMA SameVersions ==
  ASSUME VersionsInOrder, UNCHANGED <<wf, versions, vraced>>
  PROVE  VersionsInOrder' /\ \A row : IsVersion(row) => IsVersion(row)'
BY DEF VersionsInOrder, IsVersion

\* The row and the versions are in the bounds, and so is what the pages know.
LEMMA VersionsAreRows ==
  ASSUME VersionsInOrder, PutsInOrder
  PROVE  /\ Len(versions) \in Nat /\ Len(versions) \in 1 .. Len(versions) /\ Len(versions) <= MaxVersions
         /\ \A i \in 1 .. Len(versions) : versions[i] \in Row
         /\ \A row : IsVersion(row) => row \in Row
<1> DEFINE n == Len(versions)
<1>1. n \in Nat /\ n <= MaxVersions /\ MaxVersions \in Nat /\ n \in 1 .. n
  <2>1. Cardinality(NumberedEditors) \in Nat /\ n + Cardinality(NumberedEditors) <= MaxVersions
    BY FS_CardinalityType DEF PutsInOrder
  <2>2. n \in Nat /\ n >= 1 /\ MaxVersions \in Nat
    BY WorkflowDeskAssumption DEF VersionsInOrder
  <2> HIDE DEF n
  <2>3. QED
    BY <2>1, <2>2
<1>2. ASSUME NEW i \in 1 .. n PROVE versions[i].num \in 1 .. MaxVersions /\ versions[i] \in Row
  <2>1. versions[i] \in AnyRow /\ versions[i].num \in 1 .. i
    BY DEF VersionsInOrder
  <2> HIDE DEF n
  <2>2. versions[i].num \in 1 .. MaxVersions
    BY <1>1, <2>1
  <2>3. QED
    BY <2>1, <2>2 DEF AnyRow, Row
<1>3. \A row : IsVersion(row) => row \in Row
  BY <1>2 DEF IsVersion, AnyRow, Row
<1>4. QED
  BY <1>1, <1>2, <1>3

\* What the requests need to stay in order when no version is made.
LEMMA SamePuts ==
  ASSUME PutsInOrder, UNCHANGED <<versions, put>>
  PROVE  PutsInOrder'
BY DEF PutsInOrder, NumberedEditors

\* The canvas and its mark.
LEMMA CanvasSteps ==
  ASSUME WorkflowInvariant, NEW u \in Editors,
         (\E x \in Parts : EditCanvas(u, x)) \/ CanvasReports(u)
  PROVE  WorkflowInvariant'
<1> USE DEF WorkflowInvariant
<1>1. UNCHANGED <<wf, versions, known, fetching, stale, put, vraced>>
  BY DEF EditCanvas, CanvasReports
<1>6. edits' \in 0 .. MaxEdits
  BY WorkflowDeskAssumption DEF EditCanvas, CanvasReports, PagesKnowVersions
<1>2. VersionsInOrder' /\ PutsInOrder' /\ \A row : IsVersion(row) => IsVersion(row)'
  BY <1>1, SameVersions, SamePuts
<1>3. CASE CanvasReports(u)
  <2>1. PagesKnowVersions'
    BY <1>2, <1>3, <1>6 DEF CanvasReports, PagesKnowVersions
  <2>2. CanvasFollows'
    BY <1>3 DEF CanvasReports, PagesKnowVersions, CanvasFollows, Differs, Replaced
  <2>3. QED
    BY <1>2, <2>1, <2>2
<1>4. ASSUME NEW x \in Parts, EditCanvas(u, x) PROVE WorkflowInvariant'
  <2>2. /\ canvas' \in [Editors -> SUBSET Parts] /\ dirty' \in [Editors -> BOOLEAN]
        /\ overlapped' \in [Editors -> BOOLEAN]
        /\ dirty'[u] /\ (put[u] # NoPut => overlapped'[u])
        /\ \A v \in Editors : v # u => canvas'[v] = canvas[v] /\ dirty'[v] = dirty[v] /\ overlapped'[v] = overlapped[v]
    BY <1>4 DEF EditCanvas, PagesKnowVersions
  <2>3. PagesKnowVersions'
    BY <1>1, <1>2, <1>6, <2>2 DEF PagesKnowVersions
  <2>4. \A v \in Editors : put[v].pc = "done" => put[v] # NoPut
    BY DEF NoPut
  <2>5. CanvasFollows'
    BY <1>1, <2>2, <2>4 DEF CanvasFollows, Differs, Replaced
  <2>6. QED
    BY <1>2, <2>3, <2>5
<1>5. QED
  BY <1>3, <1>4

\* A save or a restore is sent; neither the rows nor the pages change.
LEMMA SendPut ==
  ASSUME WorkflowInvariant, NEW u \in Editors, SaveCanvas(u) \/ \E i \in 1 .. MaxVersions : RestoreVersion(u, i)
  PROVE  WorkflowInvariant'
<1> USE DEF WorkflowInvariant
<1>1. UNCHANGED <<wf, versions, known, canvas, dirty, fetching, stale, edits, overlapped, vraced>>
  BY DEF SaveCanvas, RestoreVersion
<1>2. VersionsInOrder' /\ \A row : IsVersion(row) => IsVersion(row)'
  BY <1>1, SameVersions
<1>3. PICK op \in {"save", "restore"}, def \in SUBSET Parts :
        put' = [put EXCEPT ![u] = [NoPut EXCEPT !.op = op, !.def = def]]
  <2>1. CASE SaveCanvas(u)
    <3>1. canvas[u] \in SUBSET Parts
      BY DEF PagesKnowVersions
    <3>2. QED
      BY <2>1, <3>1 DEF SaveCanvas
  <2>2. ASSUME NEW i \in 1 .. MaxVersions, RestoreVersion(u, i)
        PROVE  \E op \in {"save", "restore"}, def \in SUBSET Parts :
                 put' = [put EXCEPT ![u] = [NoPut EXCEPT !.op = op, !.def = def]]
    <3>1. versions[i] \in AnyRow
      <4>1. versions \in Seq(AnyRow) /\ i \in DOMAIN versions
        BY <2>2 DEF RestoreVersion, VersionsInOrder
      <4>2. QED
        BY <4>1
    <3>2. versions[i].def \in SUBSET Parts
      BY <3>1 DEF AnyRow
    <3>3. QED
      BY <2>2, <3>2 DEF RestoreVersion
  <2>3. QED
    BY <2>1, <2>2
<1>4. put[u] = NoPut
  BY DEF SaveCanvas, RestoreVersion
<1> DEFINE new == [NoPut EXCEPT !.op = op, !.def = def]
<1>5. new \in AnyPut /\ new.op # "none" /\ new.pc = "sent"
  BY NoPutIsAPut DEF AnyPut
<1> HIDE DEF new
<1>6. put' \in [Editors -> AnyPut] /\ put'[u] = new /\ \A v \in Editors : v # u => put'[v] = put[v]
  BY <1>3, <1>5 DEF PutsInOrder, new
<1>7. NumberedEditors' = NumberedEditors
  BY <1>4, <1>5, <1>6, NoPutIsAPut DEF NumberedEditors
<1>8. PutsInOrder'
  BY <1>1, <1>5, <1>6, <1>7 DEF PutsInOrder
<1>9. PagesKnowVersions'
  BY <1>1, <1>2 DEF PagesKnowVersions
<1>10. CanvasFollows'
  BY <1>1, <1>5, <1>6 DEF CanvasFollows, Differs, Replaced
<1>11. QED
  BY <1>2, <1>8, <1>9, <1>10

\* The next number is at most one ahead, and just that unless two took one number.
LEMMA NextNumberIsNext ==
  ASSUME VersionsInOrder
  PROVE  NextNumber \in 1 .. Len(versions) + 1
<1> DEFINE S == {versions[i].num : i \in DOMAIN versions}
<1>1. Len(versions) \in Nat /\ DOMAIN versions = 1 .. Len(versions)
  BY DEF VersionsInOrder
<1>2. \A i \in 1 .. Len(versions) : versions[i].num \in 0 .. Len(versions)
  <2> SUFFICES ASSUME NEW i \in 1 .. Len(versions) PROVE versions[i].num \in 0 .. Len(versions)
    OBVIOUS
  <2>1. versions[i].num \in 1 .. i
    BY DEF VersionsInOrder
  <2>2. QED
    BY <1>1, <2>1
<1>3. S \in SUBSET (0 .. Len(versions)) /\ S # {}
  BY <1>1, <1>2 DEF VersionsInOrder
<1> HIDE DEF S
<1>4. Max(S) \in 0 .. Len(versions)
  BY <1>1, <1>3, MaxIsGreatest
<1>5. NextNumber = 1 + Max(S)
  BY DEF NextNumber, S
<1>6. QED
  BY <1>1, <1>4, <1>5

\* A route loads the row.
LEMMA LoadStep ==
  ASSUME WorkflowInvariant, NEW u \in Editors, RouteLoadsRow(u)
  PROVE  WorkflowInvariant'
<1> USE DEF WorkflowInvariant
<1>1. /\ UNCHANGED <<wf, versions, known, canvas, dirty, fetching, stale, edits, overlapped, vraced>>
      /\ put[u].op # "none" /\ put[u].pc = "sent"
      /\ put' = [put EXCEPT ![u].pc = "loaded", ![u].row = wf]
  BY DEF RouteLoadsRow
<1>2. VersionsInOrder' /\ \A row : IsVersion(row) => IsVersion(row)'
  BY <1>1, SameVersions
<1>3. wf \in Row
  BY VersionsAreRows DEF VersionsInOrder
<1>4. /\ put' \in [Editors -> AnyPut]
      /\ put'[u].pc = "loaded" /\ put'[u].op = put[u].op
      /\ \A v \in Editors : v # u => put'[v] = put[v]
  <2> HIDE DEF WorkflowInvariant
  <2>1. put \in [Editors -> AnyPut]
    BY DEF WorkflowInvariant, PutsInOrder
  <2>2. QED
    BY <1>1, <1>3, <2>1 DEF AnyPut
<1>5. NumberedEditors' = NumberedEditors
  BY <1>1, <1>4 DEF NumberedEditors
<1>6. PutsInOrder'
  <2>1. \A v \in Editors :
        /\ put'[v].op = "none" => put'[v] = NoPut
        /\ put'[v].pc = "numbered" => put'[v].op # "none" /\ put'[v].num \in 1 .. Len(versions) + 1
    BY <1>1, <1>4 DEF PutsInOrder
  <2>2. QED
    BY <1>1, <1>4, <1>5, <2>1 DEF PutsInOrder
<1>7. PagesKnowVersions'
  BY <1>1, <1>2 DEF PagesKnowVersions
<1>8. CanvasFollows'
  BY <1>1, <1>4 DEF CanvasFollows, Differs, Replaced
<1>9. QED
  BY <1>2, <1>6, <1>7, <1>8

\* A route takes its number.
LEMMA NumberStep ==
  ASSUME WorkflowInvariant, NEW u \in Editors, RouteTakesNumber(u)
  PROVE  WorkflowInvariant'
<1> USE DEF WorkflowInvariant
<1>1. /\ UNCHANGED <<wf, versions, known, canvas, dirty, fetching, stale, edits, overlapped, vraced>>
      /\ put[u].op # "none" /\ put[u].pc = "loaded"
      /\ Len(versions) + Cardinality(NumberedEditors) < MaxVersions
      /\ put' = [put EXCEPT ![u].pc = "numbered", ![u].num = NextNumber]
  BY NoPutIsAPut DEF RouteTakesNumber, NumberedEditors, PutsInOrder
<1>2. VersionsInOrder' /\ \A row : IsVersion(row) => IsVersion(row)'
  BY <1>1, SameVersions
<1>3. NextNumber \in 1 .. Len(versions) + 1 /\ Len(versions) \in Nat
  BY NextNumberIsNext DEF VersionsInOrder
<1>4. NextNumber \in Nat
  BY <1>3
<1>5. /\ put' \in [Editors -> AnyPut]
      /\ put'[u].pc = "numbered" /\ put'[u].num = NextNumber /\ put'[u].op = put[u].op
      /\ \A v \in Editors : v # u => put'[v] = put[v]
  <2> HIDE DEF WorkflowInvariant
  <2>1. put \in [Editors -> AnyPut]
    BY DEF WorkflowInvariant, PutsInOrder
  <2>2. QED
    BY <1>1, <1>4, <2>1 DEF AnyPut
<1>6. NumberedEditors' = NumberedEditors \cup {u} /\ u \notin NumberedEditors
  BY <1>1, <1>5 DEF NumberedEditors
<1>7. IsFiniteSet(NumberedEditors) /\ Cardinality(NumberedEditors) \in Nat
  BY FS_CardinalityType DEF PutsInOrder
<1>8. IsFiniteSet(NumberedEditors') /\ Cardinality(NumberedEditors') = Cardinality(NumberedEditors) + 1
  BY <1>6, <1>7, FS_AddElement
<1>9. Len(versions) + (Cardinality(NumberedEditors) + 1) <= MaxVersions
  BY <1>1, <1>3, <1>7, WorkflowDeskAssumption
<1>10. Len(versions') + Cardinality(NumberedEditors') <= MaxVersions
  BY <1>1, <1>8, <1>9
<1>11. PutsInOrder'
  <2>1. \A v \in Editors :
        /\ put'[v].op = "none" => put'[v] = NoPut
        /\ put'[v].pc = "numbered" => put'[v].op # "none" /\ put'[v].num \in 1 .. Len(versions) + 1
    BY <1>1, <1>3, <1>5 DEF PutsInOrder
  <2>2. QED
    BY <1>1, <1>5, <1>8, <1>10, <2>1 DEF PutsInOrder
<1>12. PagesKnowVersions'
  BY <1>1, <1>2 DEF PagesKnowVersions
<1>13. CanvasFollows'
  BY <1>1, <1>5 DEF CanvasFollows, Differs, Replaced
<1>14. QED
  BY <1>2, <1>11, <1>12, <1>13

\* A route commits: its number is the place of its version, or one that is taken, and the
\* row is its version, or it left the definition out; no page knows the version yet.
LEMMA PutCommitSteps ==
  ASSUME WorkflowInvariant, NEW u \in Editors, PutCommits(u)
  PROVE  WorkflowInvariant'
<1> USE DEF WorkflowInvariant
<1> DEFINE row == [def |-> put[u].def, num |-> put[u].num]
           taken == NumberTaken(put[u])
           behind == LeftOut(put[u]) /\ put[u].def # wf.def
           n == Len(versions)
<1>1. /\ UNCHANGED <<known, canvas, dirty, fetching, stale, edits, overlapped>>
      /\ put[u].op # "none" /\ put[u].pc = "numbered"
      /\ wf' = [def |-> IF LeftOut(put[u]) THEN wf.def ELSE put[u].def, num |-> put[u].num]
      /\ versions' = Append(versions, row) /\ vraced' = (vraced \/ taken \/ behind)
      /\ put' = [put EXCEPT ![u].pc = "done"]
  <2>1. PutCommits(u)
    OBVIOUS
  <2>2. MakesVersion(put[u])
    BY DEF MakesVersion
  <2>3. /\ UNCHANGED <<known, canvas, dirty, fetching, stale, edits, overlapped>>
        /\ put[u].pc = "numbered"
        /\ wf' = [def |-> IF LeftOut(put[u]) THEN wf.def ELSE put[u].def, num |-> put[u].num]
        /\ put' = [put EXCEPT ![u].pc = "done"]
    BY <2>1 DEF PutCommits
  <2>4. versions' = Append(versions, row)
    BY <2>1, <2>2 DEF PutCommits
  <2>5. vraced' = (vraced \/ taken \/ behind)
    BY <2>1 DEF PutCommits
  <2>6. put[u].op # "none"
    BY <2>3 DEF PutsInOrder
  <2>7. QED
    BY <2>3, <2>4, <2>5, <2>6
<1>2. put \in [Editors -> AnyPut] /\ put[u].num \in 1 .. n + 1 /\ n \in Nat /\ DOMAIN versions = 1 .. n /\ vraced \in BOOLEAN
  BY <1>1 DEF PutsInOrder, VersionsInOrder
<1>3. row \in AnyRow /\ row.num = put[u].num
  BY <1>2 DEF AnyPut, AnyRow
<1>15. wf' \in AnyRow /\ wf'.num = row.num /\ (~behind => wf' = row)
  <2>1. wf \in AnyRow /\ put[u] \in AnyPut
    BY <1>2 DEF VersionsInOrder, IsVersion
  <2>2. ~behind /\ LeftOut(put[u]) => wf.def = put[u].def
    BY DEF LeftOut
  <2>3. QED
    BY <1>1, <2>1, <2>2 DEF AnyPut, AnyRow
<1>16. taken \in BOOLEAN /\ behind \in BOOLEAN
  BY DEF NumberTaken, LeftOut
<1> HIDE DEF row, taken, behind
<1>4. /\ versions' \in Seq(AnyRow) /\ Len(versions') = n + 1 /\ versions'[n + 1] = row
      /\ \A i \in 1 .. n : versions'[i] = versions[i]
  BY <1>1, <1>3 DEF VersionsInOrder
<1>5. (~vraced /\ put[u].num \in 1 .. n) => taken
  <2>1. ~vraced => \A i \in 1 .. n : versions[i].num = i
    BY DEF VersionsInOrder
  <2>2. QED
    BY <1>2, <2>1 DEF taken, NumberTaken
<1>6. ~vraced' => ~vraced /\ row.num = n + 1 /\ wf' = row
  <2>1. put[u].num \in 1 .. n \/ put[u].num = n + 1
    BY <1>2
  <2>2. QED
    BY <1>1, <1>3, <1>5, <1>15, <1>16, <2>1
<1> HIDE DEF n
<1>7. VersionsInOrder'
  <2>1. \A i \in 1 .. Len(versions') : i \in 1 .. n \/ i = n + 1
    BY <1>2, <1>4
  <2>2. \A i \in 1 .. n : versions[i].num \in 1 .. i /\ (~vraced => versions[i].num = i)
    BY DEF VersionsInOrder, n
  <2>3. Len(versions') >= 1 /\ wf'.num = versions'[Len(versions')].num /\ IsVersion(wf)'
    <3>1. Len(versions') = n + 1 /\ n + 1 \in 1 .. n + 1 /\ n + 1 >= 1
      BY <1>2, <1>4
    <3>2. wf'.num = versions'[n + 1].num /\ (~vraced' => wf' = versions'[n + 1])
      BY <1>4, <1>6, <1>15
    <3>3. QED
      BY <1>15, <3>1, <3>2 DEF IsVersion
  <2>4. \A i \in 1 .. Len(versions') : versions'[i].num \in 1 .. i
    BY <1>2, <1>3, <1>4, <2>1, <2>2
  <2>5. ~vraced' => \A i \in 1 .. Len(versions') : versions'[i].num = i
    BY <1>4, <1>6, <2>1, <2>2
  <2>6. vraced' \in BOOLEAN
    BY <1>1, <1>2, <1>16
  <2>7. QED
    BY <1>4, <2>3, <2>4, <2>5, <2>6 DEF VersionsInOrder
<1>8. /\ put' \in [Editors -> AnyPut] /\ put'[u].pc = "done" /\ put'[u].op = put[u].op
      /\ \A v \in Editors : v # u => put'[v] = put[v]
  <2> HIDE DEF WorkflowInvariant
  <2>1. QED
    BY <1>1, <1>2 DEF AnyPut
<1>9. PutsInOrder'
  <2>1. NumberedEditors' = NumberedEditors \ {u} /\ u \in NumberedEditors
    BY <1>1, <1>8 DEF NumberedEditors
  <2>2. IsFiniteSet(NumberedEditors) /\ Cardinality(NumberedEditors) \in Nat
    BY FS_CardinalityType DEF PutsInOrder
  <2>3. IsFiniteSet(NumberedEditors') /\ Cardinality(NumberedEditors') = Cardinality(NumberedEditors) - 1
    BY <2>1, <2>2, FS_RemoveElement
  <2>4. n + Cardinality(NumberedEditors) <= MaxVersions
    BY DEF PutsInOrder, n
  <2>5. Len(versions') + Cardinality(NumberedEditors') <= MaxVersions
    BY <1>2, <1>4, <2>2, <2>3, <2>4, WorkflowDeskAssumption
  <2>6. \A v \in Editors :
        /\ put'[v].op = "none" => put'[v] = NoPut
        /\ put'[v].pc = "numbered" => put'[v].op # "none" /\ put'[v].num \in 1 .. n + 1
    BY <1>1, <1>8 DEF PutsInOrder, n
  <2>7. 1 .. n + 1 \subseteq 1 .. Len(versions') + 1
    BY <1>2, <1>4
  <2>8. QED
    BY <1>8, <2>3, <2>5, <2>6, <2>7 DEF PutsInOrder
<1>10. \A r : IsVersion(r) => IsVersion(r)'
  <2>1. 1 .. n \subseteq 1 .. Len(versions')
    BY <1>2, <1>4
  <2>2. QED
    BY <1>4, <1>6, <2>1 DEF IsVersion, n
<1>11. PagesKnowVersions'
  BY <1>1, <1>10 DEF PagesKnowVersions
<1>12. ~vraced' => \A v \in Editors : known[v] # wf'
  <2>1. ASSUME NEW v \in Editors, ~vraced' PROVE known[v] # wf'
    <3>1. PICK i \in 1 .. n : known[v] = versions[i]
      BY <1>6, <2>1 DEF PagesKnowVersions, IsVersion, n
    <3>2. known[v].num = i
      BY <1>6, <2>1, <3>1 DEF VersionsInOrder, n
    <3>3. wf'.num = n + 1
      BY <1>6, <1>15, <2>1
    <3>4. QED
      BY <1>2, <3>1, <3>2, <3>3
  <2>2. QED
    BY <2>1
<1>13. CanvasFollows'
  BY <1>1, <1>6, <1>8, <1>12 DEF CanvasFollows, Differs, Replaced
<1>14. QED
  BY <1>7, <1>9, <1>11, <1>13

\* The answer, or its loss.
LEMMA AnswerStep ==
  ASSUME WorkflowInvariant, NEW u \in Editors, PutAnswered(u) \/ PutFails(u)
  PROVE  WorkflowInvariant'
<1> USE DEF WorkflowInvariant
<1>1. /\ UNCHANGED <<wf, versions, known, canvas, edits, overlapped, vraced>>
      /\ put[u].pc # "numbered" /\ put' = [put EXCEPT ![u] = NoPut]
  BY DEF PutAnswered, PutFails
<1>2. VersionsInOrder' /\ \A row : IsVersion(row) => IsVersion(row)'
  BY <1>1, SameVersions
<1>3. NoPut \in AnyPut /\ NoPut.pc = "sent" /\ NoPut.op = "none"
  BY NoPutIsAPut
<1>4. put' \in [Editors -> AnyPut] /\ put'[u] = NoPut /\ \A v \in Editors : v # u => put'[v] = put[v]
  BY <1>1, <1>3 DEF PutsInOrder
<1>5. NumberedEditors' = NumberedEditors
  BY <1>1, <1>3, <1>4 DEF NumberedEditors
<1>6. PutsInOrder'
  BY <1>1, <1>3, <1>4, <1>5 DEF PutsInOrder
<1>7. CASE PutAnswered(u)
  <2>1. PagesKnowVersions'
    BY <1>1, <1>2, <1>7 DEF PutAnswered, PagesKnowVersions
  <2>2. /\ put[u].pc = "done" /\ ~dirty'[u] /\ stale'[u] /\ fetching'[u] = <<>>
        /\ \A v \in Editors : v # u => dirty'[v] = dirty[v] /\ stale'[v] = stale[v] /\ fetching'[v] = fetching[v]
    BY <1>7 DEF PutAnswered, PagesKnowVersions
  <2>3. CanvasFollows'
    BY <1>1, <1>3, <1>4, <2>2 DEF CanvasFollows, Differs, Replaced
  <2>4. QED
    BY <1>2, <1>6, <2>1, <2>3
<1>8. CASE PutFails(u)
  <2>1. UNCHANGED <<dirty, fetching, stale>>
    BY <1>8 DEF PutFails
  <2>2. PagesKnowVersions'
    BY <1>1, <1>2, <2>1 DEF PagesKnowVersions
  <2>3. CanvasFollows'
    BY <1>1, <1>3, <1>4, <2>1 DEF CanvasFollows, Differs, Replaced
  <2>4. QED
    BY <1>2, <1>6, <2>2, <2>3
<1>9. QED
  BY <1>7, <1>8

\* The query: an answer that brings another row replaces the canvas.
LEMMA QuerySteps ==
  ASSUME WorkflowInvariant, NEW u \in Editors, WorkflowFetched(u) \/ WorkflowLands(u) \/ WorkflowFetchFails(u)
  PROVE  WorkflowInvariant'
<1> USE DEF WorkflowInvariant
<1>1. UNCHANGED <<wf, versions, dirty, put, edits, vraced>>
  BY DEF WorkflowFetched, WorkflowLands, WorkflowFetchFails
<1>2. VersionsInOrder' /\ PutsInOrder' /\ \A row : IsVersion(row) => IsVersion(row)'
  BY <1>1, SameVersions, SamePuts
<1>3. CASE WorkflowFetched(u)
  <2>1. UNCHANGED <<known, canvas, stale, overlapped>> /\ fetching' = [fetching EXCEPT ![u] = <<wf>>]
    BY <1>3 DEF WorkflowFetched
  <2>2. IsVersion(wf)
    BY DEF VersionsInOrder
  <2>3. /\ fetching' = [v \in Editors |-> fetching'[v]] /\ fetching'[u] = <<wf>> /\ fetching'[u][1] = wf
        /\ \A v \in Editors : v # u => fetching'[v] = fetching[v]
    BY <2>1 DEF PagesKnowVersions
  <2>4. PagesKnowVersions'
    BY <1>1, <1>2, <2>1, <2>2, <2>3 DEF PagesKnowVersions
  <2>5. CanvasFollows'
    BY <1>1, <2>1, <2>3 DEF CanvasFollows, Differs, Replaced
  <2>6. QED
    BY <1>2, <2>4, <2>5
<1>4. CASE WorkflowFetchFails(u)
  <2>1. UNCHANGED <<known, canvas, stale, overlapped>> /\ fetching' = [fetching EXCEPT ![u] = <<>>]
    BY <1>4 DEF WorkflowFetchFails
  <2>2. /\ fetching' = [v \in Editors |-> fetching'[v]] /\ fetching'[u] = <<>>
        /\ \A v \in Editors : v # u => fetching'[v] = fetching[v]
    BY <2>1 DEF PagesKnowVersions
  <2>3. PagesKnowVersions'
    BY <1>1, <1>2, <2>1, <2>2 DEF PagesKnowVersions
  <2>4. CanvasFollows'
    BY <1>1, <2>1, <2>2 DEF CanvasFollows, Differs, Replaced
  <2>5. QED
    BY <1>2, <2>3, <2>4
<1>5. CASE WorkflowLands(u)
  <2> DEFINE row == fetching[u][1]
  <2>1. /\ known' = [known EXCEPT ![u] = row]
        /\ canvas' = IF row # known[u] THEN [canvas EXCEPT ![u] = row.def] ELSE canvas
        /\ overlapped' = [overlapped EXCEPT ![u] = @ /\ row = known[u]]
        /\ fetching' = [fetching EXCEPT ![u] = <<>>] /\ stale' = [stale EXCEPT ![u] = FALSE]
        /\ fetching[u] # <<>>
    BY <1>5 DEF WorkflowLands, Replaces
  <2>2. IsVersion(row)
    BY <2>1 DEF PagesKnowVersions
  <2> HIDE DEF row
  <2>3. row \in AnyRow /\ row.def \in SUBSET Parts
    <3>1. row \in AnyRow
      BY <2>2 DEF IsVersion
    <3>2. QED
      BY <3>1 DEF AnyRow
  <2>4. /\ known' \in [Editors -> AnyRow] /\ known'[u] = row /\ canvas' \in [Editors -> SUBSET Parts]
        /\ row # known[u] => canvas'[u] = row.def
        /\ row = known[u] => canvas'[u] = canvas[u]
        /\ \A v \in Editors : v # u => known'[v] = known[v] /\ canvas'[v] = canvas[v]
    BY <2>1, <2>3 DEF PagesKnowVersions
  <2>5. /\ overlapped' \in [Editors -> BOOLEAN] /\ stale' \in [Editors -> BOOLEAN]
        /\ row = known[u] => overlapped'[u] = overlapped[u]
        /\ \A v \in Editors : v # u => overlapped'[v] = overlapped[v] /\ stale'[v] = stale[v]
    BY <2>1 DEF PagesKnowVersions
  <2>6. /\ fetching' = [v \in Editors |-> fetching'[v]] /\ fetching'[u] = <<>>
        /\ \A v \in Editors : v # u => fetching'[v] = fetching[v]
    BY <2>1 DEF PagesKnowVersions
  <2>7. PagesKnowVersions'
    BY <1>1, <1>2, <2>2, <2>4, <2>5, <2>6 DEF PagesKnowVersions
  <2>8. ASSUME NEW v \in Editors, ~vraced', Differs(v)', ~overlapped'[v]
        PROVE  (dirty'[v] \/ Replaced(v)') /\ (put'[v].pc = "done" => known'[v] # wf')
    <3>1. CASE v # u
      BY <1>1, <2>4, <2>5, <2>6, <2>8, <3>1 DEF CanvasFollows, Differs, Replaced
    <3>2. CASE v = u
      <4>1. row = known[u] /\ Differs(u) /\ ~overlapped[u]
        BY <2>4, <2>5, <2>8, <3>2 DEF Differs
      <4>2. (dirty[u] \/ Replaced(u)) /\ (put[u].pc = "done" => known[u] # wf)
        BY <1>1, <2>8, <4>1 DEF CanvasFollows
      <4>3. ~Replaced(u)
        BY <2>1, <4>1 DEF Replaced, row
      <4>4. QED
        BY <1>1, <2>4, <3>2, <4>1, <4>2, <4>3
    <3>3. QED
      BY <3>1, <3>2
  <2>9. CanvasFollows'
    BY <2>8 DEF CanvasFollows
  <2>10. QED
    BY <1>2, <2>7, <2>9
<1>6. QED
  BY <1>3, <1>4, <1>5

\* The invariant of the workflows holds.
LEMMA WorkflowInvariantHolds == WorkflowSpec => []WorkflowInvariant
<1>1. WorkflowInit => WorkflowInvariant
  BY WorkflowStarts
<1>2. WorkflowInvariant /\ [WorkflowNext]_workflowVars => WorkflowInvariant'
  <2>1. ASSUME WorkflowInvariant, UNCHANGED workflowVars PROVE WorkflowInvariant'
    BY <2>1 DEF workflowVars, WorkflowInvariant, VersionsInOrder, PutsInOrder, NumberedEditors, PagesKnowVersions,
         IsVersion, CanvasFollows, Differs, Replaced
  <2>2. ASSUME WorkflowInvariant, WorkflowNext PROVE WorkflowInvariant'
    BY <2>2, CanvasSteps, SendPut, LoadStep, NumberStep, PutCommitSteps, AnswerStep, QuerySteps DEF WorkflowNext
  <2>3. QED
    BY <2>1, <2>2
<1>3. QED
  BY <1>1, <1>2, PTL DEF WorkflowSpec

\* There is a newest version, and none has a higher number.
LEMMA NewestIsNewest ==
  ASSUME VersionsInOrder
  PROVE  /\ \E i \in 1 .. Len(versions) : Newest(versions) = versions[i]
         /\ \A row : IsVersion(row) => row.num <= Newest(versions).num
<1> DEFINE S == {versions[i].num : i \in 1 .. Len(versions)}
<1>1. Len(versions) \in Nat /\ DOMAIN versions = 1 .. Len(versions) /\ 1 \in 1 .. Len(versions)
  BY DEF VersionsInOrder
<1>2. \A i \in 1 .. Len(versions) : versions[i].num \in 0 .. Len(versions)
  <2> SUFFICES ASSUME NEW i \in 1 .. Len(versions) PROVE versions[i].num \in 0 .. Len(versions)
    OBVIOUS
  <2>1. versions[i].num \in 1 .. i
    BY DEF VersionsInOrder
  <2>2. QED
    BY <1>1, <2>1
<1>3. S \in SUBSET (0 .. Len(versions)) /\ S # {}
  BY <1>1, <1>2
<1> HIDE DEF S
<1>4. PICK x \in S : \A y \in S : x >= y
  BY <1>1, <1>3, GreatestNatural
<1>5. PICK i \in 1 .. Len(versions) : versions[i].num = x
  BY DEF S
<1>6. \A j \in 1 .. Len(versions) : versions[j].num <= versions[i].num
  <2>1. \A j \in 1 .. Len(versions) : versions[j].num \in S /\ versions[j].num \in Nat /\ versions[i].num \in Nat
    BY <1>2 DEF S
  <2>2. QED
    BY <1>4, <1>5, <2>1
<1>7. ToSet(versions) = {versions[j] : j \in 1 .. Len(versions)}
  BY <1>1 DEF ToSet
<1>8. versions[i] \in ToSet(versions) /\ \A other \in ToSet(versions) : other.num <= versions[i].num
  BY <1>6, <1>7
<1>9. Newest(versions) \in ToSet(versions) /\ \A other \in ToSet(versions) : other.num <= Newest(versions).num
  BY <1>8 DEF Newest
<1>10. QED
  BY <1>7, <1>9 DEF IsVersion

\* The version the routes run is the definition the editors show, unless two routes took
\* one number (_make_version of routers/workflows.py, POST /runs), or one left the
\* definition out of its update because it was that of the row it had loaded, while
\* another had committed a different one.
THEOREM NewestVersionIsCurrent == WorkflowSpec => []NewestIsCurrent
<1>1. ASSUME WorkflowInvariant PROVE NewestIsCurrent
  <2> SUFFICES ASSUME ~vraced PROVE Newest(versions) = wf
    BY DEF NewestIsCurrent
  <2> DEFINE n == Len(versions)
  <2>0. n \in Nat /\ n \in 1 .. n /\ wf.num = versions[n].num /\ IsVersion(wf)
        /\ \A i \in 1 .. n : versions[i].num = i
    BY <1>1 DEF WorkflowInvariant, VersionsInOrder
  <2>1. n \in Nat /\ n \in 1 .. n /\ wf = versions[n] /\ \A i \in 1 .. n : versions[i].num = i
    BY <2>0 DEF IsVersion
  <2>2. PICK i \in 1 .. n : Newest(versions) = versions[i]
    BY <1>1, NewestIsNewest DEF WorkflowInvariant
  <2>3. wf.num <= Newest(versions).num
    BY <1>1, <2>0, NewestIsNewest DEF WorkflowInvariant
  <2> HIDE DEF n
  <2>4. wf.num = n /\ Newest(versions).num = i
    BY <2>1, <2>2
  <2>5. i = n
    BY <2>1, <2>3, <2>4
  <2>6. QED
    BY <2>1, <2>2, <2>5
<1>2. QED
  BY <1>1, WorkflowInvariantHolds, PTL

\* A page without the mark that waits for nothing shows the definition it has from the
\* server (WorkflowEditor.tsx), unless it was edited during its last request.
THEOREM CanvasIsSaved == WorkflowSpec => []CanvasIsWhatIsSaved
<1>1. WorkflowInvariant => CanvasIsWhatIsSaved
  BY DEF WorkflowInvariant, CanvasFollows, Differs, Replaced, CanvasIsWhatIsSaved
<1>2. QED
  BY <1>1, WorkflowInvariantHolds, PTL

\* Every variable of the workflow editor has its type: a number goes no higher than the
\* versions that were made, and no page knows one that is newer than the newest.
THEOREM WorkflowTypes == WorkflowSpec => []WorkflowTypeOK
<1>1. ASSUME WorkflowInvariant PROVE WorkflowTypeOK
  <2> USE <1>1 DEF WorkflowInvariant
  <2> DEFINE n == Len(versions)
  <2>1. n \in Nat /\ n \in 1 .. n
    BY VersionsAreRows
  <2>2. (\A row : IsVersion(row) => row \in Row) /\ \A i \in 1 .. n : versions[i] \in Row
    BY VersionsAreRows
  <2>3. wf \in Row /\ versions \in Seq(Row)
    <3>1. \A i \in 1 .. n : versions[i] \in Row
      BY <2>2
    <3>2. wf \in Row
      BY <2>2 DEF VersionsInOrder
    <3>3. versions \in Seq(Row)
      <4>1. versions = [i \in 1 .. n |-> versions[i]] /\ n \in Nat
        BY DEF VersionsInOrder
      <4> HIDE DEF n
      <4>2. versions \in [1 .. n -> Row]
        BY <3>1, <4>1
      <4>3. QED
        BY <4>1, <4>2, SeqDef
    <3>4. QED
      BY <3>2, <3>3
  <2>4. \A u \in Editors : known[u] \in Row /\ known[u].num <= Newest(versions).num
    BY <2>2, NewestIsNewest DEF PagesKnowVersions
  <2>5. known \in [Editors -> Row]
    BY <2>4 DEF PagesKnowVersions
  <2>6. \A u \in Editors :
          /\ fetching[u] = <<>> \/ fetching[u][1] \in Row
          /\ put[u].op \in {"none", "save", "restore"} /\ put[u].pc \in {"sent", "loaded", "numbered", "done"}
          /\ put[u].row \in Row
          /\ put[u].op = "none" => put[u] = NoPut
    <3>1. \A u \in Editors : put[u] \in AnyPut
      BY DEF PutsInOrder
    <3>2. QED
      BY <2>2, <3>1 DEF PutsInOrder, PagesKnowVersions, AnyPut
  <2>7. QED
    BY <2>3, <2>4, <2>5, <2>6 DEF VersionsInOrder, PagesKnowVersions, WorkflowTypeOK
<1>2. QED
  BY <1>1, WorkflowInvariantHolds, PTL

-----------------------------------------------------------------------------
(* Mailboxes.                                                             *)

-----------------------------------------------------------------------------
(* Mailboxes.                                                              *)

BoxCall == [op : BoxOps, owner : Owners, local : {0} \cup Locals, pc : {"sent", "read", "done"},
            seen : [Owners -> BoxRow]]

BoxShapes ==
  /\ boxes \in [Owners -> BoxRow] /\ boxCache \in [BoxUsers -> [Owners -> BoxRow]]
  /\ \A o \in PolicyOwners : ~boxes[o].archived
  /\ boxRpc = [u \in BoxUsers |-> boxRpc[u]]
  /\ overtook \in BOOLEAN /\ boxActs \in 0 .. MaxBoxActs

\* A request names what its operation needs, and one that was accepted when its route
\* looked was so for the rows the route saw.
CallsSound ==
  \A u \in BoxUsers : boxRpc[u] = NoBoxRpc \/
    /\ boxRpc[u] \in BoxCall
    /\ (boxRpc[u].op = "set") = (boxRpc[u].local \in Locals)
    /\ boxRpc[u].op \in {"archive", "unarchive"} => boxRpc[u].owner \in WorkflowOwners
    /\ boxRpc[u].pc = "read" => ~Refused(boxRpc[u], boxRpc[u].seen)

\* A row has an address as long as it is enabled, and shares it with no other.
AddressesApart(rows) ==
  /\ \A o \in Owners : rows[o].enabled = (rows[o].address # 0)
  /\ \A o, q \in Owners : rows[o].address = rows[q].address /\ rows[o].address # 0 => o = q

BoxInvariant == BoxShapes /\ CallsSound /\ (~overtook => AddressesApart(boxes))

\* The constants of the mailboxes.
LEMMA BoxBounds == MaxLocal \in Nat /\ MaxBoxActs \in Nat /\ IsFiniteSet(Owners) /\ PolicyOwners \cap WorkflowOwners = {}
BY MailboxAssumption

\* There is a free local part for every mailbox: the others are fewer than the parts.
LEMMA ThereIsAFreePart ==
  ASSUME NEW rows \in [Owners -> BoxRow], NEW o \in Owners
  PROVE  FirstFree(rows, o) \in Locals /\ ~InUse(rows, o, FirstFree(rows, o))
<1> DEFINE S == {a \in Locals : ~InUse(rows, o, a)}
           f == [a \in Locals |-> CHOOSE q \in Owners \ {o} : rows[q].address = a]
<1>1. IsFiniteSet(Owners \ {o}) /\ Cardinality(Owners \ {o}) = Cardinality(Owners) - 1 /\ Cardinality(Owners) \in Nat
  BY BoxBounds, FS_RemoveElement, FS_CardinalityType
<1>2. IsFiniteSet(Locals) /\ Cardinality(Locals) = MaxLocal
  <2>1. IsFiniteSet(1 .. MaxLocal) /\ Cardinality(1 .. MaxLocal) = MaxLocal
    BY BoxBounds, FS_Interval
  <2>2. QED
    BY <2>1 DEF Locals
<1>3. S # {}
  <2> SUFFICES ASSUME \A a \in Locals : InUse(rows, o, a) PROVE FALSE
    OBVIOUS
  <2>1. \A a \in Locals : f[a] \in Owners \ {o} /\ rows[f[a]].address = a
    BY DEF InUse
  <2>2. f \in [Locals -> Owners \ {o}]
    BY <2>1
  <2> HIDE DEF f
  <2>3. f \in Injection(Locals, Owners \ {o})
    BY <2>1, <2>2 DEF Injection, IsInjective
  <2>4. Cardinality(Locals) <= Cardinality(Owners \ {o})
    BY <1>1, <2>3, FS_Injection
  <2>5. MaxLocal >= Cardinality(Owners) /\ MaxLocal \in Nat
    BY MailboxAssumption
  <2>6. QED
    BY <1>1, <1>2, <2>4, <2>5
<1>4. S \in SUBSET Nat
  BY DEF Locals
<1> HIDE DEF S
<1>5. Min(S) \in S
  BY <1>3, <1>4, MinIsLeast
<1>6. QED
  BY <1>5 DEF FirstFree, S

\* What a route writes into a row it saw as seen and wants as wanted.
RowWritten(now, seen, wanted) == [c \in DOMAIN now |-> IF wanted[c] # seen[c] THEN wanted[c] ELSE now[c]]

\* What a call writes is a row.
LEMMA WrittenIsARow ==
  ASSUME NEW now \in BoxRow, NEW seen \in BoxRow, NEW wanted \in BoxRow
  PROVE  /\ RowWritten(now, seen, wanted) \in BoxRow
         /\ now = seen => RowWritten(now, seen, wanted) = wanted
         /\ wanted.archived = seen.archived => RowWritten(now, seen, wanted).archived = now.archived
<1> DEFINE w == RowWritten(now, seen, wanted)
<1>1. DOMAIN now = {"enabled", "address", "archived"} /\ DOMAIN wanted = DOMAIN now
  BY DEF BoxRow
<1>2. /\ w.enabled = IF wanted.enabled # seen.enabled THEN wanted.enabled ELSE now.enabled
      /\ w.address = IF wanted.address # seen.address THEN wanted.address ELSE now.address
      /\ w.archived = IF wanted.archived # seen.archived THEN wanted.archived ELSE now.archived
  BY <1>1 DEF RowWritten
<1>3. w = [enabled |-> w.enabled, address |-> w.address, archived |-> w.archived]
  BY <1>1 DEF RowWritten
<1> HIDE DEF w
<1>4. w.enabled \in BOOLEAN /\ w.address \in {0} \cup Locals /\ w.archived \in BOOLEAN
  BY <1>2 DEF BoxRow
<1>5. w \in BoxRow
  BY <1>3, <1>4 DEF BoxRow
<1>6. ASSUME now = seen PROVE w = wanted
  <2>1. w.enabled = wanted.enabled /\ w.address = wanted.address /\ w.archived = wanted.archived
    BY <1>2, <1>6
  <2>2. QED
    BY <1>3, <2>1 DEF BoxRow
<1>7. QED
  BY <1>2, <1>5, <1>6 DEF w

\* What a request makes of the row it saw.
LEMMA WantedIsARow ==
  ASSUME NEW r \in BoxCall, NEW rows \in [Owners -> BoxRow], (r.op = "set") = (r.local \in Locals)
  PROVE  /\ Wanted(r, rows) \in BoxRow
         /\ r.op \notin {"archive", "unarchive"} => Wanted(r, rows).archived = rows[r.owner].archived
         /\ r.op \in {"archive", "unarchive"} =>
              /\ Wanted(r, rows).address = rows[r.owner].address
              /\ Wanted(r, rows).enabled = rows[r.owner].enabled
         /\ r.op = "enable" => Wanted(r, rows).enabled /\ Wanted(r, rows).address = FirstFree(rows, r.owner)
         /\ r.op = "disable" => ~Wanted(r, rows).enabled /\ Wanted(r, rows).address = 0
         /\ r.op = "set" => Wanted(r, rows).enabled = rows[r.owner].enabled /\ Wanted(r, rows).address = r.local
<1> DEFINE row == rows[r.owner]
<1>1. r.op \in BoxOps /\ r.owner \in Owners /\ r.local \in {0} \cup Locals
  BY DEF BoxCall
<1>2. row \in BoxRow
  BY <1>1
<1>3. FirstFree(rows, r.owner) \in Locals
  BY <1>1, ThereIsAFreePart
<1>4. CASE r.op = "enable"
  <2>1. Wanted(r, rows) = [row EXCEPT !.enabled = TRUE, !.address = FirstFree(rows, r.owner)]
    BY <1>4 DEF Wanted
  <2> HIDE DEF row
  <2>2. QED
    BY <1>2, <1>3, <1>4, <2>1 DEF BoxRow, row
<1>5. CASE r.op = "set"
  <2>1. Wanted(r, rows) = [row EXCEPT !.address = r.local]
    BY <1>5 DEF Wanted
  <2>2. QED
    BY <1>1, <1>2, <1>5, <2>1 DEF BoxRow
<1>6. CASE r.op = "disable"
  <2>1. Wanted(r, rows) = [row EXCEPT !.enabled = FALSE, !.address = 0]
    BY <1>6 DEF Wanted
  <2>2. QED
    BY <1>2, <1>6, <2>1 DEF BoxRow
<1>7. CASE r.op = "archive"
  <2>1. Wanted(r, rows) = [row EXCEPT !.archived = TRUE]
    BY <1>7 DEF Wanted
  <2>2. QED
    BY <1>2, <1>7, <2>1 DEF BoxRow
<1>8. CASE r.op = "unarchive"
  <2>1. Wanted(r, rows) = [row EXCEPT !.archived = FALSE]
    BY <1>8 DEF Wanted
  <2>2. QED
    BY <1>2, <1>8, <2>1 DEF BoxRow
<1>9. QED
  BY <1>1, <1>4, <1>5, <1>6, <1>7, <1>8 DEF BoxOps

\* A row changed as a request that was accepted wants it: the addresses stay apart.
LEMMA WantedStaysApart ==
  ASSUME NEW r \in BoxCall, NEW rows \in [Owners -> BoxRow], (r.op = "set") = (r.local \in Locals),
         ~Refused(r, rows), AddressesApart(rows)
  PROVE  AddressesApart([rows EXCEPT ![r.owner] = Wanted(r, rows)])
<1> DEFINE o == r.owner
           w == Wanted(r, rows)
           new == [rows EXCEPT ![r.owner] = Wanted(r, rows)]
<1>1. o \in Owners /\ r.op \in BoxOps
  BY DEF BoxCall
<1>2. new[o] = w /\ \A q \in Owners : q # o => new[q] = rows[q]
  BY <1>1
<1>3. /\ w.enabled = (w.address # 0)
      /\ w.address # 0 => \A q \in Owners : q # o => rows[q].address # w.address
  <2>1. CASE r.op = "enable"
    <3>1. w.enabled /\ w.address = FirstFree(rows, o) /\ w.enabled \in BOOLEAN
      BY <2>1, WantedIsARow DEF BoxRow
    <3>2. FirstFree(rows, o) \in Locals /\ ~InUse(rows, o, FirstFree(rows, o))
      BY <1>1, ThereIsAFreePart
    <3> HIDE DEF w
    <3>3. w.address # 0
      BY <3>1, <3>2, BoxBounds DEF Locals
    <3>4. QED
      BY <3>1, <3>2, <3>3 DEF InUse
  <2>2. CASE r.op = "set"
    <3>1. w.enabled = rows[o].enabled /\ w.address = r.local /\ r.local \in Locals
      BY <2>2, WantedIsARow
    <3>2. rows[o].enabled /\ ~InUse(rows, o, r.local) /\ rows[o].enabled \in BOOLEAN
      BY <1>1, <2>2 DEF Refused, BoxRow
    <3> HIDE DEF w
    <3>3. w.address # 0
      BY <3>1, BoxBounds DEF Locals
    <3>4. QED
      BY <3>1, <3>2, <3>3 DEF InUse
  <2>3. CASE r.op = "disable"
    <3>1. ~w.enabled /\ w.address = 0 /\ w.enabled \in BOOLEAN
      BY <2>3, WantedIsARow DEF BoxRow
    <3>2. QED
      BY <3>1
  <2>4. CASE r.op \in {"archive", "unarchive"}
    <3>1. w.enabled = rows[o].enabled /\ w.address = rows[o].address
      BY <2>4, WantedIsARow
    <3> HIDE DEF w
    <3>2. QED
      BY <1>1, <3>1 DEF AddressesApart
  <2>5. QED
    BY <1>1, <2>1, <2>2, <2>3, <2>4 DEF BoxOps
<1> HIDE DEF new, w, o
<1>4. \A q \in Owners : new[q].enabled = (new[q].address # 0)
  BY <1>2, <1>3 DEF AddressesApart
<1>5. ASSUME NEW p \in Owners, NEW q \in Owners, new[p].address = new[q].address, new[p].address # 0
      PROVE  p = q
  <2>1. CASE p = o \/ q = o
    BY <1>2, <1>3, <1>5, <2>1
  <2>2. CASE p # o /\ q # o
    BY <1>2, <1>5, <2>2 DEF AddressesApart
  <2>3. QED
    BY <2>1, <2>2
<1>6. AddressesApart(new)
  BY <1>4, <1>5 DEF AddressesApart
<1>7. QED
  BY <1>6 DEF new

-----------------------------------------------------------------------------
\* The rows as they are when nobody has set a mailbox.
LEMMA ClosedIsARow == AllClosed \in [Owners -> BoxRow] /\ AddressesApart(AllClosed)
BY DEF AllClosed, BoxRow, AddressesApart

\* The mailboxes as they start.
LEMMA BoxStarts == ASSUME BoxInit PROVE BoxInvariant
<1>1. 0 \in 0 .. MaxBoxActs
  BY BoxBounds
<1>2. BoxShapes
  <2>1. \A o \in PolicyOwners : ~boxes[o].archived
    BY DEF BoxInit, AllClosed, Owners
  <2>2. QED
    BY <1>1, <2>1, ClosedIsARow DEF BoxInit, BoxShapes
<1>3. QED
  BY <1>2, ClosedIsARow DEF BoxInit, BoxInvariant, CallsSound

\* A request is sent.
LEMMA AskSteps ==
  ASSUME BoxInvariant, NEW u \in BoxUsers, NEW o \in Owners, NEW op \in BoxOps, NEW local \in {0} \cup Locals,
         (op = "set") = (local \in Locals), op \in {"archive", "unarchive"} => o \in WorkflowOwners,
         AskFor(u, o, op, local)
  PROVE  BoxInvariant'
<1> DEFINE new == [op |-> op, owner |-> o, local |-> local, pc |-> "sent", seen |-> AllClosed]
<1>1. /\ boxRpc' = [boxRpc EXCEPT ![u] = new] /\ boxActs' = boxActs + 1 /\ boxActs < MaxBoxActs
      /\ UNCHANGED <<boxes, boxCache, overtook>>
  BY DEF AskFor
<1>2. new \in BoxCall /\ new.op = op /\ new.owner = o /\ new.local = local /\ new.pc = "sent"
  BY ClosedIsARow DEF BoxCall
<1> HIDE DEF new
<1>3. boxActs' \in 0 .. MaxBoxActs
  <2>1. boxActs \in 0 .. MaxBoxActs
    BY DEF BoxInvariant, BoxShapes
  <2>2. QED
    BY <1>1, <2>1, BoxBounds
<1>4. /\ boxRpc' = [v \in BoxUsers |-> boxRpc'[v]] /\ boxRpc'[u] = new
      /\ \A v \in BoxUsers : v # u => boxRpc'[v] = boxRpc[v]
  BY <1>1 DEF BoxInvariant, BoxShapes
<1>5. BoxShapes'
  BY <1>1, <1>3, <1>4 DEF BoxInvariant, BoxShapes
<1>6. CallsSound'
  <2>1. ASSUME NEW v \in BoxUsers
        PROVE  boxRpc'[v] = NoBoxRpc \/
                 /\ boxRpc'[v] \in BoxCall
                 /\ (boxRpc'[v].op = "set") = (boxRpc'[v].local \in Locals)
                 /\ boxRpc'[v].op \in {"archive", "unarchive"} => boxRpc'[v].owner \in WorkflowOwners
                 /\ boxRpc'[v].pc = "read" => ~Refused(boxRpc'[v], boxRpc'[v].seen)
    <3>1. CASE v = u
      BY <1>2, <1>4, <3>1
    <3>2. CASE v # u
      BY <1>4, <3>2 DEF BoxInvariant, CallsSound
    <3>3. QED
      BY <3>1, <3>2
  <2>2. QED
    BY <2>1 DEF CallsSound, Refused, InUse
<1>7. QED
  BY <1>1, <1>5, <1>6 DEF BoxInvariant

\* A request moves on, or is over, and the rows stay.
LEMMA RpcMoves ==
  ASSUME BoxInvariant, NEW u \in BoxUsers, NEW new, boxRpc' = [boxRpc EXCEPT ![u] = new],
         new = NoBoxRpc \/
           /\ new \in BoxCall
           /\ (new.op = "set") = (new.local \in Locals)
           /\ new.op \in {"archive", "unarchive"} => new.owner \in WorkflowOwners
           /\ new.pc = "read" => ~Refused(new, new.seen)
  PROVE  CallsSound' /\ boxRpc' = [v \in BoxUsers |-> boxRpc'[v]]
<1>1. /\ boxRpc' = [v \in BoxUsers |-> boxRpc'[v]] /\ boxRpc'[u] = new
      /\ \A v \in BoxUsers : v # u => boxRpc'[v] = boxRpc[v]
  BY DEF BoxInvariant, BoxShapes
<1>2. ASSUME NEW v \in BoxUsers
      PROVE  boxRpc'[v] = NoBoxRpc \/
               /\ boxRpc'[v] \in BoxCall
               /\ (boxRpc'[v].op = "set") = (boxRpc'[v].local \in Locals)
               /\ boxRpc'[v].op \in {"archive", "unarchive"} => boxRpc'[v].owner \in WorkflowOwners
               /\ boxRpc'[v].pc = "read" => ~Refused(boxRpc'[v], boxRpc'[v].seen)
  <2>1. CASE v = u
    BY <1>1, <2>1
  <2>2. CASE v # u
    BY <1>1, <2>2 DEF BoxInvariant, CallsSound
  <2>3. QED
    BY <2>1, <2>2
<1>3. QED
  BY <1>1, <1>2 DEF CallsSound, Refused, InUse

\* A request of the user that is under way.
LEMMA TheCall ==
  ASSUME BoxInvariant, NEW u \in BoxUsers, boxRpc[u] # NoBoxRpc
  PROVE  /\ boxRpc[u] \in BoxCall
         /\ (boxRpc[u].op = "set") = (boxRpc[u].local \in Locals)
         /\ boxRpc[u].op \in {"archive", "unarchive"} => boxRpc[u].owner \in WorkflowOwners
         /\ boxRpc[u].pc = "read" => ~Refused(boxRpc[u], boxRpc[u].seen)
BY DEF BoxInvariant, CallsSound

\* A route looks: what it accepts, it accepts for the rows it sees.
LEMMA RouteReadSteps ==
  ASSUME BoxInvariant, NEW u \in BoxUsers, InboxRouteReads(u)
  PROVE  BoxInvariant'
<1> DEFINE r == boxRpc[u]
           done == [r EXCEPT !.pc = "done"]
           read == [r EXCEPT !.pc = "read", !.seen = boxes]
<1>1. /\ r # NoBoxRpc /\ r.pc = "sent" /\ UNCHANGED <<boxes, boxCache, overtook, boxActs>>
      /\ boxRpc' = IF Refused(r, boxes) THEN [boxRpc EXCEPT ![u].pc = "done"]
                   ELSE [boxRpc EXCEPT ![u].pc = "read", ![u].seen = boxes]
  BY DEF InboxRouteReads
<1>2. /\ r \in BoxCall /\ (r.op = "set") = (r.local \in Locals)
      /\ r.op \in {"archive", "unarchive"} => r.owner \in WorkflowOwners
  BY <1>1, TheCall
<1>3. boxes \in [Owners -> BoxRow]
  BY DEF BoxInvariant, BoxShapes
<1> HIDE DEF r
<1>4. done \in BoxCall /\ done.op = r.op /\ done.owner = r.owner /\ done.local = r.local /\ done.pc = "done"
  BY <1>2 DEF BoxCall
<1>5. read \in BoxCall /\ read.op = r.op /\ read.owner = r.owner /\ read.local = r.local /\ read.seen = boxes
  BY <1>2, <1>3 DEF BoxCall
<1>6. ~Refused(r, boxes) => ~Refused(read, read.seen)
  <2> HIDE DEF read
  <2>1. QED
    BY <1>5 DEF Refused
<1>7. CallsSound' /\ boxRpc' = [v \in BoxUsers |-> boxRpc'[v]]
  <2>1. CASE Refused(r, boxes)
    <3>1. boxRpc' = [boxRpc EXCEPT ![u] = done]
      BY <1>1, <2>1 DEF r
    <3> HIDE DEF done, read
    <3>2. QED
      BY <1>2, <1>4, <3>1, RpcMoves
  <2>2. CASE ~Refused(r, boxes)
    <3>1. boxRpc' = [boxRpc EXCEPT ![u] = read]
      BY <1>1, <2>2 DEF r, BoxInvariant, BoxShapes
    <3> HIDE DEF done, read
    <3>2. QED
      BY <1>2, <1>5, <1>6, <2>2, <3>1, RpcMoves
  <2>3. QED
    BY <2>1, <2>2
<1>8. QED
  BY <1>1, <1>7 DEF BoxInvariant, BoxShapes

\* A route commits: over the rows it saw, its row is as it wants it; over others, the
\* mark stays.
LEMMA RouteCommitSteps ==
  ASSUME BoxInvariant, NEW u \in BoxUsers, InboxRouteCommits(u)
  PROVE  BoxInvariant'
<1> DEFINE r == boxRpc[u]
           o == r.owner
           w == Wanted(r, r.seen)
           done == [r EXCEPT !.pc = "done", !.seen = AllClosed]
           row == RowWritten(boxes[o], r.seen[o], w)
<1>1. /\ r # NoBoxRpc /\ r.pc = "read" /\ UNCHANGED <<boxCache, boxActs>>
      /\ boxes' = [boxes EXCEPT ![o] = row]
      /\ overtook' = (overtook \/ boxes # r.seen)
      /\ boxRpc' = [boxRpc EXCEPT ![u].pc = "done", ![u].seen = AllClosed]
  BY DEF InboxRouteCommits, RowWritten
<1>2. /\ r \in BoxCall /\ (r.op = "set") = (r.local \in Locals)
      /\ r.op \in {"archive", "unarchive"} => r.owner \in WorkflowOwners
      /\ ~Refused(r, r.seen)
  BY <1>1, TheCall
<1>3. /\ boxes \in [Owners -> BoxRow] /\ overtook \in BOOLEAN /\ boxRpc = [v \in BoxUsers |-> boxRpc[v]]
  BY DEF BoxInvariant, BoxShapes
<1>4. boxRpc' = [boxRpc EXCEPT ![u] = done]
  BY <1>1, <1>3
<1> HIDE DEF r
<1>5. o \in Owners /\ r.seen \in [Owners -> BoxRow]
  BY <1>2 DEF BoxCall
<1>6. done \in BoxCall /\ done.op = r.op /\ done.owner = r.owner /\ done.local = r.local /\ done.pc = "done"
  BY <1>2, ClosedIsARow DEF BoxCall
<1> HIDE DEF done
<1>7. CallsSound' /\ boxRpc' = [v \in BoxUsers |-> boxRpc'[v]]
  BY <1>2, <1>4, <1>6, RpcMoves
<1>8. w \in BoxRow /\ (r.op \notin {"archive", "unarchive"} => w.archived = r.seen[o].archived)
  BY <1>2, <1>5, WantedIsARow
<1> HIDE DEF w
<1>9. /\ row \in BoxRow /\ (boxes[o] = r.seen[o] => row = w)
      /\ (w.archived = r.seen[o].archived => row.archived = boxes[o].archived)
  BY <1>3, <1>5, <1>8, WrittenIsARow
<1> HIDE DEF row
<1>10. boxes' \in [Owners -> BoxRow] /\ boxes'[o] = row /\ \A q \in Owners : q # o => boxes'[q] = boxes[q]
  BY <1>1, <1>3, <1>5, <1>9
<1>11. ASSUME NEW p \in PolicyOwners PROVE ~boxes'[p].archived
  <2>1. p \in Owners /\ ~boxes[p].archived
    BY DEF Owners, BoxInvariant, BoxShapes
  <2>2. CASE p = o
    <3>1. p \notin WorkflowOwners
      BY BoxBounds
    <3>2. r.op \notin {"archive", "unarchive"}
      BY <1>2, <2>2, <3>1
    <3>3. QED
      BY <1>8, <1>9, <1>10, <2>1, <2>2, <3>2
  <2>3. CASE p # o
    BY <1>10, <2>1, <2>3
  <2>4. QED
    BY <2>2, <2>3
<1>12. BoxShapes'
  <2>1. overtook' \in BOOLEAN
    BY <1>1
  <2>2. QED
    BY <1>1, <1>7, <1>10, <1>11, <2>1 DEF BoxInvariant, BoxShapes
<1>13. ~overtook' => AddressesApart(boxes)'
  <2> SUFFICES ASSUME ~overtook' PROVE AddressesApart(boxes')
    BY DEF AddressesApart
  <2>1. ~overtook /\ boxes = r.seen
    BY <1>1, <1>3
  <2>2. AddressesApart(boxes)
    BY <2>1 DEF BoxInvariant
  <2>3. row = Wanted(r, boxes)
    BY <1>9, <2>1 DEF w
  <2>4. boxes' = [boxes EXCEPT ![r.owner] = Wanted(r, boxes)]
    BY <1>1, <2>3
  <2>5. ~Refused(r, boxes)
    BY <1>2, <2>1
  <2>6. QED
    BY <1>2, <1>3, <2>2, <2>4, <2>5, WantedStaysApart
<1>14. QED
  BY <1>7, <1>12, <1>13 DEF BoxInvariant

\* The invariant of the mailboxes holds.
LEMMA BoxInvariantHolds == BoxSpec => []BoxInvariant
<1>1. BoxInit => BoxInvariant
  BY BoxStarts
<1>2. BoxInvariant /\ [BoxNext]_boxVars => BoxInvariant'
  <2>1. ASSUME BoxInvariant, UNCHANGED boxVars PROVE BoxInvariant'
    BY <2>1 DEF boxVars, BoxInvariant, BoxShapes, CallsSound, AddressesApart, Refused, InUse
  <2>2. ASSUME BoxInvariant, NEW u \in BoxUsers, NEW o \in Owners,
               ClickEnable(u, o) \/ ClickDisable(u, o) \/ ClickArchive(u, o)
        PROVE  BoxInvariant'
    <3>1. 0 \in {0} \cup Locals /\ 0 \notin Locals
      BY BoxBounds DEF Locals
    <3>2. CASE ClickEnable(u, o)
      <4>1. AskFor(u, o, "enable", 0) /\ "enable" \in BoxOps
        BY <3>2 DEF ClickEnable, BoxOps
      <4>2. QED
        BY <2>2, <3>1, <4>1, AskSteps
    <3>3. CASE ClickDisable(u, o)
      <4>1. AskFor(u, o, "disable", 0) /\ "disable" \in BoxOps
        BY <3>3 DEF ClickDisable, BoxOps
      <4>2. QED
        BY <2>2, <3>1, <4>1, AskSteps
    <3>4. CASE ClickArchive(u, o)
      <4>1. PICK op \in {"archive", "unarchive"} : AskFor(u, o, op, 0)
        BY <3>4 DEF ClickArchive
      <4>2. op \in BoxOps /\ op # "set" /\ o \in WorkflowOwners
        BY <3>4 DEF BoxOps, ClickArchive
      <4>3. QED
        BY <2>2, <3>1, <4>1, <4>2, AskSteps
    <3>5. QED
      BY <2>2, <3>2, <3>3, <3>4
  <2>3. ASSUME BoxInvariant, NEW u \in BoxUsers, NEW o \in Owners, NEW a \in Locals, SaveAddress(u, o, a)
        PROVE  BoxInvariant'
    <3>1. AskFor(u, o, "set", a) /\ "set" \in BoxOps
      BY <2>3 DEF SaveAddress, BoxOps
    <3>2. QED
      BY <2>3, <3>1, AskSteps
  <2>4. ASSUME BoxInvariant, NEW u \in BoxUsers, BoxRequestOver(u) PROVE BoxInvariant'
    <3>1. boxRpc' = [boxRpc EXCEPT ![u] = NoBoxRpc] /\ UNCHANGED <<boxes, boxCache, overtook, boxActs>>
      BY <2>4 DEF BoxRequestOver
    <3>2. CallsSound' /\ boxRpc' = [v \in BoxUsers |-> boxRpc'[v]]
      BY <2>4, <3>1, RpcMoves
    <3>3. QED
      BY <2>4, <3>1, <3>2 DEF BoxInvariant, BoxShapes
  <2>5. ASSUME BoxInvariant, NEW u \in BoxUsers, BoxesLand(u) PROVE BoxInvariant'
    <3>1. boxCache' = [boxCache EXCEPT ![u] = boxes] /\ UNCHANGED <<boxes, boxRpc, overtook, boxActs>>
      BY <2>5 DEF BoxesLand
    <3>2. BoxShapes'
      BY <2>5, <3>1 DEF BoxInvariant, BoxShapes
    <3>3. QED
      BY <2>5, <3>1, <3>2 DEF BoxInvariant, CallsSound, Refused, InUse, AddressesApart
  <2>6. QED
    BY <2>1, <2>2, <2>3, <2>4, <2>5, RouteReadSteps, RouteCommitSteps DEF BoxNext
<1>3. QED
  BY <1>1, <1>2, PTL DEF BoxSpec

\* Mail to the address of an open mailbox goes to that mailbox and no other, as long as
\* no route committed over rows that had changed since it looked (mailboxes.py, the inbox
\* routes, _resolve_mailbox of routers/mail.py).
THEOREM MailFindsItsBox == BoxSpec => []MailReachesItsBox
<1>1. ASSUME BoxInvariant PROVE MailReachesItsBox
  <2> SUFFICES ASSUME ~overtook, NEW o \in Owners
               PROVE  /\ Open(o) => Takers(boxes[o].address) = {o}
                      /\ boxes[o].enabled = (boxes[o].address # 0)
    BY DEF MailReachesItsBox
  <2>1. AddressesApart(boxes)
    BY <1>1 DEF BoxInvariant
  <2>2. boxes[o].enabled = (boxes[o].address # 0)
    BY <2>1 DEF AddressesApart
  <2>3. ASSUME Open(o) PROVE Takers(boxes[o].address) = {o}
    <3>1. boxes[o].address # 0
      BY <2>2, <2>3 DEF Open
    <3>2. \A q \in Owners : boxes[q].address = boxes[o].address => q = o
      BY <2>1, <3>1 DEF AddressesApart
    <3>3. CASE o \in PolicyOwners
      BY <2>3, <3>2, <3>3 DEF Takers, Owners
    <3>4. CASE o \in WorkflowOwners
      <4>1. o \notin PolicyOwners
        BY <3>4, BoxBounds
      <4>2. QED
        BY <2>3, <3>2, <3>4, <4>1 DEF Takers, Owners
    <3>5. QED
      BY <3>3, <3>4 DEF Owners
  <2>4. QED
    BY <2>2, <2>3
<1>2. QED
  BY <1>1, BoxInvariantHolds, PTL

\* Every variable of the mailboxes has its type: no policy is ever archived, and only a
\* request for an address names one.
THEOREM BoxTypes == BoxSpec => []BoxTypeOK
<1>1. ASSUME BoxInvariant PROVE BoxTypeOK
  <2>1. ASSUME NEW u \in BoxUsers
        PROVE  boxRpc[u] = NoBoxRpc \/
                 /\ boxRpc[u].op \in BoxOps /\ boxRpc[u].owner \in Owners
                 /\ boxRpc[u].pc \in {"sent", "read", "done"} /\ boxRpc[u].seen \in [Owners -> BoxRow]
                 /\ (boxRpc[u].op = "set") = (boxRpc[u].local \in Locals)
    BY <1>1, TheCall DEF BoxCall
  <2>2. QED
    BY <1>1, <2>1 DEF BoxInvariant, BoxShapes, BoxTypeOK
<1>2. QED
  BY <1>1, BoxInvariantHolds, PTL
-----------------------------------------------------------------------------
(* The settings of a node.                                                 *)

\* What a walk finds is closed, and in every closed set.
LEMMA WalkedIsLeast ==
  ASSUME NEW w, NEW n, NEW through
  PROVE  /\ Walk(w, n, through) \subseteq Givers(w)
         /\ ClosedAbove(w, n, Walk(w, n, through), through)
         /\ \A found \in SUBSET Givers(w) :
               ClosedAbove(w, n, found, through) => Walk(w, n, through) \subseteq found
<1> DEFINE least == Walk(w, n, through)
<1>1. ASSUME NEW e \in w, e[2] \in {n} \cup (least \cap through) PROVE e[1] \in least
  <2>1. e[1] \in Givers(w)
    BY DEF Givers
  <2>2. ASSUME NEW found \in SUBSET Givers(w), ClosedAbove(w, n, found, through)
        PROVE  e[1] \in found
    <3>1. least \subseteq found
      BY <2>2 DEF Walk
    <3>2. e[2] \in {n} \cup (found \cap through)
      BY <1>1, <3>1
    <3>3. QED
      BY <2>2, <3>2 DEF ClosedAbove
  <2>3. QED
    BY <2>1, <2>2 DEF Walk
<1>2. ClosedAbove(w, n, least, through)
  BY <1>1 DEF ClosedAbove
<1>3. QED
  BY <1>2 DEF Walk

\* More wires, and more nodes to go on from, lose nothing.
LEMMA WalkedGrows ==
  ASSUME NEW w, NEW v, NEW n, NEW through, NEW beyond, w \subseteq v, through \subseteq beyond
  PROVE  Walk(w, n, through) \subseteq Walk(v, n, beyond)
<1> DEFINE far == Walk(v, n, beyond)
           near == far \cap Givers(w)
<1>1. ClosedAbove(v, n, far, beyond)
  BY WalkedIsLeast
<1> HIDE DEF far
<1>2. ClosedAbove(w, n, near, through)
  <2> SUFFICES ASSUME NEW e \in w, e[2] \in {n} \cup (near \cap through) PROVE e[1] \in near
    BY DEF ClosedAbove
  <2>1. e[1] \in far
    BY <1>1 DEF ClosedAbove
  <2>2. e[1] \in Givers(w)
    BY DEF Givers
  <2>3. QED
    BY <2>1, <2>2
<1>3. near \in SUBSET Givers(w)
  OBVIOUS
<1>4. Walk(w, n, through) \subseteq near
  BY <1>2, <1>3, WalkedIsLeast
<1>5. QED
  BY <1>4 DEF far

\* The walk from a node finds its parents, and what the walks from those it goes on from
\* find.
LEMMA WalkedByStep ==
  ASSUME NEW w, NEW n, NEW through
  PROVE  Walk(w, n, through) =
            {e[1] : e \in {d \in w : d[2] = n}}
            \cup UNION {Walk(w, e[1], through) : e \in {d \in w : d[2] = n /\ d[1] \in through}}
<1> DEFINE least == Walk(w, n, through)
           mine == {e \in w : e[2] = n}
           onward == {d \in w : d[2] = n /\ d[1] \in through}
           steps == {e[1] : e \in mine} \cup UNION {Walk(w, e[1], through) : e \in onward}
<1>1. ClosedAbove(w, n, least, through) /\ least \subseteq Givers(w)
  BY WalkedIsLeast
<1>2. ASSUME NEW q \in least, q \in through PROVE Walk(w, q, through) \subseteq least
  <2>1. ClosedAbove(w, q, least, through)
    <3> HIDE DEF least
    <3>1. QED
      BY <1>1, <1>2 DEF ClosedAbove
  <2> HIDE DEF least
  <2>2. QED
    BY <1>1, <2>1, WalkedIsLeast
<1>3. steps \subseteq least
  <2> HIDE DEF least
  <2>1. \A e \in mine : e[1] \in least
    BY <1>1 DEF ClosedAbove
  <2>2. \A e \in onward : Walk(w, e[1], through) \subseteq least
    BY <1>2, <2>1
  <2>3. QED
    BY <2>1, <2>2
<1>4. steps \in SUBSET Givers(w)
  BY <1>1, <1>3
<1>5. ClosedAbove(w, n, steps, through)
  <2> SUFFICES ASSUME NEW e \in w, e[2] \in {n} \cup (steps \cap through) PROVE e[1] \in steps
    BY DEF ClosedAbove
  <2>1. CASE e[2] = n
    BY <2>1
  <2>2. CASE e[2] \in through /\ \E d \in mine : e[2] = d[1]
    <3>1. PICK d \in mine : e[2] = d[1]
      BY <2>2
    <3>2. d \in onward
      BY <2>2, <3>1
    <3>3. ClosedAbove(w, d[1], Walk(w, d[1], through), through)
      BY WalkedIsLeast
    <3>4. e[1] \in Walk(w, d[1], through)
      BY <3>1, <3>3 DEF ClosedAbove
    <3>5. QED
      BY <3>2, <3>4
  <2>3. CASE e[2] \in through /\ \E d \in onward : e[2] \in Walk(w, d[1], through)
    <3>1. PICK d \in onward : e[2] \in Walk(w, d[1], through)
      BY <2>3
    <3>2. ClosedAbove(w, d[1], Walk(w, d[1], through), through)
      BY WalkedIsLeast
    <3>3. e[1] \in Walk(w, d[1], through)
      BY <2>3, <3>1, <3>2 DEF ClosedAbove
    <3>4. QED
      BY <3>1, <3>3
  <2>4. QED
    BY <2>1, <2>2, <2>3
<1> HIDE DEF steps
<1>6. least \subseteq steps
  BY <1>4, <1>5, WalkedIsLeast
<1>7. steps = least
  BY <1>3, <1>6
<1>8. QED
  BY <1>7 DEF steps

-----------------------------------------------------------------------------
\* What the data of a node are when f are those of the others, and w the edges they
\* come down.
Above(w, m) == {e[1] : e \in {d \in w : d[2] = m}}
Fed(w, f, m) == {"documents"} \cup UNION {Output(KindOf[p], f[p]) : p \in Above(w, m)}
IsFed(w, f) == f = [m \in placed |-> Fed(w, f, m)]
PassesOn == {p \in placed : KindOf[p] \in Passing}
Between(w) == \A e \in w : e[1] \in placed /\ e[2] \in placed

\* There are data that feed each other: every node has what the nodes above it add, up
\* to those that drop what they are given.
LEMMA DataExist ==
  ASSUME NEW w, Between(w)
  PROVE  \E f : IsFed(w, f)
<1> DEFINE Found(m) == Walk(w, m, PassesOn)
           f == [m \in placed |-> {"documents"} \cup UNION {Adds(KindOf[p]) : p \in Found(m)}]
<1>1. ASSUME NEW m \in placed PROVE f[m] = Fed(w, f, m)
  <2> DEFINE above == Above(w, m)
  <2>1. Found(m) = above \cup UNION {Found(q) : q \in above \cap PassesOn}
    <3> DEFINE mine == {e \in w : e[2] = m}
               onward == {e \in w : e[2] = m /\ e[1] \in PassesOn}
    <3>1. above = {e[1] : e \in mine}
      BY DEF Above
    <3>2. {Walk(w, e[1], PassesOn) : e \in onward}
             = {Walk(w, q, PassesOn) : q \in above \cap PassesOn}
      <4>1. \A e \in onward : e[1] \in above \cap PassesOn
        BY <3>1
      <4>2. \A q \in above \cap PassesOn : \E e \in onward : e[1] = q
        BY <3>1
      <4> HIDE DEF onward, above
      <4>3. QED
        BY <4>1, <4>2
    <3>3. Walk(w, m, PassesOn)
            = {e[1] : e \in mine} \cup UNION {Walk(w, e[1], PassesOn) : e \in onward}
      BY WalkedByStep
    <3>4. QED
      BY <3>1, <3>2, <3>3
  <2>0. above \subseteq placed
    BY DEF Above, Between
  <2> HIDE DEF Found
  <2>2. \A q \in above : Output(KindOf[q], f[q]) = Adds(KindOf[q]) \cup (IF q \in PassesOn THEN f[q] ELSE {})
    BY <2>0 DEF Output, PassesOn
  <2>3. \A q \in above : f[q] = {"documents"} \cup UNION {Adds(KindOf[p]) : p \in Found(q)}
    BY <2>0
  <2>4. Fed(w, f, m) = {"documents"} \cup UNION {Output(KindOf[q], f[q]) : q \in above}
    BY DEF Fed
  <2>5. f[m] = {"documents"} \cup UNION {Adds(KindOf[p]) : p \in Found(m)}
    OBVIOUS
  <2> HIDE DEF f, above
  <2>6. ASSUME NEW x \in f[m] PROVE x \in Fed(w, f, m)
    <3>1. CASE x = "documents"
      BY <2>4, <3>1
    <3>2. CASE \E p \in above : x \in Adds(KindOf[p])
      BY <2>2, <2>4, <3>2
    <3>3. CASE \E q \in above \cap PassesOn : \E p \in Found(q) : x \in Adds(KindOf[p])
      <4>1. PICK q \in above \cap PassesOn : \E p \in Found(q) : x \in Adds(KindOf[p])
        BY <3>3
      <4>2. x \in f[q]
        BY <2>3, <4>1
      <4>3. x \in Output(KindOf[q], f[q])
        BY <2>2, <4>1, <4>2
      <4>4. QED
        BY <2>4, <4>1, <4>3
    <3>4. QED
      BY <2>1, <2>5, <2>6, <3>1, <3>2, <3>3
  <2>7. ASSUME NEW x \in Fed(w, f, m) PROVE x \in f[m]
    <3>1. CASE x = "documents"
      BY <2>5, <3>1
    <3>2. CASE \E q \in above : x \in Output(KindOf[q], f[q])
      <4>1. PICK q \in above : x \in Output(KindOf[q], f[q])
        BY <3>2
      <4>2. q \in Found(m)
        BY <2>1, <4>1
      <4>3. CASE x \in Adds(KindOf[q])
        BY <2>5, <4>2, <4>3
      <4>4. CASE q \in PassesOn /\ x \in f[q]
        <5>1. Found(q) \subseteq Found(m)
          BY <2>1, <4>1, <4>4
        <5>2. QED
          BY <2>3, <2>5, <4>1, <4>4, <5>1
      <4>5. QED
        BY <2>2, <4>1, <4>3, <4>4
    <3>3. QED
      BY <2>4, <2>7, <3>1, <3>2
  <2>8. QED
    BY <2>6, <2>7
<1> DEFINE g == [m \in placed |-> Fed(w, f, m)]
<1>2. f = g
  <2>1. \A m \in placed : f[m] = g[m]
    BY <1>1
  <2>2. QED
    BY <2>1
<1>3. IsFed(w, f)
  BY <1>2 DEF IsFed
<1>4. QED
  BY <1>3

\* The data a node is handed are such data.
LEMMA HandedIsFed ==
  ASSUME NEW w, Between(w), NEW n
  PROVE  \E f : IsFed(w, f) /\ MergedInputs(w, n) = f[n]
<1> DEFINE h == CHOOSE f : IsFed(w, f)
<1>1. IsFed(w, h)
  BY DataExist
<1>2. MergedInputs(w, n) = h[n]
  BY DEF MergedInputs, IsFed, Fed, Above
<1>3. QED
  BY <1>1, <1>2

\* They have what every node adds that a walk through the nodes that pass their data on
\* finds.
LEMMA HandedHasWhatReaches ==
  ASSUME NEW w, Between(w), NEW n \in placed, NEW p \in Walk(w, n, PassesOn)
  PROVE  Adds(KindOf[p]) \subseteq MergedInputs(w, n)
<1>1. PICK f : IsFed(w, f) /\ MergedInputs(w, n) = f[n]
  BY HandedIsFed
<1> DEFINE S == {q \in Givers(w) : Adds(KindOf[q]) \subseteq f[n] /\ (q \in PassesOn => f[q] \subseteq f[n])}
<1>2. ASSUME NEW e \in w PROVE Output(KindOf[e[1]], f[e[1]]) \subseteq f[e[2]]
  <2>1. e[1] \in Above(w, e[2]) /\ e[2] \in placed
    BY DEF Above, Between
  <2>2. f[e[2]] = Fed(w, f, e[2])
    BY <1>1, <2>1 DEF IsFed
  <2>3. QED
    BY <2>1, <2>2 DEF Fed
<1>3. ClosedAbove(w, n, S, PassesOn)
  <2> SUFFICES ASSUME NEW e \in w, e[2] \in {n} \cup (S \cap PassesOn) PROVE e[1] \in S
    BY DEF ClosedAbove
  <2>1. f[e[2]] \subseteq f[n]
    OBVIOUS
  <2>2. Output(KindOf[e[1]], f[e[1]]) \subseteq f[n]
    BY <1>2, <2>1
  <2>3. e[1] \in Givers(w)
    BY DEF Givers
  <2>4. QED
    BY <2>2, <2>3 DEF Output, PassesOn
<1>4. S \in SUBSET Givers(w)
  OBVIOUS
<1>5. p \in S
  <2> HIDE DEF S
  <2>1. QED
    BY <1>3, <1>4, WalkedIsLeast
<1>6. QED
  BY <1>1, <1>5

-----------------------------------------------------------------------------
\* The canvas: the text of a node names what it was offered.
WiringShapes ==
  /\ placed \subseteq Cards /\ wires \subseteq placed \X placed \X {"", "true", "false"}
  /\ deselected \subseteq Deselects /\ cut \in BOOLEAN
  /\ texts = [n \in Cards |-> texts[n]]
  /\ \A n \in Cards : texts[n] # {} => n \in placed /\ HasText(KindOf[n])
TextsWereOffered == ~cut => \A n \in Cards : texts[n] \subseteq Offered(n)

\* The condition: the simple mode tests the verdict for being one.
ConditionShapes ==
  /\ cond = [mode |-> cond.mode, field |-> cond.field, op |-> cond.op, value |-> cond.value]
  /\ cond.mode \in {"verdict", "custom"} /\ cond.value \in Values \cup Overalls
  /\ cond.mode = "verdict" => cond.field = "overall" /\ cond.op = "eq"

\* The gate: the names beside it are names its types had, and are the present ones unless
\* a type was renamed; a panel that alone has set it has every type of it in its list.
GateNamesItsTypes ==
  /\ docTypes \subseteq DocTypes /\ unmade \subseteq DocTypes \ docTypes
  /\ typeName \in [DocTypes -> TypeNames]
  /\ listedTypes = [p \in Panels |-> listedTypes[p]]
  /\ \A p \in Panels : /\ DOMAIN listedTypes[p] \subseteq DocTypes \ unmade
                       /\ \A d \in DOMAIN listedTypes[p] \ renamed : listedTypes[p][d] = typeName[d]
  /\ gate.ids \subseteq DocTypes \ unmade /\ DOMAIN gate.names \subseteq gate.ids
  /\ \A d \in DOMAIN gate.names \ renamed : gate.names[d] = typeName[d]
  /\ setters \subseteq Panels /\ (setters = {} => gate.ids = {})
  /\ \A p \in Panels : setters \subseteq {p} => gate.ids \cap docTypes \subseteq DOMAIN listedTypes[p]
  /\ \A p \in Panels : setters \subseteq {p} => gate.ids \cap docTypes \subseteq DOMAIN gate.names

\* The run: its step ran with the rules its policy had then, and the results are of those.
RanWithItsRules ==
  /\ picked \in Policies /\ ruleName \in [AllRules -> RuleNames]
  /\ ran = [state |-> ran.state, policy |-> ran.policy, names |-> ran.names,
            verdict |-> ran.verdict, results |-> ran.results]
  /\ ran.state \in {"none", "running", "done"}
  /\ ran.state = "running" => ran.policy \in Policies /\ ran.names = [r \in RulesOf[ran.policy] |-> ran.names[r]]
  /\ \/ ran.results = <<>>
     \/ /\ ran.policy \in Policies /\ ran.names = [r \in RulesOf[ran.policy] |-> ran.names[r]]
        /\ ran.verdict \in [RulesOf[ran.policy] -> {"pass", "fail"}]
        /\ ran.results = OnePerName(ran.verdict)

NodePanelInvariant ==
  WiringShapes /\ TextsWereOffered /\ ConditionShapes /\ GateNamesItsTypes /\ RanWithItsRules

\* Nothing is offered less when nodes and edges are added.
LEMMA OfferedGrows ==
  ASSUME placed \subseteq placed', wires \subseteq wires', NEW n
  PROVE  Offered(n) \subseteq Offered(n)'
<1>1. Walk(wires, n, placed) \subseteq Walk(wires', n, placed')
  BY WalkedGrows
<1>2. QED
  BY <1>1 DEF Offered, Upstream

\* The panel starts so.
LEMMA NodePanelStarts == ASSUME NodePanelInit PROVE NodePanelInvariant
<1>1. WiringShapes /\ TextsWereOffered
  BY DEF NodePanelInit, WiringInit, WiringShapes, TextsWereOffered
<1>2. ConditionShapes
  BY DEF NodePanelInit, ConditionInit, ConditionShapes, Overalls
<1>3. GateNamesItsTypes
  <2>1. /\ docTypes = {} /\ unmade = DocTypes /\ renamed = {} /\ typeName \in [DocTypes -> TypeNames]
        /\ gate.ids = {} /\ gate.names = <<>> /\ setters = {}
        /\ listedTypes = [p \in Panels |-> [d \in {} |-> typeName[d]]]
    BY DEF NodePanelInit, GateInit, LibraryNow
  <2>2. DOMAIN gate.names = {}
    BY <2>1
  <2>3. QED
    BY <2>1, <2>2 DEF GateNamesItsTypes
<1>4. RanWithItsRules
  BY DEF NodePanelInit, RulesInit, RanWithItsRules, NoRun
<1>5. QED
  BY <1>1, <1>2, <1>3, <1>4 DEF NodePanelInvariant

\* What a part says is about its own variables.
LEMMA PartsApart ==
  /\ UNCHANGED wiringVars => (WiringShapes => WiringShapes') /\ (TextsWereOffered => TextsWereOffered')
  /\ UNCHANGED conditionVars => (ConditionShapes => ConditionShapes')
  /\ UNCHANGED gateVars => (GateNamesItsTypes => GateNamesItsTypes')
  /\ UNCHANGED rulesVars => (RanWithItsRules => RanWithItsRules')
<1>1. ASSUME UNCHANGED wiringVars PROVE (WiringShapes => WiringShapes') /\ (TextsWereOffered => TextsWereOffered')
  BY <1>1 DEF wiringVars, WiringShapes, TextsWereOffered, Offered, Upstream
<1>2. ASSUME UNCHANGED conditionVars PROVE ConditionShapes => ConditionShapes'
  BY <1>2 DEF conditionVars, ConditionShapes
<1>3. ASSUME UNCHANGED gateVars PROVE GateNamesItsTypes => GateNamesItsTypes'
  BY <1>3 DEF gateVars, GateNamesItsTypes
<1>4. ASSUME UNCHANGED rulesVars PROVE RanWithItsRules => RanWithItsRules'
  BY <1>4 DEF rulesVars, RanWithItsRules, OnePerName
<1>5. QED
  BY <1>1, <1>2, <1>3, <1>4

\* The canvas is edited.
LEMMA WiringSteps ==
  ASSUME WiringShapes, TextsWereOffered, WiringNext
  PROVE  WiringShapes' /\ TextsWereOffered' /\ UNCHANGED <<conditionVars, gateVars, rulesVars>>
<1>1. ASSUME NEW n \in Cards, DropNode(n)
      PROVE  WiringShapes' /\ TextsWereOffered' /\ UNCHANGED <<conditionVars, gateVars, rulesVars>>
  <2>1. placed' = placed \cup {n} /\ wires' = wires /\ texts' = texts /\ cut' = cut
        /\ deselected' \subseteq Deselects /\ UNCHANGED <<conditionVars, gateVars, rulesVars>>
    BY <1>1 DEF DropNode, WiringShapes
  <2>2. \A m : Offered(m) \subseteq Offered(m)'
    BY <2>1, OfferedGrows
  <2>3. WiringShapes'
    BY <2>1 DEF WiringShapes
  <2>4. TextsWereOffered'
    BY <2>1, <2>2 DEF TextsWereOffered
  <2>5. QED
    BY <2>1, <2>3, <2>4
<1>2. ASSUME NEW n \in Cards, DeleteNode(n)
      PROVE  WiringShapes' /\ TextsWereOffered' /\ UNCHANGED <<conditionVars, gateVars, rulesVars>>
  <2>1. /\ placed' = placed \ {n} /\ wires' = {e \in wires : n \notin {e[1], e[2]}}
        /\ texts' = [texts EXCEPT ![n] = {}] /\ cut' = (cut \/ TextElsewhere(n))
        /\ deselected' = deselected /\ UNCHANGED <<conditionVars, gateVars, rulesVars>>
    BY <1>2 DEF DeleteNode
  <2>2. texts' = [m \in Cards |-> IF m = n THEN {} ELSE texts[m]]
    BY <2>1 DEF WiringShapes
  <2>3. \A m \in Cards : texts'[m] = IF m = n THEN {} ELSE texts[m]
    BY <2>2
  <2>4. texts' = [m \in Cards |-> texts'[m]]
    BY <2>2
  <2>5. wires' \subseteq placed' \X placed' \X {"", "true", "false"}
    BY <2>1 DEF WiringShapes
  <2>6. WiringShapes'
    BY <2>1, <2>3, <2>4, <2>5 DEF WiringShapes
  <2>7. TextsWereOffered'
    BY <2>1, <2>3 DEF TextsWereOffered, TextElsewhere
  <2>8. QED
    BY <2>1, <2>6, <2>7
<1>3. ASSUME NEW p \in Cards, NEW n \in Cards, NEW h, Connect(p, n, h)
      PROVE  WiringShapes' /\ TextsWereOffered' /\ UNCHANGED <<conditionVars, gateVars, rulesVars>>
  <2>1. /\ {p, n} \subseteq placed /\ wires' = wires \cup {<<p, n, h>>} /\ h \in {"", "true", "false"}
        /\ UNCHANGED <<placed, deselected, texts, cut, conditionVars, gateVars, rulesVars>>
    BY <1>3 DEF Connect, Handles
  <2>2. \A m : Offered(m) \subseteq Offered(m)'
    BY <2>1, OfferedGrows
  <2>3. WiringShapes'
    <3>1. <<p, n, h>> \in placed \X placed \X {"", "true", "false"}
      BY <2>1
    <3>2. wires' \subseteq placed' \X placed' \X {"", "true", "false"}
      BY <2>1, <3>1 DEF WiringShapes
    <3>3. QED
      BY <2>1, <3>2 DEF WiringShapes
  <2>4. TextsWereOffered'
    BY <2>1, <2>2 DEF TextsWereOffered
  <2>5. QED
    BY <2>1, <2>3, <2>4
<1>4. ASSUME NEW e \in wires, Disconnect(e)
      PROVE  WiringShapes' /\ TextsWereOffered' /\ UNCHANGED <<conditionVars, gateVars, rulesVars>>
  <2>1. /\ wires' = wires \ {e} /\ cut' = (cut \/ \E m \in Cards : texts[m] # {})
        /\ UNCHANGED <<placed, deselected, texts, conditionVars, gateVars, rulesVars>>
    BY <1>4 DEF Disconnect
  <2>2. QED
    BY <2>1 DEF WiringShapes, TextsWereOffered
<1>5. ASSUME NEW n \in Cards, NEW f \in Deselects, ToggleField(n, f)
      PROVE  WiringShapes' /\ TextsWereOffered' /\ UNCHANGED <<conditionVars, gateVars, rulesVars>>
  <2>1. /\ deselected' \subseteq Deselects
        /\ UNCHANGED <<placed, wires, texts, cut, conditionVars, gateVars, rulesVars>>
    BY <1>5 DEF ToggleField, WiringShapes
  <2>2. \A m : Offered(m)' = Offered(m)
    BY <2>1 DEF Offered, Upstream
  <2>3. WiringShapes'
    BY <2>1 DEF WiringShapes
  <2>4. TextsWereOffered'
    BY <2>1, <2>2 DEF TextsWereOffered
  <2>5. QED
    BY <2>1, <2>3, <2>4
<1>6. ASSUME NEW n \in Cards, NEW v \in Offered(n), InsertVar(n, v)
      PROVE  WiringShapes' /\ TextsWereOffered' /\ UNCHANGED <<conditionVars, gateVars, rulesVars>>
  <2>1. /\ n \in placed /\ HasText(KindOf[n]) /\ texts' = [texts EXCEPT ![n] = @ \cup {v}]
        /\ UNCHANGED <<placed, wires, deselected, cut, conditionVars, gateVars, rulesVars>>
    BY <1>6 DEF InsertVar
  <2>2. texts' = [m \in Cards |-> IF m = n THEN texts[n] \cup {v} ELSE texts[m]]
    BY <2>1 DEF WiringShapes
  <2>3. \A m \in Cards : texts'[m] = IF m = n THEN texts[n] \cup {v} ELSE texts[m]
    BY <2>2
  <2>4. texts' = [m \in Cards |-> texts'[m]]
    BY <2>2
  <2>5. \A m : Offered(m)' = Offered(m)
    BY <2>1 DEF Offered, Upstream
  <2>6. WiringShapes'
    BY <2>1, <2>3, <2>4 DEF WiringShapes
  <2>7. TextsWereOffered'
    BY <2>1, <2>3, <2>5 DEF TextsWereOffered
  <2>8. QED
    BY <2>1, <2>6, <2>7
<1>7. QED
  BY <1>1, <1>2, <1>3, <1>4, <1>5, <1>6 DEF WiringNext

\* The condition is set.
LEMMA ConditionSteps ==
  ASSUME ConditionShapes, ConditionNext
  PROVE  ConditionShapes' /\ UNCHANGED <<wiringVars, gateVars, rulesVars>>
<1>1. PICK m, f, o, v : cond = [mode |-> m, field |-> f, op |-> o, value |-> v]
  BY DEF ConditionShapes
<1>2. /\ m \in {"verdict", "custom"} /\ v \in Values \cup Overalls
      /\ m = "verdict" => f = "overall" /\ o = "eq"
  BY <1>1 DEF ConditionShapes
<1>3. ASSUME NEW w \in Overalls, ChooseVerdict(w)
      PROVE  ConditionShapes' /\ UNCHANGED <<wiringVars, gateVars, rulesVars>>
  BY <1>3 DEF ChooseVerdict, ConditionShapes
<1>4. ASSUME EditCustom PROVE ConditionShapes' /\ UNCHANGED <<wiringVars, gateVars, rulesVars>>
  <2>1. m = "custom"
    BY <1>1, <1>2, <1>4 DEF EditCustom, IsCustom
  <2>2. ASSUME NEW x, cond' = [cond EXCEPT !.field = x] PROVE ConditionShapes'
    <3>1. cond' = [mode |-> m, field |-> x, op |-> o, value |-> v]
      BY <1>1, <2>2
    <3>2. QED
      BY <1>2, <2>1, <3>1 DEF ConditionShapes
  <2>3. ASSUME NEW x, cond' = [cond EXCEPT !.op = x] PROVE ConditionShapes'
    <3>1. cond' = [mode |-> m, field |-> f, op |-> x, value |-> v]
      BY <1>1, <2>3
    <3>2. QED
      BY <1>2, <2>1, <3>1 DEF ConditionShapes
  <2>4. ASSUME NEW x \in Values, cond' = [cond EXCEPT !.value = x] PROVE ConditionShapes'
    <3>1. cond' = [mode |-> m, field |-> f, op |-> o, value |-> x]
      BY <1>1, <2>4
    <3>2. QED
      BY <1>2, <2>1, <3>1 DEF ConditionShapes
  <2>5. QED
    BY <1>4, <2>2, <2>3, <2>4 DEF EditCustom
<1>5. ASSUME ToggleAdvanced PROVE ConditionShapes' /\ UNCHANGED <<wiringVars, gateVars, rulesVars>>
  <2>1. CASE IsCustom
    <3>1. cond' = [mode |-> "verdict", field |-> "overall", op |-> "eq", value |-> IF v = "" THEN "fail" ELSE v]
      BY <1>1, <1>5, <2>1 DEF ToggleAdvanced, Simple
    <3>2. (IF v = "" THEN "fail" ELSE v) \in Values \cup Overalls
      BY <1>2 DEF Overalls
    <3>3. ConditionShapes'
      BY <3>1, <3>2 DEF ConditionShapes
    <3>4. QED
      BY <1>5, <3>3 DEF ToggleAdvanced
  <2>2. CASE ~IsCustom
    <3>1. cond' = [mode |-> "custom", field |-> f, op |-> o, value |-> v]
      BY <1>1, <1>5, <2>2 DEF ToggleAdvanced
    <3>2. QED
      BY <1>2, <1>5, <3>1 DEF ConditionShapes, ToggleAdvanced
  <2>3. QED
    BY <2>1, <2>2
<1>6. QED
  BY <1>3, <1>4, <1>5 DEF ConditionNext

\* The library changes, and a panel fetches it.
LEMMA LibrarySteps ==
  ASSUME GateNamesItsTypes,
         \/ \E d \in DocTypes : CreateType(d) \/ DeleteType(d)
         \/ \E d \in DocTypes, x \in TypeNames : RenameType(d, x)
         \/ \E p \in Panels : TypesRefetched(p)
  PROVE  GateNamesItsTypes' /\ UNCHANGED <<wiringVars, conditionVars, rulesVars>>
<1>1. ASSUME NEW d \in DocTypes, CreateType(d)
      PROVE  GateNamesItsTypes' /\ UNCHANGED <<wiringVars, conditionVars, rulesVars>>
  <2>1. /\ d \in unmade /\ docTypes' = docTypes \cup {d} /\ unmade' = unmade \ {d}
        /\ UNCHANGED <<typeName, renamed, listedTypes, gate, setters, wiringVars, conditionVars, rulesVars>>
    BY <1>1 DEF CreateType
  <2>2. d \notin gate.ids
    BY <2>1 DEF GateNamesItsTypes
  <2>3. QED
    BY <2>1, <2>2 DEF GateNamesItsTypes
<1>2. ASSUME NEW d \in DocTypes, DeleteType(d)
      PROVE  GateNamesItsTypes' /\ UNCHANGED <<wiringVars, conditionVars, rulesVars>>
  BY <1>2 DEF DeleteType, GateNamesItsTypes
<1>3. ASSUME NEW d \in DocTypes, NEW x \in TypeNames, RenameType(d, x)
      PROVE  GateNamesItsTypes' /\ UNCHANGED <<wiringVars, conditionVars, rulesVars>>
  <2>1. /\ typeName' = [typeName EXCEPT ![d] = x] /\ renamed' = renamed \cup {d}
        /\ UNCHANGED <<docTypes, unmade, listedTypes, gate, setters, wiringVars, conditionVars, rulesVars>>
    BY <1>3 DEF RenameType
  <2>2. /\ typeName' \in [DocTypes -> TypeNames]
        /\ \A y \in DocTypes : y \notin renamed' => typeName'[y] = typeName[y]
    BY <2>1 DEF GateNamesItsTypes
  <2>3. QED
    BY <2>1, <2>2 DEF GateNamesItsTypes
<1>4. ASSUME NEW p \in Panels, TypesRefetched(p)
      PROVE  GateNamesItsTypes' /\ UNCHANGED <<wiringVars, conditionVars, rulesVars>>
  <2>1. /\ listedTypes' = [listedTypes EXCEPT ![p] = LibraryNow]
        /\ UNCHANGED <<docTypes, unmade, typeName, renamed, gate, setters, wiringVars, conditionVars, rulesVars>>
    BY <1>4 DEF TypesRefetched
  <2>2. DOMAIN LibraryNow = docTypes /\ \A y \in docTypes : LibraryNow[y] = typeName[y]
    BY DEF LibraryNow
  <2>3. /\ listedTypes' = [q \in Panels |-> listedTypes'[q]]
        /\ listedTypes'[p] = LibraryNow /\ \A q \in Panels \ {p} : listedTypes'[q] = listedTypes[q]
    BY <2>1 DEF GateNamesItsTypes
  <2>4. /\ DOMAIN listedTypes'[p] = docTypes
        /\ \A y \in docTypes : listedTypes'[p][y] = typeName[y]
    BY <2>2, <2>3
  <2>5. QED
    BY <2>1, <2>3, <2>4 DEF GateNamesItsTypes
<1>5. QED
  BY <1>1, <1>2, <1>3, <1>4

\* A panel sets the gate.
LEMMA ToggleSteps ==
  ASSUME GateNamesItsTypes, NEW p \in Panels, NEW d \in DocTypes, ToggleType(p, d)
  PROVE  GateNamesItsTypes' /\ UNCHANGED <<wiringVars, conditionVars, rulesVars>>
<1> DEFINE ids == IF d \in gate.ids THEN gate.ids \ {d} ELSE gate.ids \cup {d}
           listed == listedTypes[p]
<1>1. /\ d \in DOMAIN listed /\ gate' = [ids |-> ids, names |-> NamesOf(ids, listed)]
      /\ setters' = setters \cup {p}
      /\ UNCHANGED <<docTypes, unmade, typeName, renamed, listedTypes, wiringVars, conditionVars, rulesVars>>
  BY DEF ToggleType
<1>2. ids \subseteq gate.ids \cup {d} /\ d \in DocTypes \ unmade
  BY <1>1 DEF GateNamesItsTypes
<1> HIDE DEF ids
<1>3. gate'.ids = ids /\ DOMAIN gate'.names = ids \cap DOMAIN listed
      /\ \A y \in ids \cap DOMAIN listed : gate'.names[y] = listed[y]
  BY <1>1 DEF NamesOf
<1>4. ASSUME NEW q \in Panels, setters' \subseteq {q}
      PROVE  ids \cap docTypes \subseteq DOMAIN listed /\ q = p
  <2>1. q = p /\ setters \subseteq {p}
    BY <1>1, <1>4
  <2>2. gate.ids \cap docTypes \subseteq DOMAIN listed
    BY <2>1 DEF GateNamesItsTypes
  <2>3. QED
    BY <1>1, <1>2, <2>1, <2>2
<1>5. GateNamesItsTypes'
  <2>1. gate'.ids \subseteq DocTypes \ unmade
    BY <1>2, <1>3 DEF GateNamesItsTypes
  <2>2. \A y \in DOMAIN gate'.names \ renamed : gate'.names[y] = typeName[y]
    BY <1>3 DEF GateNamesItsTypes
  <2>3. setters' \subseteq Panels /\ setters' # {}
    BY <1>1 DEF GateNamesItsTypes
  <2>4. \A q \in Panels : setters' \subseteq {q} =>
           /\ gate'.ids \cap docTypes \subseteq DOMAIN listedTypes[q]
           /\ gate'.ids \cap docTypes \subseteq DOMAIN gate'.names
    BY <1>3, <1>4
  <2>5. QED
    BY <1>1, <1>3, <2>1, <2>2, <2>3, <2>4 DEF GateNamesItsTypes
<1>6. QED
  BY <1>1, <1>5

\* The gate is set, and the library changes.
LEMMA GateSteps ==
  ASSUME GateNamesItsTypes, GateNext
  PROVE  GateNamesItsTypes' /\ UNCHANGED <<wiringVars, conditionVars, rulesVars>>
BY LibrarySteps, ToggleSteps DEF GateNext

\* A policy is picked, a rule renamed, the step runs.
LEMMA RulesSteps ==
  ASSUME RanWithItsRules, RulesNext
  PROVE  RanWithItsRules' /\ UNCHANGED <<wiringVars, conditionVars, gateVars>>
<1>1. ASSUME NEW p \in Policies, PickPolicy(p)
      PROVE  RanWithItsRules' /\ UNCHANGED <<wiringVars, conditionVars, gateVars>>
  BY <1>1 DEF PickPolicy, RanWithItsRules, OnePerName
<1>2. ASSUME NEW r \in AllRules, NEW x \in RuleNames, RenameRule(r, x)
      PROVE  RanWithItsRules' /\ UNCHANGED <<wiringVars, conditionVars, gateVars>>
  <2>1. ruleName' \in [AllRules -> RuleNames] /\ picked' = picked /\ ran' = ran
    BY <1>2 DEF RenameRule, RanWithItsRules
  <2>2. OnePerName(ran.verdict)' = OnePerName(ran.verdict)
    BY <2>1 DEF OnePerName
  <2>3. RanWithItsRules'
    BY <2>1, <2>2 DEF RanWithItsRules
  <2>4. QED
    BY <1>2, <2>3 DEF RenameRule
<1>3. ASSUME StepStarts
      PROVE  RanWithItsRules' /\ UNCHANGED <<wiringVars, conditionVars, gateVars>>
  <2>1. ran' = [state |-> "running", policy |-> picked, names |-> [r \in RulesOf[picked] |-> ruleName[r]],
                verdict |-> <<>>, results |-> <<>>]
    BY <1>3 DEF StepStarts, NoRun
  <2>2. UNCHANGED <<picked, ruleName, wiringVars, conditionVars, gateVars>>
    BY <1>3 DEF StepStarts
  <2>3. /\ ran' = [state |-> ran'.state, policy |-> ran'.policy, names |-> ran'.names,
                   verdict |-> ran'.verdict, results |-> ran'.results]
        /\ ran'.state = "running" /\ ran'.policy = picked /\ ran'.results = <<>>
        /\ ran'.names = [r \in RulesOf[picked] |-> ran'.names[r]]
    BY <2>1
  <2>4. RanWithItsRules'
    BY <2>2, <2>3 DEF RanWithItsRules
  <2>5. QED
    BY <2>2, <2>4
<1>4. PICK s, p, n, v, o : ran = [state |-> s, policy |-> p, names |-> n, verdict |-> v, results |-> o]
  BY DEF RanWithItsRules
<1>5. ASSUME StepEnds
      PROVE  RanWithItsRules' /\ UNCHANGED <<wiringVars, conditionVars, gateVars>>
  <2>1. ran.state = "running" /\ UNCHANGED <<picked, ruleName, wiringVars, conditionVars, gateVars>>
    BY <1>5 DEF StepEnds
  <2>2. PICK verdict \in [RulesOf[ran.policy] -> {"pass", "fail"}] :
             ran' = [ran EXCEPT !.state = "done", !.verdict = verdict, !.results = OnePerName(verdict)]
    BY <1>5 DEF StepEnds
  <2>3. ran' = [state |-> "done", policy |-> p, names |-> n, verdict |-> verdict, results |-> OnePerName(verdict)]
    BY <1>4, <2>2
  <2>4. ran.policy = p /\ ran.names = n /\ ran'.policy = p /\ ran'.names = n /\ ran'.verdict = verdict
        /\ ran'.results = OnePerName(verdict) /\ ran'.state = "done"
    BY <1>4, <2>3
  <2>5. OnePerName(ran.verdict)' = OnePerName(verdict)
    BY <2>4 DEF OnePerName
  <2>6. p \in Policies /\ n = [r \in RulesOf[p] |-> n[r]]
    BY <2>1, <2>4 DEF RanWithItsRules
  <2>7. QED
    BY <2>1, <2>2, <2>3, <2>4, <2>5, <2>6 DEF RanWithItsRules
<1>6. ASSUME StepFails
      PROVE  RanWithItsRules' /\ UNCHANGED <<wiringVars, conditionVars, gateVars>>
  <2>1. ran' = [state |-> "done", policy |-> p, names |-> n, verdict |-> v, results |-> o]
    BY <1>4, <1>6 DEF StepFails
  <2>2. OnePerName(ran.verdict)' = OnePerName(ran.verdict)
    BY <1>4, <2>1 DEF OnePerName
  <2>3. /\ ran'.policy = ran.policy /\ ran'.names = ran.names /\ ran'.verdict = ran.verdict
        /\ ran'.results = ran.results /\ ran'.state = "done"
        /\ ran' = [state |-> ran'.state, policy |-> ran'.policy, names |-> ran'.names,
                   verdict |-> ran'.verdict, results |-> ran'.results]
    BY <1>4, <2>1
  <2>4. UNCHANGED <<picked, ruleName, wiringVars, conditionVars, gateVars>>
    BY <1>6 DEF StepFails
  <2>5. QED
    BY <2>2, <2>3, <2>4 DEF RanWithItsRules
<1>7. QED
  BY <1>1, <1>2, <1>3, <1>5, <1>6 DEF RulesNext

\* The invariant of the settings holds.
LEMMA NodePanelInvariantHolds == NodePanelSpec => []NodePanelInvariant
<1>1. NodePanelInit => NodePanelInvariant
  BY NodePanelStarts
<1>2. NodePanelInvariant /\ [NodePanelNext]_nodePanelVars => NodePanelInvariant'
  <2> SUFFICES ASSUME NodePanelInvariant, [NodePanelNext]_nodePanelVars PROVE NodePanelInvariant'
    OBVIOUS
  <2> USE DEF NodePanelInvariant
  <2>1. CASE UNCHANGED nodePanelVars
    BY <2>1, PartsApart DEF nodePanelVars
  <2>2. CASE WiringNext
    BY <2>2, WiringSteps, PartsApart
  <2>3. CASE ConditionNext
    BY <2>3, ConditionSteps, PartsApart
  <2>4. CASE GateNext
    BY <2>4, GateSteps, PartsApart
  <2>5. CASE RulesNext
    BY <2>5, RulesSteps, PartsApart
  <2>6. QED
    BY <2>1, <2>2, <2>3, <2>4, <2>5 DEF NodePanelNext
<1>3. QED
  BY <1>1, <1>2, PTL DEF NodePanelSpec

\* A variable that a chip put into a text is in the data the text is rendered with, on any
\* canvas without a cycle, through any edits that add to it and whichever branches the
\* conditions of the run take, unless every node that offers it gives it to no run, or this
\* run does not bring it down: pruned, skipped, or dropped on the way (NodeConfigPanel.tsx,
\* getUpstreamVarGroups, against advance_run and the handlers that merge their input into
\* their output).
THEOREM ChipsResolve == NodePanelSpec => []InsertedResolves
<1>1. ASSUME NodePanelInvariant PROVE InsertedResolves
  <2> SUFFICES ASSUME ~cut, NEW n \in placed, NEW v \in texts[n], NEW branch \in Branches, ~Lost(n, v, branch)
               PROVE  v \in Handed(n, branch)
    BY DEF InsertedResolves
  <2>1. wires \subseteq placed \X placed \X {"", "true", "false"} /\ n \in Cards /\ v \in Offered(n)
    BY <1>1 DEF NodePanelInvariant, WiringShapes, TextsWereOffered
  <2>2. \E p \in Upstream(n) : v \in Offers(KindOf[p])
    BY <2>1 DEF Offered
  <2>3. PICK p \in Upstream(n) : /\ v \in Offers(KindOf[p])
                                 /\ KindOf[p] # "input" /\ v \notin deselected
                                 /\ p \in Walk(Carried(branch), n, {q \in placed : KindOf[q] \in Passing})
    BY <2>2 DEF Lost
  <2>4. p \in Walk(Carried(branch), n, PassesOn)
    BY <2>3 DEF PassesOn
  <2>5. Between(Carried(branch))
    BY <2>1 DEF Between, Carried, Live
  <2>6. Adds(KindOf[p]) \subseteq Handed(n, branch)
    BY <2>4, <2>5, HandedHasWhatReaches DEF Handed
  <2>7. v \in Adds(KindOf[p])
    BY <2>3 DEF Offers, Adds
  <2>8. QED
    BY <2>6, <2>7
<1>2. QED
  BY <1>1, NodePanelInvariantHolds, PTL

\* The card of a condition in its simple mode names the verdict the Yes path is taken for.
\* The card of a gate names only what it waits for, by its name unless that was changed, and
\* a gate set in one panel names every type it waits for that there is, whatever was created,
\* renamed and deleted in the library (ConditionNode, CompletenessGateNode and their panels;
\* condition.py and completeness_gate.py).
THEOREM CardsAreTrue == NodePanelSpec => []CardsSayWhatRuns
<1>1. ASSUME NodePanelInvariant PROVE CardsSayWhatRuns
  <2>1. ASSUME ~IsCustom, cond.value \in Overalls, NEW o \in Overalls PROVE Evaluate(o) <=> o = CardVerdict
    <3>1. cond.op = "eq" /\ cond.field = "overall"
      BY <1>1, <2>1 DEF NodePanelInvariant, ConditionShapes, IsCustom
    <3>2. Evaluate(o) <=> o = cond.value
      BY <3>1 DEF Evaluate
    <3>3. cond.value = CardVerdict
      BY <2>1 DEF CardVerdict, Overalls
    <3>4. QED
      BY <3>2, <3>3
  <2>2. /\ DOMAIN gate.names \subseteq gate.ids /\ setters \subseteq Panels
        /\ \A d \in DOMAIN gate.names \ renamed : gate.names[d] = typeName[d]
    BY <1>1 DEF NodePanelInvariant, GateNamesItsTypes
  <2>3. ASSUME Cardinality(setters) = 1 PROVE gate.ids \cap docTypes \subseteq DOMAIN gate.names
    <3>1. \E p \in Panels : setters \subseteq {p}
      <4>1. CASE IsFiniteSet(setters)
        <5>1. PICK p : setters = {p}
          BY <2>3, <4>1, FS_Singleton
        <5>2. QED
          BY <2>2, <5>1
      <4>2. QED
        BY <2>2, <4>1, FS_Subset, NodePanelAssumption
    <3>2. QED
      BY <1>1, <3>1 DEF NodePanelInvariant, GateNamesItsTypes
  <2>4. ASSUME Cardinality(setters) = 1, gate.ids \subseteq docTypes PROVE CardCount = Cardinality(gate.ids)
    <3>1. DOMAIN gate.names = gate.ids
      BY <2>2, <2>3, <2>4
    <3>2. QED
      BY <3>1 DEF CardCount
  <2>5. QED
    BY <2>1, <2>2, <2>3, <2>4 DEF CardsSayWhatRuns
<1>2. QED
  BY <1>1, NodePanelInvariantHolds, PTL

\* The verdict shown beside a rule is that rule's, whatever was renamed and whichever
\* policy was picked since the run, unless another rule had its present name in the run
\* (resultsByName of NodeConfigPanel.tsx and ValidateDocumentsNode.tsx).
THEOREM RulesShowTheirOwn == NodePanelSpec => []RuleShowsItsOwn
<1>1. ASSUME NodePanelInvariant PROVE RuleShowsItsOwn
  <2> SUFFICES ASSUME NEW r \in RulesOf[picked], StatusOf(r) \notin {"pending", "running"},
                      \A s \in DOMAIN ran.names \ {r} : ran.names[s] # ruleName[r]
               PROVE  r \in DOMAIN ran.verdict /\ StatusOf(r) = ran.verdict[r]
    BY DEF RuleShowsItsOwn
  <2>1. ruleName[r] \in DOMAIN ran.results /\ StatusOf(r) = ran.results[ruleName[r]]
    BY DEF StatusOf, ResultOf
  <2>2. ran.results # <<>>
    <3>1. DOMAIN <<>> = {}
      OBVIOUS
    <3>2. QED
      BY <2>1, <3>1
  <2>3. /\ ran.names = [s \in RulesOf[ran.policy] |-> ran.names[s]]
        /\ ran.verdict \in [RulesOf[ran.policy] -> {"pass", "fail"}]
        /\ ran.results = OnePerName(ran.verdict)
    BY <1>1, <2>2 DEF NodePanelInvariant, RanWithItsRules
  <2>4. DOMAIN ran.names = RulesOf[ran.policy] /\ DOMAIN ran.verdict = RulesOf[ran.policy]
    BY <2>3
  <2>5. ruleName[r] \in {ran.names[s] : s \in RulesOf[ran.policy]}
    BY <2>1, <2>3 DEF OnePerName
  <2>6. r \in RulesOf[ran.policy] /\ ran.names[r] = ruleName[r]
    BY <2>4, <2>5
  <2>7. (CHOOSE s \in RulesOf[ran.policy] : ran.names[s] = ruleName[r]) = r
    BY <2>4, <2>6
  <2>8. OnePerName(ran.verdict)[ruleName[r]]
           = ran.verdict[CHOOSE s \in RulesOf[ran.policy] : ran.names[s] = ruleName[r]]
    BY <2>5 DEF OnePerName
  <2>9. ran.results[ruleName[r]] = ran.verdict[r]
    BY <2>3, <2>7, <2>8
  <2>10. QED
    BY <2>1, <2>4, <2>6, <2>9
<1>2. QED
  BY <1>1, NodePanelInvariantHolds, PTL

\* Every variable of the settings has its type: only a node that has a text names
\* variables in one.
THEOREM NodePanelTypes == NodePanelSpec => []NodePanelTypeOK
<1>1. ASSUME NodePanelInvariant PROVE NodePanelTypeOK
  BY <1>1 DEF NodePanelInvariant, WiringShapes, ConditionShapes, GateNamesItsTypes, RanWithItsRules, NodePanelTypeOK
<1>2. QED
  BY <1>1, NodePanelInvariantHolds, PTL

-----------------------------------------------------------------------------
(* The browser that has all these pages.                                   *)

editorVars == <<reviewVars, workflowVars, policyVars, boxVars, nodePanelVars, scene>>

\* A step of one scene is a step of its module, and one the others do not see.
LEMMA EditorsSteps ==
  ASSUME [EditorsNext]_editorVars
  PROVE  /\ [ReviewNext]_reviewVars /\ [WorkflowNext]_workflowVars /\ [PolicyNext]_policyVars
         /\ [BoxNext]_boxVars /\ [NodePanelNext]_nodePanelVars
<1>1. CASE EditorsNext
  BY <1>1 DEF EditorsNext, NodePanelNext
<1>2. CASE UNCHANGED editorVars
  BY <1>2 DEF editorVars
<1>3. QED
  BY <1>1, <1>2

\* Whatever is proved of an editor by itself holds in the browser: each behaviour of the
\* browser is, to the variables of a module, a behaviour of that module.
LEMMA EditorsHaveTheirPages ==
  EditorsSpec => ReviewSpec /\ WorkflowSpec /\ PolicySpec /\ BoxSpec /\ NodePanelSpec
<1>1. EditorsInit => ReviewInit /\ WorkflowInit /\ PolicyInit /\ BoxInit /\ NodePanelInit
  BY DEF EditorsInit, NodePanelInit
<1>2. [EditorsNext]_editorVars =>
         /\ [ReviewNext]_reviewVars /\ [WorkflowNext]_workflowVars /\ [PolicyNext]_policyVars
         /\ [BoxNext]_boxVars /\ [NodePanelNext]_nodePanelVars
  BY EditorsSteps
<1>3. QED
  BY <1>1, <1>2, PTL DEF EditorsSpec, editorVars, ReviewSpec, WorkflowSpec, PolicySpec, BoxSpec, NodePanelSpec

\* The types of the editors, in any scene of the browser that has them all.
THEOREM EditorsTypes == EditorsSpec => []EditorsTypesOK
<1>1. (ReviewTypeOK /\ WorkflowTypeOK /\ PolicyTypeOK /\ BoxTypeOK /\ NodePanelTypeOK) => EditorsTypesOK
  BY DEF EditorsTypesOK
<1>2. QED
  BY <1>1, EditorsHaveTheirPages, ReviewTypes, WorkflowTypes, PolicyTypes, BoxTypes, NodePanelTypes, PTL
=============================================================================

----------------------------- MODULE AccountProof -----------------------------
(***************************************************************************)
(* Proofs about the user's own account and the other users', for any tabs, *)
(* credentials, administrators, guests and invitations: the second factor  *)
(* (Account), the session (Session) and the invitations (BackOffice).      *)
(***************************************************************************)
EXTENDS Session, Account, BackOffice, DataLemmas, FiniteSetTheorems

-----------------------------------------------------------------------------
(* The session: the types, the promise a tab keeps, the loading screen.    *)

Requests == [pc : {"idle", "sent", "waiting"}, tok : 0 .. MaxPairs, retried : BOOLEAN,
             on : Slots \cup {"none"}]
Exchanges == [pc : {"none", "asked", "found", "answered", "refused"}, tok : 0 .. MaxPairs,
              new : 0 .. MaxPairs]
AuthStates == [user : BOOLEAN, loading : BOOLEAN]
Forms == {"credentials", "posted", "mfa", "verifying", "loading"}

\* The requests q, the kept promise i and the exchanges c of a tab: the one exchange is
\* the promise's, and what waits waits for it.
TabShared(q, i, c) ==
    /\ q \in [Slots -> Requests] /\ i \in Slots \cup {"none"} /\ c \in [Slots -> Exchanges]
    /\ \A s \in Slots : c[s].pc # "none" => c[s].tok # 0
    /\ \A s \in Slots : c[s].pc # "none" <=> i = s
    /\ \A s \in Slots : q[s].pc = "waiting" => q[s].on = i /\ i # "none"
    /\ i # "none" => q[i].pc = "waiting"

PlainShapes ==
    /\ live \subseteq Pairs /\ fresh \subseteq Pairs /\ issued \in 0 .. MaxPairs
    /\ access \in 0 .. MaxPairs /\ refresh \in 0 .. MaxPairs
    /\ goodbyes \subseteq Pairs /\ calm \in BOOLEAN /\ moves \in 0 .. MaxMoves

TabsOfMaps ==
    /\ req = [t \in Tabs |-> req[t]] /\ inflight = [t \in Tabs |-> inflight[t]]
    /\ call = [t \in Tabs |-> call[t]]
    /\ auth \in [Tabs -> AuthStates] /\ form \in [Tabs -> Forms]

SessionInvariant ==
    /\ PlainShapes /\ TabsOfMaps
    /\ \A t \in Tabs : TabShared(req[t], inflight[t], call[t])
    /\ LoadingIsAwaited

\* The names of the slots.
LEMMA SlotFacts == "me" \in Slots /\ "none" \notin Slots
BY SessionAssumption DEF Slots

\* Nothing under way.
LEMMA BlankFacts ==
  /\ NoReq \in Requests /\ NoCall \in Exchanges
  /\ NoReq.pc = "idle" /\ NoReq.tok = 0 /\ NoReq.on = "none" /\ NoReq.retried = FALSE
  /\ NoCall.pc = "none" /\ NoCall.tok = 0 /\ NoCall.new = 0
BY SessionAssumption DEF NoReq, NoCall, Requests, Exchanges

\* A tab gets the requests q, the promise i, the exchanges c, the state a and the form f.
TabBecomes(t, q, i, c, a, f) ==
    /\ a \in AuthStates /\ f \in Forms /\ TabShared(q, i, c)
    /\ a.loading => q["me"].pc # "idle"
    /\ req' = [req EXCEPT ![t] = q] /\ inflight' = [inflight EXCEPT ![t] = i]
    /\ call' = [call EXCEPT ![t] = c]
    /\ auth' = [auth EXCEPT ![t] = a] /\ form' = [form EXCEPT ![t] = f]

\* One tab moves, the others stay as they are.
LEMMA TabMoves ==
  ASSUME SessionInvariant, NEW t \in Tabs, NEW q, NEW i, NEW c, NEW a, NEW f,
         TabBecomes(t, q, i, c, a, f), PlainShapes'
  PROVE  SessionInvariant'
<1> USE DEF TabBecomes
<1>1. TabsOfMaps
  BY DEF SessionInvariant
<1>2. TabsOfMaps'
  BY <1>1 DEF TabsOfMaps
<1>3. \A u \in Tabs : /\ req'[u] = IF u = t THEN q ELSE req[u]
                      /\ inflight'[u] = IF u = t THEN i ELSE inflight[u]
                      /\ call'[u] = IF u = t THEN c ELSE call[u]
                      /\ auth'[u] = IF u = t THEN a ELSE auth[u]
  BY <1>1 DEF TabsOfMaps
<1>4. \A u \in Tabs : TabShared(req'[u], inflight'[u], call'[u])
  BY <1>3 DEF SessionInvariant
<1>5. \A u \in Tabs : TabShared(req[u], inflight[u], call[u])'
  BY <1>4 DEF TabShared
<1>6. LoadingIsAwaited'
  BY <1>3 DEF SessionInvariant, LoadingIsAwaited
<1>7. QED
  BY <1>2, <1>5, <1>6 DEF SessionInvariant

\* No tab moves.
LEMMA NobodyMoves ==
  ASSUME SessionInvariant, UNCHANGED <<tabVars, netVars>>, PlainShapes'
  PROVE  SessionInvariant'
BY DEF SessionInvariant, tabVars, netVars, TabsOfMaps, TabShared, LoadingIsAwaited

\* What a tab has as it is.
LEMMA TabAsItIs ==
  ASSUME SessionInvariant, NEW t \in Tabs
  PROVE  /\ req = [req EXCEPT ![t] = req[t]] /\ inflight = [inflight EXCEPT ![t] = inflight[t]]
         /\ call = [call EXCEPT ![t] = call[t]] /\ auth = [auth EXCEPT ![t] = auth[t]]
         /\ form = [form EXCEPT ![t] = form[t]]
         /\ auth[t] \in AuthStates /\ form[t] \in Forms
         /\ TabShared(req[t], inflight[t], call[t])
         /\ auth[t].loading => req[t]["me"].pc # "idle"
BY DEF SessionInvariant, TabsOfMaps, LoadingIsAwaited

\* The user and the form change alone.
LEMMA FormStep ==
  ASSUME SessionInvariant, NEW t \in Tabs, NEW a \in AuthStates, NEW f \in Forms,
         a.loading => req[t]["me"].pc # "idle",
         auth' = [auth EXCEPT ![t] = a], form' = [form EXCEPT ![t] = f], UNCHANGED netVars, PlainShapes'
  PROVE  SessionInvariant'
<1>1. /\ req' = [req EXCEPT ![t] = req[t]] /\ inflight' = [inflight EXCEPT ![t] = inflight[t]]
      /\ call' = [call EXCEPT ![t] = call[t]]
  BY TabAsItIs DEF netVars
<1>2. QED
  BY <1>1, TabAsItIs, TabMoves DEF TabBecomes

\* A request in a slot that does not wait becomes another that does not.
LEMMA RequestMoves ==
  ASSUME NEW q, NEW i, NEW c, TabShared(q, i, c), NEW s \in Slots, NEW r \in Requests,
         q[s].pc # "waiting", r.pc # "waiting"
  PROVE  TabShared([q EXCEPT ![s] = r], i, c)
<1>1. \A x \in Slots : [q EXCEPT ![s] = r][x] = IF x = s THEN r ELSE q[x]
  BY DEF TabShared
<1>2. [q EXCEPT ![s] = r] \in [Slots -> Requests]
  BY DEF TabShared
<1>3. i # s
  BY SlotFacts DEF TabShared
<1>4. QED
  BY <1>1, <1>2, <1>3 DEF TabShared

\* A tab that was just loaded.
LEMMA FreshTab ==
  ASSUME NEW token \in 0 .. MaxPairs
  PROVE  /\ TabShared(Mounted(token), "none", [s \in Slots |-> NoCall]) /\ Loaded(token) \in AuthStates
         /\ Loaded(token).loading => Mounted(token)["me"].pc # "idle"
<1>1. \A s \in Slots : Mounted(token)[s] \in Requests /\ Mounted(token)[s].pc \in {"idle", "sent"}
  <2>1. [NoReq EXCEPT !.pc = "sent", !.tok = token] \in Requests
    BY BlankFacts DEF Requests
  <2>2. [NoReq EXCEPT !.pc = "sent", !.tok = token].pc = "sent"
    BY BlankFacts DEF NoReq
  <2>3. QED
    BY <2>1, <2>2, BlankFacts DEF Mounted
<1>2. Mounted(token) \in [Slots -> Requests]
  BY <1>1 DEF Mounted
<1>3. TabShared(Mounted(token), "none", [s \in Slots |-> NoCall])
  BY <1>1, <1>2, BlankFacts, SlotFacts DEF TabShared
<1>4. Loaded(token) \in AuthStates
  BY DEF Loaded, AuthStates
<1>5. token # 0 => Mounted(token)["me"].pc = "sent"
  BY SlotFacts, BlankFacts DEF Mounted, NoReq
<1>6. QED
  BY <1>3, <1>4, <1>5 DEF Loaded

\* The end of the requests ss.
LEMMA SettleFacts ==
  ASSUME SessionInvariant, NEW t \in Tabs, NEW ss, NEW good \in BOOLEAN, Settle(t, ss, good)
  PROVE  \E a \in AuthStates, f \in Forms :
           /\ auth' = [auth EXCEPT ![t] = a] /\ form' = [form EXCEPT ![t] = f]
           /\ a.loading => "me" \notin ss /\ a = auth[t]
<1>1. CASE "me" \in ss
  <2> DEFINE a == [user |-> good, loading |-> FALSE]
             f == IF form[t] = "loading" THEN "credentials" ELSE form[t]
  <2>1. a \in AuthStates /\ ~a.loading /\ f \in Forms
    BY TabAsItIs DEF AuthStates, Forms
  <2>2. auth' = [auth EXCEPT ![t] = a] /\ form' = [form EXCEPT ![t] = f]
    BY <1>1 DEF Settle
  <2> HIDE DEF a, f
  <2>3. QED
    BY <2>1, <2>2
<1>2. CASE "me" \notin ss
  <2>1. auth' = auth /\ form' = form
    BY <1>2 DEF Settle
  <2>2. QED
    BY <1>2, <2>1, TabAsItIs
<1>3. QED
  BY <1>1, <1>2

\* The login form, the sign-outs, the page loads.
LEMMA TabStepKept ==
  ASSUME SessionInvariant, NEW t \in Tabs,
         TabStep(t) \/ \E s \in Queries[t] : Send(t, s)
  PROVE  SessionInvariant'
<1>a. PlainShapes /\ TabShared(req[t], inflight[t], call[t]) /\ auth[t] \in AuthStates /\ form[t] \in Forms
      /\ (auth[t].loading => req[t]["me"].pc # "idle") /\ MaxPairs \in Nat /\ MaxMoves \in Nat
  BY TabAsItIs, SessionAssumption DEF SessionInvariant
<1>b. issued < MaxPairs => issued + 1 \in Pairs /\ issued + 1 \in 0 .. MaxPairs
  BY <1>a DEF PlainShapes, Pairs
<1>c. moves < MaxMoves => moves + 1 \in 0 .. MaxMoves
  BY <1>a DEF PlainShapes
<1>d. {refresh} \ {0} \subseteq Pairs
  BY <1>a DEF PlainShapes, Pairs
<1>e. [user |-> FALSE, loading |-> FALSE] \in AuthStates /\ ~[user |-> FALSE, loading |-> FALSE].loading
  BY DEF AuthStates
<1>1. CASE SafetyTimer(t)
  <2>1. PlainShapes'
    BY <1>1, <1>a DEF SafetyTimer, PlainShapes, serverVars, storageVars
  <2>2. auth' = [auth EXCEPT ![t] = [user |-> FALSE, loading |-> FALSE]] /\ form' = [form EXCEPT ![t] = form[t]]
        /\ UNCHANGED netVars
    BY <1>1, TabAsItIs DEF SafetyTimer
  <2>3. QED
    BY <1>a, <1>e, <2>1, <2>2, FormStep
<1>2. CASE SubmitCredentials(t) \/ SubmitCode(t) \/ BackToCredentials(t) \/ LoginRefused(t)
  <2>1. PlainShapes'
    BY <1>2, <1>a DEF SubmitCredentials, SubmitCode, BackToCredentials, LoginRefused, PlainShapes,
       serverVars, storageVars
  <2>2. PICK f \in Forms : form' = [form EXCEPT ![t] = f]
    BY <1>2 DEF SubmitCredentials, SubmitCode, BackToCredentials, LoginRefused, Forms
  <2>3. auth' = [auth EXCEPT ![t] = auth[t]] /\ UNCHANGED netVars
    BY <1>2, TabAsItIs DEF SubmitCredentials, SubmitCode, BackToCredentials, LoginRefused
  <2>4. QED
    BY <1>a, <2>1, <2>2, <2>3, FormStep
<1>3. ASSUME NEW s \in Slots, NEW r \in Requests, r.pc = "sent", NEW f \in Forms,
             req[t][s].pc = "idle", req' = [req EXCEPT ![t][s] = r], form' = [form EXCEPT ![t] = f],
             UNCHANGED <<auth, inflight, call>>, PlainShapes'
      PROVE  SessionInvariant'
  <2> DEFINE q == [req[t] EXCEPT ![s] = r]
  <2>1. TabShared(q, inflight[t], call[t])
    BY <1>a, <1>3, RequestMoves
  <2>2. q["me"].pc # req[t]["me"].pc => q["me"].pc = "sent"
    BY <1>a, <1>3 DEF TabShared
  <2>3. req' = [req EXCEPT ![t] = q]
    BY <1>3
  <2>4. /\ inflight' = [inflight EXCEPT ![t] = inflight[t]] /\ call' = [call EXCEPT ![t] = call[t]]
        /\ auth' = [auth EXCEPT ![t] = auth[t]]
    BY <1>3, TabAsItIs
  <2> HIDE DEF q
  <2>5. auth[t].loading => q["me"].pc # "idle"
    BY <1>a, <2>2
  <2>6. QED
    <3>1. TabBecomes(t, q, inflight[t], call[t], auth[t], f)
      BY <1>3, <1>a, <2>1, <2>3, <2>4, <2>5 DEF TabBecomes
    <3>2. QED
      BY <1>3, <3>1, TabMoves
<1>f. ASSUME NEW n \in 0 .. MaxPairs
      PROVE  [NoReq EXCEPT !.pc = "sent", !.tok = n] \in Requests
             /\ [NoReq EXCEPT !.pc = "sent", !.tok = n].pc = "sent"
  BY BlankFacts DEF Requests, NoReq
<1>4. CASE LoginAccepted(t)
  <2>1. /\ req' = [req EXCEPT ![t]["me"] = [NoReq EXCEPT !.pc = "sent", !.tok = issued + 1]]
        /\ form' = [form EXCEPT ![t] = "loading"] /\ UNCHANGED <<auth, inflight, call>>
        /\ req[t]["me"].pc = "idle" /\ issued < MaxPairs /\ "loading" \in Forms
    BY <1>4 DEF LoginAccepted, Issue, Forms
  <2>2. PlainShapes'
    BY <1>4, <1>a, <1>b, <2>1 DEF LoginAccepted, Issue, PlainShapes
  <2>3. QED
    BY <1>3, <1>b, <1>f, <2>1, <2>2, SlotFacts
<1>5. ASSUME NEW s \in Slots, req[t][s].pc = "idle",
             req' = [req EXCEPT ![t][s] = [NoReq EXCEPT !.pc = "sent", !.tok = access]],
             UNCHANGED <<serverVars, storageVars, tabVars, inflight, call, goodbyes, calm, moves>>
      PROVE  SessionInvariant'
  <2>1. PlainShapes' /\ access \in 0 .. MaxPairs
    BY <1>5, <1>a DEF PlainShapes, serverVars, storageVars
  <2>2. form' = [form EXCEPT ![t] = form[t]] /\ UNCHANGED <<auth, inflight, call>>
    BY <1>5, TabAsItIs DEF tabVars
  <2>3. QED
    BY <1>3, <1>5, <1>a, <1>f, <2>1, <2>2
<1>6. CASE Refetch(t) \/ \E s \in Queries[t] : Send(t, s)
  <2>1. Queries[t] \subseteq Slots
    BY DEF Slots
  <2>2. QED
    BY <1>5, <1>6, <2>1, SlotFacts DEF Refetch, Send
<1>7. CASE Logout(t) \/ SignOutEverywhere(t)
  <2>1. /\ live' \subseteq Pairs /\ fresh' = fresh /\ issued' = issued
        /\ goodbyes' = goodbyes \cup ({refresh} \ {0}) /\ access' = 0 /\ refresh' = 0 /\ calm' = FALSE
        /\ moves < MaxMoves /\ moves' = moves + 1
    BY <1>7, <1>a DEF Logout, SignOutEverywhere, Move, PlainShapes, serverVars
  <2>2. PlainShapes'
    <3>1. /\ live' \subseteq Pairs /\ fresh' \subseteq Pairs /\ issued' \in 0 .. MaxPairs
          /\ goodbyes' \subseteq Pairs
      BY <1>a, <1>d, <2>1 DEF PlainShapes
    <3>2. access' \in 0 .. MaxPairs /\ refresh' \in 0 .. MaxPairs /\ moves' \in 0 .. MaxMoves
      BY <1>a, <1>c, <2>1
    <3>3. calm' \in BOOLEAN
      BY <2>1
    <3>4. QED
      BY <3>1, <3>2, <3>3 DEF PlainShapes
  <2>3. /\ auth' = [auth EXCEPT ![t] = [user |-> FALSE, loading |-> FALSE]]
        /\ form' = [form EXCEPT ![t] = form[t]] /\ UNCHANGED netVars
    BY <1>7, TabAsItIs DEF Logout, SignOutEverywhere
  <2>4. QED
    BY <1>a, <1>e, <2>2, <2>3, FormStep
<1>8. CASE ChangePassword(t)
  <2>1. PlainShapes' /\ UNCHANGED <<tabVars, netVars>>
    BY <1>8, <1>a, <1>c DEF ChangePassword, Move, PlainShapes, storageVars
  <2>2. QED
    BY <2>1, NobodyMoves
<1>9. CASE InviteAccepted(t) \/ Reload(t)
  <2>1. PICK n \in 0 .. MaxPairs :
          /\ auth' = [auth EXCEPT ![t] = Loaded(n)] /\ req' = [req EXCEPT ![t] = Mounted(n)]
          /\ form' = [form EXCEPT ![t] = "credentials"] /\ inflight' = [inflight EXCEPT ![t] = "none"]
          /\ call' = [call EXCEPT ![t] = [s \in Slots |-> NoCall]]
    <3>1. CASE InviteAccepted(t)
      BY <3>1, <1>b DEF InviteAccepted, Issue
    <3>2. CASE Reload(t)
      BY <3>2, <1>a DEF Reload, PlainShapes
    <3>3. QED
      BY <1>9, <3>1, <3>2
  <2>2. PlainShapes'
    <3>1. CASE InviteAccepted(t)
      BY <3>1, <1>a, <1>b, <1>c DEF InviteAccepted, Issue, Move, PlainShapes
    <3>2. CASE Reload(t)
      <4>1. live' \subseteq Pairs /\ calm' \in BOOLEAN
        BY <3>2, <1>a DEF Reload, PlainShapes
      <4>2. QED
        BY <3>2, <1>a, <1>c, <4>1 DEF Reload, Move, PlainShapes, storageVars
    <3>3. QED
      BY <1>9, <3>1, <3>2
  <2>3. "credentials" \in Forms
    BY DEF Forms
  <2>4. QED
    <3>1. TabBecomes(t, Mounted(n), "none", [s \in Slots |-> NoCall], Loaded(n), "credentials")
      BY <2>1, <2>3, FreshTab DEF TabBecomes
    <3>2. QED
      BY <2>2, <3>1, TabMoves
<1>10. QED
  BY <1>1, <1>2, <1>4, <1>6, <1>7, <1>8, <1>9 DEF TabStep

\* The requests of a tab once the exchange of s is over: none waits for it.
Resumed(t, s, q) ==
    /\ q \in [Slots -> Requests]
    /\ \A w \in Slots :
          \/ q[w] = req[t][w] /\ w \notin Waiters(t, s)
          \/ w \in Waiters(t, s) /\ q[w].pc # "waiting"

\* The requests, and the exchange they share.
LEMMA RequestStepKept ==
  ASSUME SessionInvariant, NEW t \in Tabs, NEW s \in Slots, RequestStep(t, s)
  PROVE  SessionInvariant'
<1>a. PlainShapes /\ TabShared(req[t], inflight[t], call[t]) /\ auth[t] \in AuthStates /\ form[t] \in Forms
      /\ (auth[t].loading => req[t]["me"].pc # "idle") /\ MaxPairs \in Nat
  BY TabAsItIs, SessionAssumption DEF SessionInvariant
<1>b. /\ inflight = [inflight EXCEPT ![t] = inflight[t]] /\ call = [call EXCEPT ![t] = call[t]]
      /\ req = [req EXCEPT ![t] = req[t]]
      /\ auth = [auth EXCEPT ![t] = auth[t]] /\ form = [form EXCEPT ![t] = form[t]]
  BY TabAsItIs
<1>c. req[t] \in [Slots -> Requests] /\ call[t] \in [Slots -> Exchanges] /\ inflight[t] \in Slots \cup {"none"}
  BY <1>a DEF TabShared
\* The request ends.
<1>1. ASSUME req[t][s].pc # "waiting", req' = [req EXCEPT ![t][s] = NoReq], NEW good \in BOOLEAN,
             Settle(t, {s}, good), UNCHANGED <<inflight, call>>, PlainShapes'
      PROVE  SessionInvariant'
  <2> DEFINE q == [req[t] EXCEPT ![s] = NoReq]
  <2>1. TabShared(q, inflight[t], call[t])
    BY <1>a, <1>1, RequestMoves, BlankFacts
  <2>2. PICK a \in AuthStates, f \in Forms :
           /\ auth' = [auth EXCEPT ![t] = a] /\ form' = [form EXCEPT ![t] = f]
           /\ a.loading => "me" \notin {s} /\ a = auth[t]
    BY <1>1, SettleFacts
  <2>3. a.loading => q["me"].pc # "idle"
    <3>1. "me" # s => q["me"] = req[t]["me"]
      BY <1>c, SlotFacts
    <3>2. QED
      BY <1>a, <2>2, <3>1
  <2>4. /\ req' = [req EXCEPT ![t] = q] /\ inflight' = [inflight EXCEPT ![t] = inflight[t]]
        /\ call' = [call EXCEPT ![t] = call[t]]
    BY <1>1, <1>b
  <2> HIDE DEF q
  <2>5. QED
    <3>1. TabBecomes(t, q, inflight[t], call[t], a, f)
      BY <2>1, <2>2, <2>3, <2>4 DEF TabBecomes
    <3>2. QED
      BY <1>1, <3>1, TabMoves
<1>2. CASE Answered(t, s) \/ Failed(t, s)
  <2>1. PlainShapes'
    BY <1>2, <1>a DEF Answered, Failed, PlainShapes, serverVars, storageVars
  <2>2. PICK good \in BOOLEAN : Settle(t, {s}, good)
    BY <1>2 DEF Answered, Failed
  <2>3. /\ req[t][s].pc # "waiting" /\ req' = [req EXCEPT ![t][s] = NoReq] /\ UNCHANGED <<inflight, call>>
    BY <1>2 DEF Answered, Failed
  <2>4. QED
    BY <1>1, <2>1, <2>2, <2>3
<1>3. CASE GiveUpWithoutToken(t, s)
  <2>1. PlainShapes'
    BY <1>3, <1>a DEF GiveUpWithoutToken, PlainShapes, serverVars
  <2>2. /\ Settle(t, {s}, FALSE)
        /\ req[t][s].pc # "waiting" /\ req' = [req EXCEPT ![t][s] = NoReq] /\ UNCHANGED <<inflight, call>>
    BY <1>3 DEF GiveUpWithoutToken, Refused
  <2>3. QED
    BY <1>1, <2>1, <2>2
\* The requests and the exchange change, the user does not.
<1>4. ASSUME NEW q, NEW i, NEW c, TabShared(q, i, c),
             req' = [req EXCEPT ![t] = q], inflight' = [inflight EXCEPT ![t] = i],
             call' = [call EXCEPT ![t] = c], UNCHANGED tabVars, PlainShapes',
             req[t]["me"].pc # "idle" => q["me"].pc # "idle"
      PROVE  SessionInvariant'
  <2>1. auth' = [auth EXCEPT ![t] = auth[t]] /\ form' = [form EXCEPT ![t] = form[t]]
    BY <1>4, <1>b DEF tabVars
  <2>2. auth[t].loading => q["me"].pc # "idle"
    BY <1>4, <1>a
  <2>3. QED
    <3>1. TabBecomes(t, q, i, c, auth[t], form[t])
      BY <1>4, <1>a, <2>1, <2>2 DEF TabBecomes
    <3>2. QED
      BY <1>4, <3>1, TabMoves
<1>5. CASE AwaitRefresh(t, s)
  <2> DEFINE p == Promise(t, s)
             r == [req[t][s] EXCEPT !.pc = "waiting", !.retried = TRUE, !.on = p]
             q == [req[t] EXCEPT ![s] = r]
             x == [pc |-> "asked", tok |-> refresh, new |-> 0]
  <2>1. req[t][s].pc = "sent" /\ inflight[t] # s /\ TokenOrPromise(t)
    <3>1. req[t][s].pc = "sent" /\ TokenOrPromise(t)
      BY <1>5 DEF AwaitRefresh, Refused
    <3>2. QED
      BY <1>a, <3>1, SlotFacts DEF TabShared
  <2>2. p \in Slots
    BY <1>c DEF Promise
  <2>3. r \in Requests /\ r.pc = "waiting" /\ r.on = p
    BY <1>c, <2>2 DEF Requests
  <2>4. q \in [Slots -> Requests] /\ \A y \in Slots : q[y] = IF y = s THEN r ELSE req[t][y]
    BY <1>c, <2>3
  <2>5. req' = [req EXCEPT ![t] = q]
    BY <1>5 DEF AwaitRefresh
  <2>6. PlainShapes' /\ UNCHANGED tabVars
    <3>1. calm' \in BOOLEAN
      BY <1>5, <1>a DEF AwaitRefresh, PlainShapes
    <3>2. QED
      BY <1>5, <1>a, <3>1 DEF AwaitRefresh, PlainShapes, serverVars, storageVars
  <2>7. req[t]["me"].pc # "idle" => q["me"].pc # "idle"
    BY <2>3, <2>4, SlotFacts
  <2> HIDE DEF q, r
  <2>8. CASE inflight[t] = "none"
    <3> DEFINE c == [call[t] EXCEPT ![s] = x]
    <3>1. p = s /\ refresh # 0
      BY <2>1, <2>8 DEF Promise, TokenOrPromise
    <3>2. x \in Exchanges /\ x.pc # "none" /\ x.tok # 0
      BY <1>a, <3>1 DEF PlainShapes, Exchanges
    <3>3. inflight' = [inflight EXCEPT ![t] = s] /\ call' = [call EXCEPT ![t] = c]
      BY <1>5, <3>1 DEF AwaitRefresh
    <3>4. c \in [Slots -> Exchanges] /\ \A y \in Slots : c[y] = IF y = s THEN x ELSE call[t][y]
      BY <1>c, <3>2
    <3> HIDE DEF c, x
    <3>5. \A y \in Slots : call[t][y].pc = "none" /\ req[t][y].pc # "waiting"
      BY <1>a, <2>8, SlotFacts DEF TabShared
    <3>6. TabShared(q, s, c)
      BY <2>3, <2>4, <3>1, <3>2, <3>4, <3>5, SlotFacts DEF TabShared
    <3>7. QED
      BY <1>4, <2>5, <2>6, <2>7, <3>3, <3>6
  <2>9. CASE inflight[t] # "none"
    <3>1. p = inflight[t] /\ p # s
      BY <2>1, <2>9 DEF Promise
    <3>2. inflight' = [inflight EXCEPT ![t] = inflight[t]] /\ call' = [call EXCEPT ![t] = call[t]]
      BY <1>5, <1>b, <3>1 DEF AwaitRefresh
    <3>3. TabShared(q, inflight[t], call[t])
      BY <1>a, <2>3, <2>4, <2>9, <3>1 DEF TabShared
    <3>4. QED
      BY <1>4, <2>5, <2>6, <2>7, <3>2, <3>3
  <2>10. QED
    BY <2>8, <2>9
\* The exchange goes on.
<1>6. ASSUME NEW x \in Exchanges, x.pc # "none", x.tok # 0, call[t][s].pc # "none",
             call' = [call EXCEPT ![t] = [call[t] EXCEPT ![s] = x]],
             UNCHANGED <<req, inflight, tabVars>>, PlainShapes'
      PROVE  SessionInvariant'
  <2> DEFINE c == [call[t] EXCEPT ![s] = x]
  <2>1. c \in [Slots -> Exchanges] /\ \A y \in Slots : c[y] = IF y = s THEN x ELSE call[t][y]
    BY <1>c, <1>6
  <2> HIDE DEF c
  <2>2. TabShared(req[t], inflight[t], c)
    BY <1>a, <1>6, <2>1 DEF TabShared
  <2>3. QED
    BY <1>4, <1>6, <1>b, <2>2 DEF c
<1>7. CASE RefreshRead(t, s)
  <2> DEFINE x == [call[t][s] EXCEPT !.pc = IF call[t][s].tok \in live THEN "found" ELSE "refused"]
  <2>1. call[t][s].pc = "asked" /\ call[t][s].tok # 0
    BY <1>7, <1>a DEF RefreshRead, TabShared
  <2>2. x \in Exchanges /\ x.pc # "none" /\ x.tok # 0
    BY <1>c, <2>1 DEF Exchanges
  <2>3. /\ call' = [call EXCEPT ![t] = [call[t] EXCEPT ![s] = x]] /\ UNCHANGED <<req, inflight, tabVars>>
    BY <1>7 DEF RefreshRead
  <2>4. PlainShapes'
    BY <1>7, <1>a DEF RefreshRead, PlainShapes, serverVars, storageVars
  <2> HIDE DEF x
  <2>5. QED
    BY <1>6, <2>1, <2>2, <2>3, <2>4
<1>8. CASE RefreshCommit(t, s)
  <2> DEFINE x == [call[t][s] EXCEPT !.pc = "answered", !.new = issued + 1]
  <2>1. call[t][s].pc = "found" /\ call[t][s].tok # 0 /\ issued + 1 \in Pairs /\ issued + 1 \in 0 .. MaxPairs
    BY <1>8, <1>a DEF RefreshCommit, TabShared, PlainShapes, Pairs
  <2>2. x \in Exchanges /\ x.pc # "none" /\ x.tok # 0
    BY <1>c, <2>1 DEF Exchanges
  <2>3. /\ call' = [call EXCEPT ![t] = [call[t] EXCEPT ![s] = x]] /\ UNCHANGED <<req, inflight, tabVars>>
    BY <1>8 DEF RefreshCommit
  <2>4. PlainShapes'
    BY <1>8, <1>a, <2>1 DEF RefreshCommit, PlainShapes, storageVars
  <2> HIDE DEF x
  <2>5. QED
    BY <1>6, <2>1, <2>2, <2>3, <2>4
\* The exchange ends: it was the promise's, and everything that waits in the tab waited for it.
<1>9. ASSUME call[t][s].pc # "none", NEW q, Resumed(t, s, q)
      PROVE  TabShared(q, "none", [call[t] EXCEPT ![s] = NoCall])
  <2> DEFINE c == [call[t] EXCEPT ![s] = NoCall]
  <2>1. c \in [Slots -> Exchanges] /\ \A y \in Slots : c[y] = IF y = s THEN NoCall ELSE call[t][y]
    BY <1>c, BlankFacts
  <2>2. inflight[t] = s /\ \A y \in Slots : y # s => call[t][y].pc = "none"
    BY <1>a, <1>9 DEF TabShared
  <2>3. \A w \in Slots : q[w].pc # "waiting"
    BY <1>a, <1>9, <2>2 DEF TabShared, Waiters, Resumed
  <2> HIDE DEF c
  <2>4. QED
    BY <1>9, <2>1, <2>2, <2>3, BlankFacts, SlotFacts DEF TabShared, Resumed, c
<1>10. CASE RefreshStored(t, s)
  <2> DEFINE again(w) == [req[t][w] EXCEPT !.pc = "sent", !.tok = call[t][s].new, !.on = "none"]
             q == [w \in Slots |-> IF w \in Waiters(t, s) THEN again(w) ELSE req[t][w]]
  <2>1. call[t][s].pc = "answered" /\ call[t][s].new \in 0 .. MaxPairs
    BY <1>10, <1>c DEF RefreshStored, Exchanges
  <2>2. ASSUME NEW w \in Slots PROVE again(w) \in Requests /\ again(w).pc = "sent"
    BY <1>c, <2>1 DEF Requests
  <2>3. /\ req' = [req EXCEPT ![t] = q] /\ inflight' = [inflight EXCEPT ![t] = "none"]
        /\ call' = [call EXCEPT ![t] = [call[t] EXCEPT ![s] = NoCall]] /\ UNCHANGED tabVars
    BY <1>10 DEF RefreshStored
  <2> HIDE DEF again
  <2>4. q \in [Slots -> Requests] /\ \A w \in Slots : q[w] = IF w \in Waiters(t, s) THEN again(w) ELSE req[t][w]
    BY <1>c, <2>2
  <2> HIDE DEF q
  <2>5. TabShared(q, "none", [call[t] EXCEPT ![s] = NoCall])
    <3>1. Resumed(t, s, q)
      <4>1. ASSUME NEW w \in Slots
            PROVE  \/ q[w] = req[t][w] /\ w \notin Waiters(t, s)
                   \/ w \in Waiters(t, s) /\ q[w].pc # "waiting"
        <5>1. again(w).pc # "waiting"
          BY <2>2
        <5>2. QED
          BY <2>4, <5>1
      <4>2. QED
        BY <2>4, <4>1 DEF Resumed
    <3>2. call[t][s].pc # "none"
      BY <2>1
    <3>3. QED
      BY <1>9, <3>1, <3>2
  <2>6. PlainShapes'
    BY <1>10, <1>a, <2>1 DEF RefreshStored, PlainShapes, serverVars
  <2>7. req[t]["me"].pc # "idle" => q["me"].pc # "idle"
    BY <2>2, <2>4, SlotFacts
  <2>8. QED
    BY <1>4, <2>3, <2>5, <2>6, <2>7
<1>11. CASE RefreshLost(t, s)
  <2> DEFINE q == [w \in Slots |-> IF w \in Waiters(t, s) THEN NoReq ELSE req[t][w]]
  <2>1. call[t][s].pc # "none" /\ Settle(t, Waiters(t, s), FALSE)
    BY <1>11 DEF RefreshLost
  <2>2. q \in [Slots -> Requests] /\ \A w \in Slots : q[w] = IF w \in Waiters(t, s) THEN NoReq ELSE req[t][w]
    BY <1>c, BlankFacts
  <2>3. /\ req' = [req EXCEPT ![t] = q] /\ inflight' = [inflight EXCEPT ![t] = "none"]
        /\ call' = [call EXCEPT ![t] = [call[t] EXCEPT ![s] = NoCall]]
    BY <1>11 DEF RefreshLost
  <2> HIDE DEF q
  <2>4. TabShared(q, "none", [call[t] EXCEPT ![s] = NoCall])
    <3>1. Resumed(t, s, q)
      <4>1. ASSUME NEW w \in Slots
            PROVE  \/ q[w] = req[t][w] /\ w \notin Waiters(t, s)
                   \/ w \in Waiters(t, s) /\ q[w].pc # "waiting"
        BY <2>2, BlankFacts
      <4>2. QED
        BY <2>2, <4>1 DEF Resumed
    <3>2. QED
      BY <1>9, <2>1, <3>1
  <2>5. PlainShapes'
    <3>1. live' \subseteq Pairs /\ calm' \in BOOLEAN
      BY <1>11, <1>a DEF RefreshLost, PlainShapes
    <3>2. QED
      BY <1>11, <1>a, <3>1 DEF RefreshLost, PlainShapes
  <2>6. PICK a \in AuthStates, f \in Forms :
           /\ auth' = [auth EXCEPT ![t] = a] /\ form' = [form EXCEPT ![t] = f]
           /\ a.loading => "me" \notin Waiters(t, s) /\ a = auth[t]
    BY <2>1, SettleFacts
  <2>7. a.loading => q["me"].pc # "idle"
    BY <1>a, <2>2, <2>6, SlotFacts
  <2>8. QED
    <3>1. TabBecomes(t, q, "none", [call[t] EXCEPT ![s] = NoCall], a, f)
      BY <2>3, <2>4, <2>6, <2>7 DEF TabBecomes
    <3>2. QED
      BY <2>5, <3>1, TabMoves
<1>12. QED
  BY <1>2, <1>3, <1>5, <1>7, <1>8, <1>10, <1>11 DEF RequestStep

\* The invariant of the tabs is inductive.
LEMMA SessionAlways == SessionSpec => []SessionInvariant
<1>1. SessionInit => SessionInvariant
  <2> SUFFICES ASSUME SessionInit PROVE SessionInvariant
    OBVIOUS
  <2>1. PlainShapes /\ "credentials" \in Forms
    BY SessionAssumption DEF SessionInit, PlainShapes, Forms
  <2>2. 0 \in 0 .. MaxPairs
    BY SessionAssumption
  <2>3. TabsOfMaps
    BY <2>1, <2>2, FreshTab DEF SessionInit, TabsOfMaps
  <2>4. \A t \in Tabs : TabShared(req[t], inflight[t], call[t])
    BY <2>2, FreshTab DEF SessionInit
  <2>5. LoadingIsAwaited
    BY <2>2, FreshTab DEF SessionInit, LoadingIsAwaited
  <2>6. QED
    BY <2>1, <2>3, <2>4, <2>5 DEF SessionInvariant
<1>2. ASSUME SessionInvariant, [SessionNext]_sessionVars PROVE SessionInvariant'
  <2>1. CASE UNCHANGED sessionVars
    <3>1. UNCHANGED <<tabVars, netVars>>
      BY <2>1 DEF sessionVars
    <3>2. PlainShapes'
      BY <1>2, <2>1 DEF SessionInvariant, PlainShapes, sessionVars, serverVars, storageVars
    <3>3. QED
      BY <1>2, <3>1, <3>2, NobodyMoves
  <2>2. ASSUME NEW n \in Pairs, GoodbyeHandled(n) \/ AccessExpires(n) \/ RefreshExpires(n)
        PROVE  SessionInvariant'
    <3>1. /\ live' \subseteq Pairs /\ fresh' \subseteq Pairs /\ goodbyes' \subseteq Pairs
          /\ calm' \in BOOLEAN
      BY <1>2, <2>2 DEF GoodbyeHandled, AccessExpires, RefreshExpires, SessionInvariant, PlainShapes
    <3>2. PlainShapes' /\ UNCHANGED <<tabVars, netVars>>
      BY <1>2, <2>2, <3>1 DEF GoodbyeHandled, AccessExpires, RefreshExpires, SessionInvariant, PlainShapes,
         storageVars
    <3>3. QED
      BY <1>2, <3>2, NobodyMoves
  <2>3. CASE PasswordReset
    <3>1. moves' \in 0 .. MaxMoves
      BY <1>2, <2>3, SessionAssumption DEF PasswordReset, Move, SessionInvariant, PlainShapes
    <3>2. PlainShapes' /\ UNCHANGED <<tabVars, netVars>>
      BY <1>2, <2>3, <3>1 DEF PasswordReset, SessionInvariant, PlainShapes, storageVars
    <3>3. QED
      BY <1>2, <3>2, NobodyMoves
  <2>4. QED
    BY <1>2, <2>1, <2>2, <2>3, TabStepKept, RequestStepKept DEF SessionNext
<1>3. QED
  BY <1>1, <1>2, PTL DEF SessionSpec

\* The types of the session, for any tabs and any number of token pairs.
THEOREM SessionTypes == SessionSpec => []SessionTypeOK
<1>1. ASSUME SessionInvariant PROVE SessionTypeOK
  <2>1. \A t \in Tabs : /\ req[t] \in [Slots -> Requests] /\ inflight[t] \in Slots \cup {"none"}
                        /\ call[t] \in [Slots -> Exchanges]
                        /\ \A s \in Slots : call[t][s].pc # "none" => call[t][s].tok # 0
    BY <1>1 DEF SessionInvariant, TabShared
  <2>2. /\ req \in [Tabs -> [Slots -> Requests]] /\ inflight \in [Tabs -> Slots \cup {"none"}]
        /\ call \in [Tabs -> [Slots -> Exchanges]]
    BY <1>1, <2>1 DEF SessionInvariant, TabsOfMaps
  <2>3. QED
    BY <1>1, <2>1, <2>2 DEF SessionInvariant, PlainShapes, TabsOfMaps, SessionTypeOK, Requests, Exchanges,
       AuthStates, Forms
<1>2. QED
  BY <1>1, SessionAlways, PTL

\* However many requests of a tab are refused at once, they share one exchange, and none
\* waits for one that is over.
THEOREM OneExchangePerTab == SessionSpec => []RefreshIsShared
<1>1. ASSUME SessionInvariant, NEW t \in Tabs
      PROVE  /\ Cardinality({s \in Slots : call[t][s].pc # "none"}) <= 1
             /\ \A s \in Slots : req[t][s].pc = "waiting" => call[t][req[t][s].on].pc # "none"
  <2> DEFINE busy == {s \in Slots : call[t][s].pc # "none"}
  <2>1. TabShared(req[t], inflight[t], call[t])
    BY <1>1 DEF SessionInvariant
  <2>2. busy = {} \/ busy = {inflight[t]}
    BY <2>1 DEF TabShared
  <2>3. Cardinality({}) = 0
    BY FS_EmptySet
  <2>a. Cardinality({inflight[t]}) = 1
    BY FS_Singleton
  <2> HIDE DEF busy
  <2>4. Cardinality(busy) <= 1
    <3>1. Cardinality(busy) = 0 \/ Cardinality(busy) = 1
      BY <2>2, <2>3, <2>a
    <3>2. QED
      BY <3>1
  <2> USE DEF busy
  <2>5. \A s \in Slots : req[t][s].pc = "waiting" => call[t][req[t][s].on].pc # "none"
    BY <2>1 DEF TabShared
  <2>6. QED
    BY <2>4, <2>5
<1>2. SessionInvariant => RefreshIsShared
  BY <1>1 DEF RefreshIsShared
<1>3. QED
  BY <1>2, SessionAlways, PTL

\* A tab on the loading screen waits for its request for the user.
THEOREM LoadingEndsWithItsRequest == SessionSpec => []LoadingIsAwaited
<1>1. SessionInvariant => LoadingIsAwaited
  BY DEF SessionInvariant
<1>2. QED
  BY <1>1, SessionAlways, PTL

-----------------------------------------------------------------------------
(* The session of a browser that is used.                                  *)

\* Tokens are numbered as they are issued.
TokensKnown ==
    /\ live \subseteq 1 .. issued /\ refresh <= issued
    /\ \A t \in Tabs, s \in Slots : call[t][s].tok <= issued /\ call[t][s].new <= issued

\* An exchange that is not over presents a live token, or has brought one that nobody
\* has stored.
Sound(x, good, stored) ==
    /\ x.pc # "refused"
    /\ x.pc \in {"asked", "found"} => x.tok \in good
    /\ x.pc = "answered" => x.new \in good /\ x.new # stored

\* Those of two tabs present different tokens and bring different ones.
Apart(x, y) ==
    x.pc # "none" /\ y.pc # "none" =>
        /\ x.tok # y.tok
        /\ x.pc = "answered" => x.new # y.tok
        /\ x.pc = "answered" /\ y.pc = "answered" => x.new # y.new

CalmHolds ==
    calm =>
        /\ goodbyes = {}
        /\ \A t \in Tabs, s \in Slots : Sound(call[t][s], live, refresh)
        /\ \A t, u \in Tabs : t # u => \A s, x \in Slots : Apart(call[t][s], call[u][x])
        /\ TimeKeepsSession

\* No token is known before it is issued.
LEMMA TokensStep ==
  ASSUME SessionInvariant, TokensKnown, SessionNext
  PROVE  TokensKnown'
<1>a. /\ PlainShapes /\ issued \in Nat /\ MaxPairs \in Nat /\ refresh \in Nat /\ live \subseteq Nat
      /\ \A t \in Tabs, s \in Slots : /\ call[t] \in [Slots -> Exchanges] /\ call[t][s] \in Exchanges
                                      /\ call[t][s].tok \in Nat /\ call[t][s].new \in Nat
      /\ call = [t \in Tabs |-> call[t]]
  BY SessionAssumption DEF SessionInvariant, PlainShapes, TabsOfMaps, TabShared, Exchanges, Pairs
\* Nothing is issued.
<1>1. ASSUME issued' = issued, live' \subseteq live, refresh' \in {refresh, 0},
             \A t \in Tabs, s \in Slots : call'[t][s].tok \in {call[t][s].tok, refresh, 0}
                                          /\ call'[t][s].new \in {call[t][s].new, 0}
      PROVE  TokensKnown'
  BY <1>1, <1>a DEF TokensKnown
<1>2. ASSUME UNCHANGED call, issued' = issued, live' \subseteq live, refresh' \in {refresh, 0}
      PROVE  TokensKnown'
  BY <1>1, <1>2
<1>3. ASSUME issued' = issued + 1, live' \subseteq live \cup {issued + 1}, refresh' \in {refresh, issued + 1},
             \A t \in Tabs, s \in Slots : call'[t][s].tok \in {call[t][s].tok, 0}
                                          /\ call'[t][s].new \in {call[t][s].new, 0, issued + 1}
      PROVE  TokensKnown'
  <2>1. live' \subseteq 1 .. issued' /\ refresh' <= issued'
    BY <1>3, <1>a DEF TokensKnown
  <2>2. ASSUME NEW t \in Tabs, NEW s \in Slots PROVE call'[t][s].tok <= issued' /\ call'[t][s].new <= issued'
    BY <1>3, <1>a DEF TokensKnown
  <2>3. QED
    BY <2>1, <2>2 DEF TokensKnown
<1>4. ASSUME NEW t \in Tabs, TabStep(t) PROVE TokensKnown'
  <2>1. CASE \/ SafetyTimer(t) \/ SubmitCredentials(t) \/ SubmitCode(t) \/ BackToCredentials(t)
             \/ LoginRefused(t) \/ Refetch(t) \/ Logout(t) \/ ChangePassword(t) \/ SignOutEverywhere(t)
    BY <1>2, <2>1 DEF SafetyTimer, SubmitCredentials, SubmitCode, BackToCredentials, LoginRefused, Refetch,
       Logout, ChangePassword, SignOutEverywhere, serverVars, storageVars, netVars
  <2>2. CASE LoginAccepted(t)
    BY <1>3, <2>2 DEF LoginAccepted, Issue
  <2>3. CASE InviteAccepted(t)
    <3>1. \A u \in Tabs, s \in Slots : call'[u][s] \in {call[u][s], NoCall}
      BY <2>3, <1>a DEF InviteAccepted
    <3>2. QED
      BY <1>3, <2>3, <3>1, BlankFacts DEF InviteAccepted, Issue
  <2>4. CASE Reload(t)
    <3>1. \A u \in Tabs, s \in Slots : call'[u][s] \in {call[u][s], NoCall}
      BY <2>4, <1>a DEF Reload
    <3>2. QED
      BY <1>1, <2>4, <3>1, BlankFacts DEF Reload, storageVars
  <2>5. QED
    BY <1>4, <2>1, <2>2, <2>3, <2>4 DEF TabStep
<1>5. ASSUME NEW t \in Tabs, NEW s \in Slots, RequestStep(t, s) PROVE TokensKnown'
  <2>1. CASE Answered(t, s) \/ Failed(t, s) \/ GiveUpWithoutToken(t, s)
    BY <1>2, <2>1 DEF Answered, Failed, GiveUpWithoutToken, serverVars, storageVars
  <2>2. CASE AwaitRefresh(t, s)
    <3>1. UNCHANGED <<live, issued, refresh>>
      BY <2>2 DEF AwaitRefresh, serverVars, storageVars
    <3>2. CASE UNCHANGED call
      BY <1>2, <3>1, <3>2
    <3>3. CASE call' = [call EXCEPT ![t][s] = [pc |-> "asked", tok |-> refresh, new |-> 0]]
      <4>1. \A u \in Tabs, x \in Slots :
               call'[u][x] = IF u = t /\ x = s THEN [pc |-> "asked", tok |-> refresh, new |-> 0] ELSE call[u][x]
        BY <3>3, <1>a
      <4>2. QED
        BY <1>1, <3>1, <4>1
    <3>4. QED
      BY <2>2, <3>2, <3>3 DEF AwaitRefresh
  <2>3. CASE RefreshRead(t, s)
    <3>1. \A u \in Tabs, x \in Slots : call'[u][x].tok = call[u][x].tok /\ call'[u][x].new = call[u][x].new
      BY <2>3, <1>a DEF RefreshRead, Exchanges
    <3>2. QED
      BY <1>1, <2>3, <3>1 DEF RefreshRead, serverVars, storageVars
  <2>4. CASE RefreshCommit(t, s)
    <3>1. \A u \in Tabs, x \in Slots :
             call'[u][x].tok = call[u][x].tok /\ call'[u][x].new \in {call[u][x].new, issued + 1}
      BY <2>4, <1>a DEF RefreshCommit, Exchanges
    <3>2. QED
      BY <1>3, <2>4, <3>1 DEF RefreshCommit, storageVars
  <2>5. CASE RefreshStored(t, s)
    <3>1. \A u \in Tabs, x \in Slots : call'[u][x] \in {call[u][x], NoCall}
      BY <2>5, <1>a DEF RefreshStored
    <3>2. live' = live /\ issued' = issued /\ refresh' = call[t][s].new
      BY <2>5 DEF RefreshStored, serverVars
    <3>3. QED
      BY <1>a, <3>1, <3>2, BlankFacts DEF TokensKnown
  <2>6. CASE RefreshLost(t, s)
    <3>1. \A u \in Tabs, x \in Slots : call'[u][x] \in {call[u][x], NoCall}
      BY <2>6, <1>a DEF RefreshLost
    <3>2. QED
      BY <1>1, <2>6, <3>1, BlankFacts DEF RefreshLost
  <2>7. QED
    BY <1>5, <2>1, <2>2, <2>3, <2>4, <2>5, <2>6 DEF RequestStep
<1>6. ASSUME NEW n \in Pairs, GoodbyeHandled(n) \/ AccessExpires(n) \/ RefreshExpires(n)
      PROVE  TokensKnown'
  BY <1>2, <1>6 DEF GoodbyeHandled, AccessExpires, RefreshExpires, storageVars, netVars
<1>7. CASE PasswordReset
  BY <1>2, <1>7 DEF PasswordReset, storageVars, netVars
<1>8. ASSUME NEW t \in Tabs, NEW s \in Queries[t], Send(t, s) PROVE TokensKnown'
  BY <1>2, <1>8 DEF Send, serverVars, storageVars
<1>9. QED
  BY <1>4, <1>5, <1>6, <1>7, <1>8 DEF SessionNext

\* A step after which the session is still calm.
LEMMA CalmStep ==
  ASSUME SessionInvariant, TokensKnown, CalmHolds, SessionNext, calm'
  PROVE  /\ goodbyes' = {}
         /\ \A t \in Tabs, s \in Slots : Sound(call'[t][s], live', refresh')
         /\ \A t, u \in Tabs : t # u => \A s, x \in Slots : Apart(call'[t][s], call'[u][x])
         /\ TimeKeepsSession'
<1> DEFINE Goal ==
         /\ goodbyes' = {}
         /\ \A t \in Tabs, s \in Slots : Sound(call'[t][s], live', refresh')
         /\ \A t, u \in Tabs : t # u => \A s, x \in Slots : Apart(call'[t][s], call'[u][x])
         /\ TimeKeepsSession'
<1>a. /\ PlainShapes /\ issued \in Nat /\ MaxPairs \in Nat /\ refresh \in Nat
      /\ \A t \in Tabs, s \in Slots : /\ call[t] \in [Slots -> Exchanges] /\ call[t][s] \in Exchanges
                                      /\ call[t][s].tok \in Nat /\ call[t][s].new \in Nat
      /\ call = [t \in Tabs |-> call[t]]
      /\ \A t \in Tabs, s, x \in Slots :
            call[t][s].pc # "none" /\ call[t][x].pc # "none" => s = x
  BY SessionAssumption DEF SessionInvariant, PlainShapes, TabsOfMaps, TabShared, Exchanges, Pairs
<1>b. calm
  <2>1. ASSUME NEW t \in Tabs, NEW s \in Slots, RequestStep(t, s) PROVE calm
    BY <2>1 DEF RequestStep, Answered, Failed, AwaitRefresh, GiveUpWithoutToken, RefreshRead, RefreshCommit,
       RefreshStored, RefreshLost
  <2>2. ASSUME NEW t \in Tabs, TabStep(t) PROVE calm
    BY <2>2 DEF TabStep, SafetyTimer, SubmitCredentials, SubmitCode, BackToCredentials, LoginAccepted,
       LoginRefused, Refetch, Logout, ChangePassword, SignOutEverywhere, InviteAccepted, Reload
  <2>3. QED
    BY <2>1, <2>2 DEF SessionNext, Send, PasswordReset, GoodbyeHandled, AccessExpires, RefreshExpires
<1>c. /\ goodbyes = {}
      /\ \A t \in Tabs, s \in Slots : Sound(call[t][s], live, refresh)
      /\ \A t, u \in Tabs : t # u => \A s, x \in Slots : Apart(call[t][s], call[u][x])
      /\ TimeKeepsSession
      /\ issued > 0 => /\ refresh # 0
                       /\ \/ refresh \in live
                          \/ \E t \in Tabs, s \in Slots : call[t][s].pc = "answered"
                                /\ call[t][s].tok = refresh /\ call[t][s].new \in live
  BY <1>b DEF CalmHolds, TimeKeepsSession
\* The tokens stay as they are; an exchange stays as it is or was none and is none.
<1>1. ASSUME UNCHANGED <<live, issued, refresh, goodbyes>>,
             \A t \in Tabs, s \in Slots : \/ call'[t][s] = call[t][s]
                                          \/ call'[t][s].pc = "none" /\ call[t][s].pc = "none"
      PROVE  Goal
  <2>1. \A t \in Tabs, s \in Slots : Sound(call'[t][s], live', refresh')
    BY <1>c, <1>1 DEF Sound
  <2>2. \A t, u \in Tabs : t # u => \A s, x \in Slots : Apart(call'[t][s], call'[u][x])
    BY <1>c, <1>1 DEF Apart
  <2>3. TimeKeepsSession'
    BY <1>c, <1>1 DEF TimeKeepsSession
  <2>4. QED
    BY <1>c, <1>1, <2>1, <2>2, <2>3
<1>2. ASSUME UNCHANGED <<live, issued, refresh, goodbyes, call>> PROVE Goal
  BY <1>1, <1>2
\* A pair is issued to a sign-in.
<1>3. ASSUME issued' = issued + 1, live' = live \cup {issued + 1}, refresh' = issued + 1,
             goodbyes' = goodbyes,
             \A t \in Tabs, s \in Slots : call'[t][s] \in {call[t][s], NoCall}
      PROVE  Goal
  <2>1. ASSUME NEW t \in Tabs, NEW s \in Slots PROVE Sound(call'[t][s], live', refresh')
    <3>1. call[t][s].new # issued + 1
      BY <1>a DEF TokensKnown
    <3>2. QED
      BY <1>c, <1>3, <3>1, BlankFacts DEF Sound
  <2>2. \A t, u \in Tabs : t # u => \A s, x \in Slots : Apart(call'[t][s], call'[u][x])
    BY <1>c, <1>3, BlankFacts DEF Apart
  <2>3. TimeKeepsSession'
    BY <1>a, <1>3 DEF TimeKeepsSession
  <2>4. QED
    BY <1>c, <1>3, <2>1, <2>2, <2>3
\* The first refusal of a tab starts an exchange of the token that is stored.
<1>4. ASSUME NEW t \in Tabs, NEW s \in Slots, AwaitRefresh(t, s) PROVE Goal
  <2> DEFINE new == [pc |-> "asked", tok |-> refresh, new |-> 0]
  <2>1. UNCHANGED <<live, issued, refresh, goodbyes>>
    BY <1>4 DEF AwaitRefresh, serverVars, storageVars
  <2>2. CASE Promise(t, s) # s
    BY <1>2, <1>4, <2>1, <2>2 DEF AwaitRefresh
  <2>3. CASE Promise(t, s) = s
    <3>1. /\ call' = [call EXCEPT ![t][s] = new] /\ ~Collides(t) /\ req[t][s].pc = "sent"
          /\ TokenOrPromise(t)
      BY <1>4, <2>3 DEF AwaitRefresh, Refused
    <3>2. inflight[t] = "none" /\ \A x \in Slots : call[t][x].pc = "none"
      BY <2>3, <3>1, SlotFacts DEF Promise, SessionInvariant, TabShared
    <3>3. refresh # 0 /\ issued > 0
      BY <1>a, <3>1, <3>2 DEF TokenOrPromise, TokensKnown
    <3>4. \A u \in Tabs, x \in Slots : call[u][x].pc # "none" => u # t /\ call[u][x].tok # refresh
      BY <3>1, <3>2 DEF Collides
    <3>5. refresh \in live
      BY <1>c, <3>3, <3>4
    <3>6. \A u \in Tabs, x \in Slots : call'[u][x] = IF u = t /\ x = s THEN new ELSE call[u][x]
      BY <1>a, <3>1
    <3>7. new.pc = "asked" /\ new.tok = refresh
      OBVIOUS
    <3> HIDE DEF new
    <3>8. \A u \in Tabs, x \in Slots : Sound(call'[u][x], live', refresh')
      BY <1>c, <2>1, <3>5, <3>6, <3>7 DEF Sound
    <3>9. ASSUME NEW u \in Tabs, NEW v \in Tabs, u # v, NEW x \in Slots, NEW y \in Slots
          PROVE  Apart(call'[u][x], call'[v][y])
      <4>1. CASE u = t /\ x = s
        <5>1. call'[u][x] = new /\ call'[v][y] = call[v][y]
          BY <3>6, <3>9, <4>1
        <5>2. QED
          BY <3>4, <3>7, <5>1 DEF Apart
      <4>2. CASE v = t /\ y = s
        <5>1. call'[v][y] = new /\ call'[u][x] = call[u][x]
          BY <3>6, <3>9, <4>2
        <5>2. call[u][x].pc = "answered" => call[u][x].new # refresh
          BY <1>c DEF Sound
        <5>3. QED
          BY <3>4, <3>7, <5>1, <5>2 DEF Apart
      <4>3. CASE ~(u = t /\ x = s) /\ ~(v = t /\ y = s)
        BY <1>c, <3>6, <3>9, <4>3
      <4>4. QED
        BY <4>1, <4>2, <4>3
    <3>10. TimeKeepsSession'
      BY <2>1, <3>3, <3>5 DEF TimeKeepsSession
    <3>11. QED
      BY <1>c, <2>1, <3>8, <3>9, <3>10
  <2>4. QED
    BY <2>2, <2>3
<1>5. ASSUME NEW t \in Tabs, NEW s \in Slots, RefreshRead(t, s) PROVE Goal
  <2> DEFINE new == [call[t][s] EXCEPT !.pc = "found"]
  <2>1. call[t][s].pc = "asked" /\ call[t][s].tok \in live
    BY <1>5, <1>c DEF RefreshRead, Sound
  <2>2. call' = [call EXCEPT ![t][s] = new] /\ UNCHANGED <<live, issued, refresh, goodbyes>>
    BY <1>5, <2>1 DEF RefreshRead, serverVars, storageVars
  <2>3. new.pc = "found" /\ new.tok = call[t][s].tok
    BY <1>a DEF Exchanges
  <2>4. \A u \in Tabs, x \in Slots : call'[u][x] = IF u = t /\ x = s THEN new ELSE call[u][x]
    BY <1>a, <2>2
  <2> HIDE DEF new
  <2>5. \A u \in Tabs, x \in Slots : Sound(call'[u][x], live', refresh')
    BY <1>c, <2>1, <2>2, <2>3, <2>4 DEF Sound
  <2>6. ASSUME NEW u \in Tabs, NEW v \in Tabs, u # v, NEW x \in Slots, NEW y \in Slots
        PROVE  Apart(call'[u][x], call'[v][y])
    <3>1. Apart(call[u][x], call[v][y])
      BY <1>c, <2>6
    <3>2. QED
      BY <2>1, <2>3, <2>4, <3>1 DEF Apart
  <2>7. TimeKeepsSession'
    <3>1. \A u \in Tabs, x \in Slots : call[u][x].pc = "answered" => call'[u][x] = call[u][x]
      BY <2>1, <2>4
    <3>2. QED
      BY <1>c, <2>2, <3>1 DEF TimeKeepsSession
  <2>8. QED
    BY <1>c, <2>2, <2>5, <2>6, <2>7
\* The server revokes the token and issues the next pair, in one commit.
<1>6. ASSUME NEW t \in Tabs, NEW s \in Slots, RefreshCommit(t, s) PROVE Goal
  <2> DEFINE new == [call[t][s] EXCEPT !.pc = "answered", !.new = issued + 1]
             old == call[t][s].tok
  <2>1. /\ call[t][s].pc = "found" /\ issued' = issued + 1 /\ live' = (live \ {old}) \cup {issued + 1}
        /\ call' = [call EXCEPT ![t][s] = new] /\ UNCHANGED <<refresh, goodbyes>>
    BY <1>6 DEF RefreshCommit, storageVars
  <2>2. new.pc = "answered" /\ new.tok = old /\ new.new = issued + 1
    BY <1>a DEF Exchanges
  <2>3. \A u \in Tabs, x \in Slots : call'[u][x] = IF u = t /\ x = s THEN new ELSE call[u][x]
    BY <1>a, <2>1
  <2> HIDE DEF new
  <2>4. /\ \A u \in Tabs, x \in Slots : call[u][x].tok # issued + 1 /\ call[u][x].new # issued + 1
        /\ refresh # issued + 1 /\ old # issued + 1 /\ issued + 1 > 0
    BY <1>a DEF TokensKnown
  <2>5. ASSUME NEW u \in Tabs, NEW x \in Slots, call[u][x].pc # "none", ~(u = t /\ x = s)
        PROVE  call[u][x].tok # old /\ (call[u][x].pc = "answered" => call[u][x].new # old)
    <3>1. u # t
      BY <1>a, <2>1, <2>5
    <3>2. Apart(call[u][x], call[t][s])
      BY <1>c, <3>1
    <3>3. QED
      BY <2>1, <2>5, <3>2 DEF Apart
  <2>6. ASSUME NEW u \in Tabs, NEW x \in Slots PROVE Sound(call'[u][x], live', refresh')
    <3>1. CASE u = t /\ x = s
      BY <2>1, <2>2, <2>3, <2>4, <3>1 DEF Sound
    <3>2. CASE ~(u = t /\ x = s)
      <4>1. call'[u][x] = call[u][x] /\ Sound(call[u][x], live, refresh)
        BY <1>c, <2>3, <3>2
      <4>2. QED
        BY <2>1, <2>5, <3>2, <4>1 DEF Sound
    <3>3. QED
      BY <3>1, <3>2
  <2>7. ASSUME NEW u \in Tabs, NEW v \in Tabs, u # v, NEW x \in Slots, NEW y \in Slots
        PROVE  Apart(call'[u][x], call'[v][y])
    <3>1. Apart(call[u][x], call[v][y])
      BY <1>c, <2>7
    <3>2. QED
      BY <2>1, <2>2, <2>3, <2>4, <2>7, <3>1 DEF Apart
  <2>8. TimeKeepsSession'
    <3>1. refresh # 0
      <4>1. issued > 0
        <5>1. call[t][s].tok # 0
          BY <2>1 DEF SessionInvariant, TabShared
        <5>2. QED
          BY <1>a, <5>1 DEF TokensKnown
      <4>2. QED
        BY <1>c, <4>1
    <3>2. CASE refresh = old
      BY <2>1, <2>2, <2>3, <3>1, <3>2 DEF TimeKeepsSession
    <3>3. CASE refresh # old /\ refresh \in live
      BY <2>1, <3>1, <3>3 DEF TimeKeepsSession
    <3>4. CASE refresh # old /\ refresh \notin live
      <4>1. issued > 0
        <5>1. call[t][s].tok # 0
          BY <2>1 DEF SessionInvariant, TabShared
        <5>2. QED
          BY <1>a, <5>1 DEF TokensKnown
      <4>2. PICK u \in Tabs, x \in Slots :
               call[u][x].pc = "answered" /\ call[u][x].tok = refresh /\ call[u][x].new \in live
        BY <1>c, <3>4, <4>1
      <4>3. ~(u = t /\ x = s)
        BY <2>1, <4>2
      <4>4. call'[u][x] = call[u][x] /\ call[u][x].new \in live'
        BY <2>1, <2>3, <2>5, <4>2, <4>3
      <4>5. QED
        BY <2>1, <3>1, <4>2, <4>4 DEF TimeKeepsSession
    <3>5. QED
      BY <3>2, <3>3, <3>4
  <2>9. QED
    BY <1>c, <2>1, <2>6, <2>7, <2>8
\* The new pair is stored.
<1>7. ASSUME NEW t \in Tabs, NEW s \in Slots, RefreshStored(t, s) PROVE Goal
  <2>1. /\ call[t][s].pc = "answered" /\ refresh' = call[t][s].new /\ UNCHANGED <<live, issued, goodbyes>>
        /\ call' = [call EXCEPT ![t][s] = NoCall]
    BY <1>7 DEF RefreshStored, serverVars
  <2>2. \A u \in Tabs, x \in Slots : call'[u][x] = IF u = t /\ x = s THEN NoCall ELSE call[u][x]
    BY <1>a, <2>1
  <2>3. refresh' \in live
    BY <1>c, <2>1 DEF Sound
  <2>4. ASSUME NEW u \in Tabs, NEW x \in Slots PROVE Sound(call'[u][x], live', refresh')
    <3>1. CASE u = t /\ x = s
      BY <2>2, <3>1, BlankFacts DEF Sound
    <3>2. CASE ~(u = t /\ x = s) /\ call[u][x].pc # "none"
      <4>1. u # t
        BY <1>a, <2>1, <3>2
      <4>2. Apart(call[u][x], call[t][s]) /\ Sound(call[u][x], live, refresh)
        BY <1>c, <4>1
      <4>3. QED
        BY <2>1, <2>2, <3>2, <4>2 DEF Apart, Sound
    <3>3. CASE ~(u = t /\ x = s) /\ call[u][x].pc = "none"
      BY <2>2, <3>3 DEF Sound
    <3>4. QED
      BY <3>1, <3>2, <3>3
  <2>5. ASSUME NEW u \in Tabs, NEW v \in Tabs, u # v, NEW x \in Slots, NEW y \in Slots
        PROVE  Apart(call'[u][x], call'[v][y])
    <3>1. Apart(call[u][x], call[v][y])
      BY <1>c, <2>5
    <3>2. QED
      BY <2>2, <3>1, BlankFacts DEF Apart
  <2>6. TimeKeepsSession'
    <3>1. refresh' # 0
      BY <1>a, <2>3 DEF TokensKnown
    <3>2. QED
      BY <2>1, <2>3, <3>1 DEF TimeKeepsSession
  <2>7. QED
    BY <1>c, <2>1, <2>4, <2>5, <2>6
<1>8. ASSUME NEW t \in Tabs, NEW s \in Slots, RefreshLost(t, s) PROVE Goal
  <2>1. call[t][s].pc = "refused"
    BY <1>8, <1>b DEF RefreshLost
  <2>2. QED
    BY <1>c, <2>1 DEF Sound
<1>9. ASSUME NEW t \in Tabs, NEW s \in Slots, GiveUpWithoutToken(t, s) PROVE Goal
  <2>1. refresh = 0
    BY <1>9 DEF GiveUpWithoutToken, TokenOrPromise
  <2>2. UNCHANGED <<live, issued, refresh, goodbyes, call>>
    BY <1>9, <2>1 DEF GiveUpWithoutToken, serverVars
  <2>3. QED
    BY <1>2, <2>2
<1>10. ASSUME NEW t \in Tabs, NEW s \in Slots, Answered(t, s) \/ Failed(t, s) PROVE Goal
  BY <1>2, <1>10 DEF Answered, Failed, serverVars, storageVars
<1>11. ASSUME NEW t \in Tabs, TabStep(t) PROVE Goal
  <2>1. CASE \/ SafetyTimer(t) \/ SubmitCredentials(t) \/ SubmitCode(t) \/ BackToCredentials(t)
             \/ LoginRefused(t) \/ Refetch(t)
    BY <1>2, <2>1 DEF SafetyTimer, SubmitCredentials, SubmitCode, BackToCredentials, LoginRefused, Refetch,
       serverVars, storageVars, netVars
  <2>2. CASE Logout(t) \/ ChangePassword(t) \/ SignOutEverywhere(t)
    BY <2>2 DEF Logout, ChangePassword, SignOutEverywhere
  <2>3. CASE LoginAccepted(t)
    BY <1>3, <2>3 DEF LoginAccepted, Issue
  <2>4. CASE InviteAccepted(t)
    <3>1. \A u \in Tabs, s \in Slots : call'[u][s] \in {call[u][s], NoCall}
      BY <2>4, <1>a DEF InviteAccepted
    <3>2. QED
      BY <1>3, <2>4, <3>1 DEF InviteAccepted, Issue
  <2>5. CASE Reload(t)
    <3>1. \A s \in Slots : call[t][s].pc = "none"
      BY <2>5 DEF Reload
    <3>2. \A u \in Tabs, s \in Slots : \/ call'[u][s] = call[u][s]
                                       \/ call'[u][s].pc = "none" /\ call[u][s].pc = "none"
      <4>1. \A u \in Tabs, s \in Slots : call'[u][s] = IF u = t THEN NoCall ELSE call[u][s]
        BY <2>5, <1>a DEF Reload
      <4>2. QED
        BY <3>1, <4>1, BlankFacts
    <3>3. live' = live
      <4>1. Abandoned({call[t][s] : s \in Slots}) = {}
        BY <3>1 DEF Abandoned
      <4>2. QED
        BY <2>5, <4>1 DEF Reload
    <3>4. QED
      BY <1>1, <2>5, <3>2, <3>3 DEF Reload, storageVars
  <2>6. QED
    BY <1>11, <2>1, <2>2, <2>3, <2>4, <2>5 DEF TabStep
<1>12. ASSUME NEW n \in Pairs, GoodbyeHandled(n) \/ AccessExpires(n) \/ RefreshExpires(n) PROVE Goal
  <2>1. ~GoodbyeHandled(n)
    BY <1>c DEF GoodbyeHandled
  <2>2. CASE AccessExpires(n)
    BY <1>2, <2>2 DEF AccessExpires, storageVars, netVars
  \* A token that expires is not one of those the browser counts on.
  <2>3. CASE RefreshExpires(n)
    <3>1. /\ UNCHANGED <<issued, refresh, goodbyes, call>> /\ live' = live \ {n} /\ n # refresh
          /\ \A t \in Tabs, s \in Slots :
                call[t][s].pc # "none" => n # call[t][s].tok /\ n # call[t][s].new
      BY <2>3 DEF RefreshExpires, HeldByBrowser, storageVars, netVars
    <3>2. \A t \in Tabs, s \in Slots : Sound(call'[t][s], live', refresh')
      BY <1>c, <3>1 DEF Sound
    <3>3. \A t, u \in Tabs : t # u => \A s, x \in Slots : Apart(call'[t][s], call'[u][x])
      BY <1>c, <3>1 DEF Apart
    <3>4. TimeKeepsSession'
      BY <1>c, <3>1 DEF TimeKeepsSession
    <3>5. QED
      BY <1>c, <3>1, <3>2, <3>3, <3>4
  <2>4. QED
    BY <1>12, <2>1, <2>2, <2>3
<1>13. ASSUME NEW t \in Tabs, NEW s \in Queries[t], Send(t, s) PROVE Goal
  BY <1>2, <1>13 DEF Send, serverVars, storageVars
<1>14. ~PasswordReset
  BY DEF PasswordReset
<1>15. ASSUME NEW t \in Tabs, NEW s \in Slots, RequestStep(t, s) PROVE Goal
  BY <1>4, <1>5, <1>6, <1>7, <1>8, <1>9, <1>10, <1>15 DEF RequestStep
<1> HIDE DEF Goal
<1>16. Goal
  BY <1>11, <1>12, <1>13, <1>14, <1>15 DEF SessionNext
<1>17. QED
  BY <1>16 DEF Goal

\* A browser that is used stays signed in, for any tabs and any number of pairs: as long as
\* nobody signs out, no request times out, no two tabs exchange a token at once and the
\* stored refresh token is not left unused until it expires, it is live or its exchange has
\* brought one that is.
THEOREM UseKeepsSession == SessionSpec => []TimeKeepsSession
<1>1. SessionInit => TokensKnown /\ CalmHolds
  <2> SUFFICES ASSUME SessionInit PROVE TokensKnown /\ CalmHolds
    OBVIOUS
  <2>1. \A t \in Tabs, s \in Slots : call[t][s] = NoCall
    BY DEF SessionInit
  <2>2. live = {} /\ issued = 0 /\ refresh = 0 /\ goodbyes = {}
    BY DEF SessionInit
  <2>3. TokensKnown
    BY <2>1, <2>2, BlankFacts DEF TokensKnown
  <2>4. CalmHolds
    BY <2>1, <2>2, BlankFacts DEF CalmHolds, Sound, Apart, TimeKeepsSession
  <2>5. QED
    BY <2>3, <2>4
<1>2. ASSUME SessionInvariant, TokensKnown, CalmHolds, [SessionNext]_sessionVars
      PROVE  TokensKnown' /\ CalmHolds'
  <2>1. CASE UNCHANGED sessionVars
    <3>1. UNCHANGED <<live, issued, refresh, goodbyes, calm, call>>
      BY <2>1 DEF sessionVars, serverVars, storageVars, netVars
    <3>2. TokensKnown'
      BY <1>2, <3>1 DEF TokensKnown
    <3>3. CalmHolds'
      BY <1>2, <3>1 DEF CalmHolds, Sound, Apart, TimeKeepsSession
    <3>4. QED
      BY <3>2, <3>3
  <2>2. CASE SessionNext
    <3>1. TokensKnown'
      BY <1>2, <2>2, TokensStep
    <3>2. CalmHolds'
      <4>1. ASSUME calm' PROVE CalmHolds'
        <5>1. /\ goodbyes' = {}
              /\ \A t \in Tabs, s \in Slots : Sound(call'[t][s], live', refresh')
              /\ \A t, u \in Tabs : t # u => \A s, x \in Slots : Apart(call'[t][s], call'[u][x])
              /\ TimeKeepsSession'
          BY <1>2, <2>2, <4>1, CalmStep
        <5>2. QED
          BY <5>1 DEF CalmHolds, Sound, Apart
      <4>2. QED
        BY <4>1 DEF CalmHolds
    <3>3. QED
      BY <3>1, <3>2
  <2>3. QED
    BY <1>2, <2>1, <2>2
<1>3. CalmHolds => TimeKeepsSession
  BY DEF CalmHolds, TimeKeepsSession
<1>4. QED
  BY <1>1, <1>2, <1>3, SessionAlways, PTL DEF SessionSpec

-----------------------------------------------------------------------------
(* The second factor: the types.                                           *)

Dialogs == [kind : {"none", "setup", "remove", "regen"}, step : {"form", "qr", "verify", "codes"},
            cred : 0 .. MaxCreds]
FactorRequests ==
    [kind : {"none", "enroll", "confirm", "remove", "regen", "me"},
     stage : {"sent", "loaded", "read", "done", "refused"}, cred : 0 .. MaxCreds, typed : 0 .. MaxCreds,
     asked : BOOLEAN, stale : SUBSET Creds]
AccountShapes ==
    /\ cred \in [Creds -> {"none", "pending", "confirmed", "deleted"}]
    /\ made \in 0 .. MaxCreds /\ required \in BOOLEAN /\ overlap \in BOOLEAN /\ crossed \in BOOLEAN
    /\ app \subseteq Creds
    /\ dialog \in [AccountTabs -> Dialogs] /\ rpc \in [AccountTabs -> FactorRequests]
    /\ methods \in [AccountTabs -> 0 .. MaxCreds]

\* The dialog of a tab, the request it has sent and the codes the app can show: each
\* request belongs to a dialog of its kind, and a code is one the app shows or a wrong one.
TabWhole(d, r, shown) ==
    /\ d.kind = "none" => r.kind = "none"
    /\ d.kind \in {"remove", "regen"} => d.cred # 0
    /\ d.step \in {"verify", "codes"} => d.cred # 0
    /\ d.step \in {"qr", "verify"} => d.kind = "setup"
    /\ d.step = "codes" => r.kind = "none" /\ d.kind # "remove"
    /\ r.kind = "enroll" => d.kind = "setup" /\ (r.stage = "done" => r.cred # 0)
    /\ r.kind = "confirm" => d.kind = "setup" /\ d.cred # 0 /\ r.cred # 0 /\ r.typed \in shown \cup {0}
    /\ r.kind = "remove" => d.kind = "remove" /\ r.cred # 0
    /\ r.kind = "regen" => d.kind = "regen"
    /\ r.kind = "me" /\ d.kind = "setup" => d.cred # 0
    /\ r.stage = "read" => r.kind \in {"enroll", "confirm", "remove"}
    /\ r.stage = "read" /\ r.kind = "confirm" => r.typed = r.cred
TabsWhole == \A t \in AccountTabs : TabWhole(dialog[t], rpc[t], app)

\* A credential that was not made yet is in no state, and one of them is pending at most.
UnmadeIsNone == \A c \in Creds : c > made => cred[c] = "none"
OnePending == ~crossed => \A c, d \in Creds : cred[c] = "pending" /\ cred[d] = "pending" => c = d

\* The page and the routes know of credentials that were made.
ShownAreMade == \A t \in AccountTabs :
    methods[t] <= made /\ dialog[t].cred <= made /\ rpc[t].cred <= made

\* What a route has read is still so, or a later enrollment or overlap says that it is not.
ReadHolds(r) == r.stage = "read" =>
    /\ r.kind = "enroll" =>
          /\ r.typed <= made /\ \A c \in r.stale : c <= made
          /\ r.typed = made => \A c \in Creds : cred[c] = "pending" => c \in r.stale
    /\ r.kind = "confirm" /\ ~overlap => (r.asked => required)
    /\ r.kind = "remove" /\ ~overlap => (r.typed = 0 => Confirmed \subseteq {r.cred})
ReadingsHold == \A t \in AccountTabs : ReadHolds(rpc[t])

AccountInvariant ==
    /\ AccountShapes /\ TabsWhole /\ UnmadeIsNone /\ OnePending /\ ReadingsHold
    /\ LoginStaysPossible /\ ConfirmedIsEnforced

\* The first of a set of credentials is one of them, and 0 of none.
LEMMA FirstIsOne ==
  ASSUME NEW S \in SUBSET Creds
  PROVE  /\ First(S) \in 0 .. MaxCreds
         /\ S = {} => First(S) = 0
         /\ S # {} => First(S) \in S /\ First(S) # 0
<1>1. MaxCreds \in Nat /\ S \in SUBSET Nat
  BY AccountAssumption DEF Creds
<1>2. CASE S = {}
  BY <1>1, <1>2 DEF First
<1>3. CASE S # {}
  <2>1. \E x \in S : \A y \in S : x <= y
    BY <1>1, <1>3, LeastNatural
  <2>2. First(S) \in S
    BY <1>3, <2>1 DEF First
  <2>3. First(S) \in 1 .. MaxCreds
    BY <2>2 DEF Creds
  <2>4. QED
    BY <1>1, <1>3, <2>2, <2>3
<1>4. QED
  BY <1>2, <1>3

\* Before anything is set up.
LEMMA AccountInitially == AccountInit => AccountInvariant
<1> SUFFICES ASSUME AccountInit PROVE AccountInvariant
  OBVIOUS
<1>1. NoDialog \in Dialogs /\ NoRpc \in FactorRequests /\ TabWhole(NoDialog, NoRpc, {})
  BY AccountAssumption DEF NoDialog, NoRpc, Dialogs, FactorRequests, TabWhole
<1>2. /\ cred \in [Creds -> {"none", "pending", "confirmed", "deleted"}]
      /\ made \in 0 .. MaxCreds /\ app \subseteq Creds /\ methods \in [AccountTabs -> 0 .. MaxCreds]
  BY AccountAssumption DEF AccountInit
<1>3. required \in BOOLEAN /\ overlap \in BOOLEAN /\ crossed \in BOOLEAN
  BY DEF AccountInit
<1>4. dialog \in [AccountTabs -> Dialogs] /\ rpc \in [AccountTabs -> FactorRequests] /\ TabsWhole
  BY <1>1 DEF AccountInit, TabsWhole
<1>5. AccountShapes
  BY <1>2, <1>3, <1>4 DEF AccountShapes
<1>6. UnmadeIsNone /\ OnePending /\ Confirmed = {}
  BY DEF AccountInit, UnmadeIsNone, OnePending, Confirmed
<1>7. ReadingsHold
  BY DEF AccountInit, ReadingsHold, ReadHolds, NoRpc
<1>8. QED
  BY <1>4, <1>5, <1>6, <1>7 DEF AccountInvariant, LoginStaysPossible, ConfirmedIsEnforced

\* A step of one tab that leaves the rows of the server alone, and after which what the
\* tab's route has read, if anything, is so.
LEMMA TabStepKeeps ==
  ASSUME AccountInvariant, NEW t \in AccountTabs, NEW d \in Dialogs, NEW r \in FactorRequests,
         dialog' = [dialog EXCEPT ![t] = d], rpc' = [rpc EXCEPT ![t] = r],
         TabWhole(d, r, app), ReadHolds(r),
         UNCHANGED serverRows, app \subseteq app', app' \subseteq Creds,
         methods' \in [AccountTabs -> 0 .. MaxCreds]
  PROVE  AccountInvariant'
<1>a. AccountShapes /\ TabsWhole
  BY DEF AccountInvariant
<1>b. UNCHANGED <<cred, made, required, overlap, crossed>> /\ Confirmed' = Confirmed
  BY DEF serverRows, Confirmed
<1>c. \A u \in AccountTabs : (dialog'[u] = d /\ rpc'[u] = r /\ u = t)
                              \/ (dialog'[u] = dialog[u] /\ rpc'[u] = rpc[u])
  BY <1>a DEF AccountShapes
<1>1. AccountShapes'
  BY <1>a, <1>b DEF AccountShapes
<1>2. TabsWhole'
  <2>1. \A u \in AccountTabs : TabWhole(dialog'[u], rpc'[u], app)
    BY <1>a, <1>c DEF TabsWhole
  <2>2. QED
    BY <2>1 DEF TabsWhole, TabWhole
<1>3. ReadingsHold'
  <2>1. \A u \in AccountTabs : ReadHolds(rpc'[u])
    BY <1>c DEF AccountInvariant, ReadingsHold
  <2>2. QED
    BY <1>b, <2>1 DEF ReadingsHold, ReadHolds
<1>4. UnmadeIsNone' /\ OnePending'
  BY <1>b DEF AccountInvariant, UnmadeIsNone, OnePending
<1>5. LoginStaysPossible' /\ ConfirmedIsEnforced'
  BY <1>b DEF AccountInvariant, LoginStaysPossible, ConfirmedIsEnforced
<1>6. QED
  BY <1>1, <1>2, <1>3, <1>4, <1>5 DEF AccountInvariant

\* The dialogs, and the answers that reach them.
LEMMA DialogStep ==
  ASSUME AccountInvariant, NEW t \in AccountTabs,
         \/ MethodsLoaded(t) \/ OpenSetup(t) \/ OpenRemoveOrRegen(t) \/ Cancel(t)
         \/ Scan(t) \/ NextStep(t) \/ BackToQr(t) \/ OnVerify(t)
         \/ OnSubmitRemove(t) \/ OnSubmitRegen(t) \/ CodesNoted(t) \/ HandleRegen(t)
         \/ EnrollShown(t) \/ RefetchMe(t) \/ MeAnswered(t) \/ RegenShown(t)
         \/ RequestFails(t) \/ Unmount(t)
  PROVE  AccountInvariant'
<1> DEFINE d == dialog[t]
           r == rpc[t]
<1>a. /\ d \in Dialogs /\ r \in FactorRequests /\ TabWhole(d, r, app) /\ MaxCreds \in Nat
      /\ app \subseteq Creds /\ methods \in [AccountTabs -> 0 .. MaxCreds]
      /\ dialog \in [AccountTabs -> Dialogs] /\ rpc \in [AccountTabs -> FactorRequests]
  BY AccountAssumption DEF AccountInvariant, AccountShapes, TabsWhole
<1>b. /\ NoDialog \in Dialogs /\ NoRpc \in FactorRequests
      /\ dialog = [dialog EXCEPT ![t] = d] /\ rpc = [rpc EXCEPT ![t] = r]
  BY <1>a DEF NoDialog, NoRpc, Dialogs, FactorRequests
<1>c. NoRpc.stage = "sent" /\ NoRpc.kind = "none" /\ NoDialog.kind = "none" /\ NoDialog.step = "form"
  BY DEF NoRpc, NoDialog
<1>d. TabWhole(NoDialog, NoRpc, app)
  BY DEF TabWhole, NoDialog, NoRpc
<1>e. methods[t] \in 0 .. MaxCreds /\ d.kind \in {"none", "setup", "remove", "regen"}
      /\ d.cred \in 0 .. MaxCreds /\ r.cred \in 0 .. MaxCreds /\ app \cup {0} \subseteq 0 .. MaxCreds
  BY <1>a DEF Dialogs, FactorRequests, Creds
\* The rows of the server, the app and the list of methods as they are after most steps.
<1> DEFINE Rest1 == UNCHANGED serverRows /\ app' = app /\ methods' = methods
<1>f. ASSUME Rest1 PROVE /\ UNCHANGED serverRows /\ app \subseteq app' /\ app' \subseteq Creds
                          /\ methods' \in [AccountTabs -> 0 .. MaxCreds]
  BY <1>a, <1>f
<1>g. ASSUME NEW e \in Dialogs, NEW q \in FactorRequests, Rest1,
             dialog' = [dialog EXCEPT ![t] = e], rpc' = [rpc EXCEPT ![t] = q],
             TabWhole(e, q, app), q.stage # "read"
      PROVE  AccountInvariant'
  <2>1. ReadHolds(q)
    BY <1>g DEF ReadHolds
  <2>2. QED
    BY <1>a, <1>g, <2>1, TabStepKeeps
<1>h. ASSUME NEW e \in Dialogs, Rest1, dialog' = [dialog EXCEPT ![t] = e], rpc' = rpc,
             TabWhole(e, r, app)
      PROVE  AccountInvariant'
  <2>1. rpc' = [rpc EXCEPT ![t] = r] /\ ReadHolds(r)
    BY <1>b, <1>h DEF AccountInvariant, ReadingsHold
  <2> HIDE DEF r
  <2>2. QED
    BY <1>a, <1>h, <2>1, TabStepKeeps
<1>i. ASSUME NEW q \in FactorRequests, Rest1, dialog' = dialog, rpc' = [rpc EXCEPT ![t] = q],
             TabWhole(d, q, app), q.stage # "read"
      PROVE  AccountInvariant'
  <2>1. dialog' = [dialog EXCEPT ![t] = d]
    BY <1>b, <1>i
  <2> HIDE DEF d
  <2>2. QED
    BY <1>a, <1>g, <1>i, <2>1
<1>1. CASE MethodsLoaded(t) \/ Scan(t)
  <2>1. /\ UNCHANGED <<serverRows, dialog, rpc>> /\ app \subseteq app'
    BY <1>1 DEF MethodsLoaded, Scan
  <2>2. methods' \in [AccountTabs -> 0 .. MaxCreds]
    <3>1. First(Confirmed) \in 0 .. MaxCreds
      BY FirstIsOne DEF Confirmed
    <3>2. QED
      BY <1>1, <1>a, <3>1 DEF MethodsLoaded, Scan
  <2>3. app' \subseteq Creds
    <3>1. d.cred # 0 => d.cred \in Creds
      BY <1>a, <1>e DEF Creds
    <3>2. QED
      BY <1>1, <1>a, <3>1 DEF MethodsLoaded, Scan, UriKnown
  <2>4. UNCHANGED <<cred, made, required, overlap, crossed>> /\ Confirmed' = Confirmed
    BY <2>1 DEF serverRows, Confirmed
  <2>5. AccountShapes'
    BY <2>1, <2>2, <2>3, <2>4 DEF AccountInvariant, AccountShapes
  <2>6. TabsWhole'
    <3>1. \A u \in AccountTabs : TabWhole(dialog'[u], rpc'[u], app)
      BY <2>1 DEF AccountInvariant, TabsWhole
    <3>2. QED
      BY <2>1, <3>1 DEF TabsWhole, TabWhole
  <2>7. ReadingsHold' /\ UnmadeIsNone' /\ OnePending' /\ LoginStaysPossible' /\ ConfirmedIsEnforced'
    BY <2>1, <2>4 DEF AccountInvariant, ReadingsHold, ReadHolds, UnmadeIsNone, OnePending, LoginStaysPossible,
       ConfirmedIsEnforced
  <2>8. QED
    BY <2>5, <2>6, <2>7 DEF AccountInvariant
<1>2. CASE OpenSetup(t)
  <2> DEFINE e == [NoDialog EXCEPT !.kind = "setup", !.step = "qr"]
             q == [NoRpc EXCEPT !.kind = "enroll"]
  <2>0. e = [[NoDialog EXCEPT !.kind = "setup"] EXCEPT !.step = "qr"]
    OBVIOUS
  <2>a. e \in Dialogs /\ e.kind = "setup" /\ e.step = "qr"
    BY <1>a, <1>b, <2>0 DEF Dialogs
  <2>b. q \in FactorRequests /\ q.kind = "enroll" /\ q.stage = "sent"
    BY <1>b, <1>c DEF FactorRequests
  <2> HIDE DEF e, q
  <2>1. TabWhole(e, q, app)
    BY <2>a, <2>b DEF TabWhole
  <2> USE DEF e, q
  <2>2. Rest1 /\ dialog' = [dialog EXCEPT ![t] = e] /\ rpc' = [rpc EXCEPT ![t] = q]
    BY <1>2 DEF OpenSetup
  <2> HIDE DEF e, q, Rest1
  <2>3. QED
    BY <1>g, <2>a, <2>b, <2>1, <2>2
<1>3. CASE OpenRemoveOrRegen(t)
  <2>1. PICK k \in {"remove", "regen"} :
          dialog' = [dialog EXCEPT ![t] = [NoDialog EXCEPT !.kind = k, !.cred = methods[t]]]
    BY <1>3 DEF OpenRemoveOrRegen
  <2> DEFINE e == [NoDialog EXCEPT !.kind = k, !.cred = methods[t]]
  <2>2. r.kind = "none" /\ r.stage # "read" /\ methods[t] # 0 /\ rpc' = rpc
    BY <1>3, <1>a DEF OpenRemoveOrRegen, TabWhole
  <2>3. e \in Dialogs /\ TabWhole(e, r, app)
    BY <1>e, <2>2 DEF Dialogs, NoDialog, TabWhole
  <2>4. Rest1 /\ dialog' = [dialog EXCEPT ![t] = e]
    BY <1>3, <2>1 DEF OpenRemoveOrRegen
  <2> HIDE DEF e, Rest1
  <2>5. QED
    BY <1>h, <2>2, <2>3, <2>4
<1>4. CASE Cancel(t)
  BY <1>4, <1>b, <1>c, <1>d, <1>g DEF Cancel
<1>5. CASE NextStep(t) \/ BackToQr(t)
  <2> DEFINE s == IF d.step = "qr" THEN "verify" ELSE "qr"
             e == [d EXCEPT !.step = s]
  <2>1. d.step \in {"qr", "verify"} /\ d.kind = "setup" /\ (d.step = "qr" => d.cred # 0)
    BY <1>5, <1>a DEF NextStep, BackToQr, UriKnown, TabWhole
  <2>2. e \in Dialogs /\ TabWhole(e, r, app)
    BY <1>a, <2>1 DEF Dialogs, TabWhole
  <2>3. Rest1 /\ dialog' = [dialog EXCEPT ![t] = e] /\ rpc' = rpc
    BY <1>5, <2>1 DEF NextStep, BackToQr
  <2> HIDE DEF e, Rest1
  <2>4. QED
    BY <1>h, <2>2, <2>3
<1>6. CASE OnVerify(t)
  <2>1. PICK typed \in app \cup {0} :
          rpc' = [rpc EXCEPT ![t] = [NoRpc EXCEPT !.kind = "confirm", !.cred = d.cred, !.typed = typed]]
    BY <1>6 DEF OnVerify
  <2> DEFINE q == [NoRpc EXCEPT !.kind = "confirm", !.cred = d.cred, !.typed = typed]
  <2>2. d.step = "verify" /\ d.cred # 0 /\ d.kind = "setup"
    BY <1>6, <1>a DEF OnVerify, TabWhole
  <2>3. q \in FactorRequests /\ TabWhole(d, q, app) /\ q.stage # "read"
    BY <1>e, <2>2 DEF FactorRequests, NoRpc, TabWhole
  <2>4. Rest1 /\ dialog' = dialog /\ rpc' = [rpc EXCEPT ![t] = q]
    BY <1>6, <2>1 DEF OnVerify
  <2> HIDE DEF q, Rest1
  <2>5. QED
    BY <1>i, <2>3, <2>4
<1>7. CASE OnSubmitRemove(t)
  <2> DEFINE q == [NoRpc EXCEPT !.kind = "remove", !.cred = d.cred]
  <2>1. d.kind = "remove" /\ d.cred # 0 /\ d.step \notin {"qr", "verify"} /\ d.step # "codes"
    BY <1>7, <1>a DEF OnSubmitRemove, TabWhole
  <2>2. q \in FactorRequests /\ TabWhole(d, q, app) /\ q.stage # "read"
    BY <1>a, <1>e, <2>1 DEF FactorRequests, NoRpc, TabWhole
  <2>3. Rest1 /\ dialog' = dialog /\ rpc' = [rpc EXCEPT ![t] = q]
    BY <1>7 DEF OnSubmitRemove
  <2> HIDE DEF q, Rest1
  <2>4. QED
    BY <1>i, <2>2, <2>3
<1>8. CASE OnSubmitRegen(t)
  <2>1. PICK typed \in app \cup {0} :
          rpc' = [rpc EXCEPT ![t] = [NoRpc EXCEPT !.kind = "regen", !.typed = typed]]
    BY <1>8 DEF OnSubmitRegen
  <2> DEFINE q == [NoRpc EXCEPT !.kind = "regen", !.typed = typed]
  <2>2. d.step = "form" /\ d.kind = "regen" /\ d.cred # 0
    BY <1>8, <1>a DEF OnSubmitRegen, TabWhole
  <2>3. q \in FactorRequests /\ TabWhole(d, q, app) /\ q.stage # "read"
    BY <1>a, <1>e, <2>2 DEF FactorRequests, NoRpc, TabWhole
  <2>4. Rest1 /\ dialog' = dialog /\ rpc' = [rpc EXCEPT ![t] = q]
    BY <1>8, <2>1 DEF OnSubmitRegen
  <2> HIDE DEF q, Rest1
  <2>5. QED
    BY <1>i, <2>3, <2>4
<1>9. CASE CodesNoted(t)
  <2>1. r.kind = "none" /\ r.stage # "read"
    BY <1>9, <1>a DEF CodesNoted, TabWhole
  <2>2. TabWhole(NoDialog, r, app)
    BY <2>1 DEF TabWhole, NoDialog
  <2>3. QED
    BY <1>9, <1>b, <1>h, <2>1, <2>2 DEF CodesNoted
<1>10. CASE HandleRegen(t)
  <2> DEFINE s == IF r.typed # 0 /\ r.typed = First(Confirmed) THEN "done" ELSE "refused"
             q == [r EXCEPT !.stage = s]
  <2>1. r.kind = "regen" /\ q.kind = "regen" /\ q.stage \in {"done", "refused"} /\ q \in FactorRequests
    BY <1>10, <1>a DEF HandleRegen, FactorRequests
  <2>2. TabWhole(d, q, app)
    BY <1>a, <2>1 DEF TabWhole
  <2>3. Rest1 /\ dialog' = dialog /\ rpc' = [rpc EXCEPT ![t] = q]
    BY <1>10 DEF HandleRegen, Answer
  <2> HIDE DEF q, Rest1
  <2>4. QED
    BY <1>i, <2>1, <2>2, <2>3
<1>11. CASE EnrollShown(t)
  <2> DEFINE e == [d EXCEPT !.cred = r.cred]
  <2>1. r.cred # 0 /\ d.kind = "setup"
    BY <1>11, <1>a DEF EnrollShown, TabWhole
  <2>2. e \in Dialogs /\ e.kind = "setup" /\ e.cred # 0 /\ e.step = d.step
    BY <1>a, <1>e, <2>1 DEF Dialogs
  <2>3. TabWhole(e, NoRpc, app)
    BY <1>a, <2>2 DEF TabWhole, NoRpc
  <2>4. Rest1 /\ dialog' = [dialog EXCEPT ![t] = e] /\ rpc' = [rpc EXCEPT ![t] = NoRpc]
    BY <1>11 DEF EnrollShown
  <2> HIDE DEF e, Rest1
  <2>5. QED
    BY <1>b, <1>c, <1>g, <2>2, <2>3, <2>4
<1>12. CASE RefetchMe(t)
  <2> DEFINE q == [NoRpc EXCEPT !.kind = "me"]
  <2>1. d.kind \in {"setup", "remove"} /\ (d.kind = "setup" => d.cred # 0) /\ d.step # "codes"
    BY <1>12, <1>a DEF RefetchMe, TabWhole
  <2>2. q \in FactorRequests /\ TabWhole(d, q, app) /\ q.stage # "read"
    BY <1>a, <1>e, <2>1 DEF FactorRequests, NoRpc, TabWhole
  <2>3. Rest1 /\ dialog' = dialog /\ rpc' = [rpc EXCEPT ![t] = q]
    BY <1>12 DEF RefetchMe
  <2> HIDE DEF q, Rest1
  <2>4. QED
    BY <1>i, <2>2, <2>3
<1>13. CASE MeAnswered(t)
  <2> DEFINE e == IF d.kind = "setup" THEN [d EXCEPT !.step = "codes"] ELSE NoDialog
  <2>1. CASE d.kind = "setup"
    <3>1. e = [d EXCEPT !.step = "codes"]
      BY <2>1
    <3>2. d.cred # 0
      BY <1>13, <1>a, <2>1 DEF MeAnswered, TabWhole
    <3>3. e \in Dialogs /\ TabWhole(e, NoRpc, app)
      BY <1>a, <2>1, <3>1, <3>2 DEF Dialogs, TabWhole, NoRpc
    <3>4. Rest1 /\ dialog' = [dialog EXCEPT ![t] = e] /\ rpc' = [rpc EXCEPT ![t] = NoRpc]
      BY <1>13 DEF MeAnswered
    <3> HIDE DEF e, Rest1
    <3>5. QED
      BY <1>b, <1>c, <1>g, <3>3, <3>4
  <2>2. CASE d.kind # "setup"
    <3>1. Rest1 /\ dialog' = [dialog EXCEPT ![t] = NoDialog] /\ rpc' = [rpc EXCEPT ![t] = NoRpc]
      BY <1>13, <2>2 DEF MeAnswered
    <3> HIDE DEF Rest1
    <3>2. QED
      BY <1>b, <1>c, <1>d, <1>g, <3>1
  <2>3. QED
    BY <2>1, <2>2
<1>14. CASE RegenShown(t)
  <2> DEFINE e == [d EXCEPT !.step = "codes"]
  <2>1. d.kind = "regen" /\ d.cred # 0
    BY <1>14, <1>a DEF RegenShown, TabWhole
  <2>2. e \in Dialogs /\ TabWhole(e, NoRpc, app)
    BY <1>a, <2>1 DEF Dialogs, TabWhole, NoRpc
  <2>3. Rest1 /\ dialog' = [dialog EXCEPT ![t] = e] /\ rpc' = [rpc EXCEPT ![t] = NoRpc]
    BY <1>14 DEF RegenShown
  <2> HIDE DEF e, Rest1
  <2>4. QED
    BY <1>b, <1>c, <1>g, <2>2, <2>3
<1>15. CASE RequestFails(t)
  <2>1. TabWhole(d, NoRpc, app)
    BY <1>a DEF TabWhole, NoRpc
  <2>2. Rest1 /\ dialog' = dialog /\ rpc' = [rpc EXCEPT ![t] = NoRpc]
    BY <1>15 DEF RequestFails
  <2> HIDE DEF Rest1
  <2>3. QED
    BY <1>b, <1>c, <1>i, <2>1, <2>2
<1>16. CASE Unmount(t)
  <2>1. methods' \in [AccountTabs -> 0 .. MaxCreds]
    BY <1>16, <1>a DEF Unmount
  <2>2. UNCHANGED serverRows /\ app \subseteq app' /\ app' \subseteq Creds
        /\ dialog' = [dialog EXCEPT ![t] = NoDialog] /\ rpc' = [rpc EXCEPT ![t] = NoRpc]
    BY <1>16, <1>a DEF Unmount
  <2>3. ReadHolds(NoRpc)
    BY <1>c DEF ReadHolds
  <2>4. QED
    BY <1>b, <1>d, <2>1, <2>2, <2>3, TabStepKeeps
<1>17. QED
  BY <1>1, <1>2, <1>3, <1>4, <1>5, <1>6, <1>7, <1>8, <1>9, <1>10, <1>11, <1>12, <1>13, <1>14, <1>15, <1>16

\* What a route answers changes the request of its tab alone.
LEMMA RouteShapes ==
  ASSUME AccountInvariant, NEW t \in AccountTabs, NEW q \in FactorRequests,
         rpc' = [rpc EXCEPT ![t] = q], TabWhole(dialog[t], q, app), UNCHANGED <<app, dialog, methods>>
  PROVE  /\ TabsWhole' /\ rpc' \in [AccountTabs -> FactorRequests]
         /\ \A u \in AccountTabs : rpc'[u] = IF u = t THEN q ELSE rpc[u]
<1>1. rpc \in [AccountTabs -> FactorRequests] /\ TabsWhole
  BY DEF AccountInvariant, AccountShapes
<1>2. \A u \in AccountTabs : rpc'[u] = IF u = t THEN q ELSE rpc[u]
  BY <1>1
<1>3. \A u \in AccountTabs : TabWhole(dialog[u], rpc'[u], app)
  BY <1>1, <1>2 DEF TabsWhole
<1>4. QED
  BY <1>1, <1>2, <1>3 DEF TabsWhole, TabWhole

\* What the routes read: the pending enrollments, the flag, the other confirmed credentials.
\* A confirmation that finds its row deleted, and a proof that is refused, end there.
LEMMA ReadStep ==
  ASSUME AccountInvariant, NEW t \in AccountTabs,
         EnrollRead(t) \/ ConfirmRead(t) \/ ConfirmFails(t) \/ RemoveLoad(t) \/ RemoveRead(t)
  PROVE  AccountInvariant'
<1> DEFINE d == dialog[t]
           r == rpc[t]
<1>1. /\ d \in Dialogs /\ r \in FactorRequests /\ TabWhole(d, r, app) /\ made \in 0 .. MaxCreds
      /\ app \subseteq Creds /\ methods \in [AccountTabs -> 0 .. MaxCreds] /\ required \in BOOLEAN
      /\ dialog \in [AccountTabs -> Dialogs] /\ rpc \in [AccountTabs -> FactorRequests]
      /\ dialog = [dialog EXCEPT ![t] = d]
  BY DEF AccountInvariant, AccountShapes, TabsWhole
<1>2. UNCHANGED <<serverRows, app, dialog, methods>>
  BY DEF EnrollRead, ConfirmRead, ConfirmFails, RemoveLoad, RemoveRead
<1>3. ASSUME NEW q \in FactorRequests, rpc' = [rpc EXCEPT ![t] = q], TabWhole(d, q, app), ReadHolds(q)
      PROVE  AccountInvariant'
  <2>1. dialog' = [dialog EXCEPT ![t] = d]
    BY <1>1, <1>2
  <2> HIDE DEF d
  <2>2. QED
    BY <1>1, <1>2, <1>3, <2>1, TabStepKeeps
<1>4. CASE EnrollRead(t)
  <2> DEFINE P == {c \in Creds : cred[c] = "pending"}
             q == [r EXCEPT !.stage = "read", !.stale = P, !.typed = made]
  <2>1. /\ r.kind = "enroll" /\ q \in FactorRequests /\ q.kind = "enroll" /\ q.stage = "read"
        /\ q.stale = P /\ q.typed = made
    BY <1>1, <1>4 DEF EnrollRead, FactorRequests
  <2>2. TabWhole(d, q, app)
    BY <1>1, <2>1 DEF TabWhole
  <2>3. \A c \in P : c <= made
    <3>1. ASSUME NEW c \in Creds, c > made PROVE cred[c] = "none"
      BY <3>1 DEF AccountInvariant, UnmadeIsNone
    <3>2. QED
      BY <1>1, <3>1, AccountAssumption DEF Creds
  <2>4. rpc' = [rpc EXCEPT ![t] = q]
    BY <1>4 DEF EnrollRead
  <2> HIDE DEF q
  <2>5. ReadHolds(q)
    BY <1>1, <2>1, <2>3, AccountAssumption DEF ReadHolds
  <2>6. QED
    BY <1>3, <2>1, <2>2, <2>4, <2>5
<1>5. CASE ConfirmRead(t)
  <2> DEFINE ok == Proved(r.cred, r.typed)
             q == IF ok THEN [r EXCEPT !.stage = "read", !.asked = required] ELSE [r EXCEPT !.stage = "refused"]
  <2>1. /\ r.kind = "confirm" /\ q \in FactorRequests /\ q.kind = "confirm" /\ q.cred = r.cred
        /\ q.typed = r.typed /\ q.stage = (IF ok THEN "read" ELSE "refused") /\ (ok => q.asked = required)
    BY <1>1, <1>5 DEF ConfirmRead, FactorRequests
  <2>2. rpc' = [rpc EXCEPT ![t] = q]
    BY <1>5 DEF ConfirmRead
  <2> HIDE DEF q
  <2>3. TabWhole(d, q, app) /\ ReadHolds(q)
    BY <1>1, <2>1 DEF TabWhole, ReadHolds, Proved
  <2>4. QED
    BY <1>3, <2>1, <2>2, <2>3
<1>6. CASE ConfirmFails(t)
  <2> DEFINE q == [r EXCEPT !.stage = "refused"]
  <2>1. /\ r.kind = "confirm" /\ q \in FactorRequests /\ q.kind = "confirm" /\ q.cred = r.cred
        /\ q.typed = r.typed /\ q.stage = "refused"
    BY <1>1, <1>6 DEF ConfirmFails, FactorRequests
  <2>2. rpc' = [rpc EXCEPT ![t] = q]
    BY <1>6 DEF ConfirmFails, Answer
  <2> HIDE DEF q
  <2>3. TabWhole(d, q, app) /\ ReadHolds(q)
    BY <1>1, <2>1 DEF TabWhole, ReadHolds
  <2>4. QED
    BY <1>3, <2>1, <2>2, <2>3
<1>7. CASE RemoveLoad(t)
  <2> DEFINE q == [r EXCEPT !.stage = "loaded", !.asked = required]
  <2>1. r.kind = "remove" /\ q \in FactorRequests /\ q.kind = "remove" /\ q.cred = r.cred /\ q.stage = "loaded"
    BY <1>1, <1>7 DEF RemoveLoad, FactorRequests
  <2>2. rpc' = [rpc EXCEPT ![t] = q]
    BY <1>7 DEF RemoveLoad
  <2> HIDE DEF q
  <2>3. TabWhole(d, q, app) /\ ReadHolds(q)
    BY <1>1, <2>1 DEF TabWhole, ReadHolds
  <2>4. QED
    BY <1>3, <2>1, <2>2, <2>3
<1>8. CASE RemoveRead(t)
  <2> DEFINE others == Confirmed \ {r.cred}
  <2>1. PICK ok \in BOOLEAN :
          rpc' = [rpc EXCEPT ![t] =
                    [@ EXCEPT !.stage = IF ok /\ cred[rpc[t].cred] # "deleted" THEN "read" ELSE "refused",
                              !.typed = First(Confirmed \ {rpc[t].cred})]]
    BY <1>8 DEF RemoveRead
  <2> DEFINE s == IF ok /\ cred[r.cred] # "deleted" THEN "read" ELSE "refused"
             q == [r EXCEPT !.stage = s, !.typed = First(others)]
  <2>2. First(others) \in 0 .. MaxCreds /\ (First(others) = 0 => others = {})
    BY FirstIsOne DEF Confirmed
  <2>3. rpc' = [rpc EXCEPT ![t] = q] /\ s \in {"read", "refused"}
    BY <1>1, <2>1
  <2> HIDE DEF s
  <2>4. /\ r.kind = "remove" /\ q \in FactorRequests /\ q.kind = "remove" /\ q.stage = s
        /\ q.cred = r.cred /\ q.typed = First(others)
    BY <1>1, <1>8, <2>2, <2>3 DEF RemoveRead, FactorRequests
  <2> HIDE DEF q
  <2>5. TabWhole(d, q, app) /\ ReadHolds(q)
    BY <1>1, <2>2, <2>3, <2>4 DEF TabWhole, ReadHolds
  <2>6. QED
    BY <1>3, <2>3, <2>4, <2>5
<1>9. QED
  BY <1>4, <1>5, <1>6, <1>7, <1>8

\* An enrollment confirms nothing, and leaves its own alone pending if no other has come
\* since it read.
LEMMA EnrollStep ==
  ASSUME AccountInvariant, NEW t \in AccountTabs, EnrollCommit(t)
  PROVE  AccountInvariant'
<1> DEFINE q == [rpc[t] EXCEPT !.stage = "done", !.cred = made + 1]
           gone == rpc[t].stale
<1>1. /\ AccountShapes /\ TabWhole(dialog[t], rpc[t], app) /\ rpc[t] \in FactorRequests
      /\ rpc[t].kind = "enroll" /\ rpc[t].stage = "read" /\ made \in Nat /\ MaxCreds \in Nat
      /\ made + 1 \in Creds /\ made + 1 \in 0 .. MaxCreds /\ rpc \in [AccountTabs -> FactorRequests]
      /\ cred \in [Creds -> {"none", "pending", "confirmed", "deleted"}]
  BY AccountAssumption DEF AccountInvariant, AccountShapes, TabsWhole, EnrollCommit, Creds
<1>2. /\ q \in FactorRequests /\ q.kind = "enroll" /\ q.stage = "done" /\ q.cred = made + 1
  BY <1>1 DEF FactorRequests
<1>3. TabWhole(dialog[t], q, app)
  BY <1>1, <1>2 DEF TabWhole
<1>4. rpc' = [rpc EXCEPT ![t] = q] /\ UNCHANGED <<required, overlap, app, dialog, methods>>
      /\ made' = made + 1 /\ crossed' = (rpc[t].typed # made)
  BY <1>1 DEF EnrollCommit
<1>r. /\ \A c \in gone : c <= made
      /\ rpc[t].typed = made => \A c \in Creds : cred[c] = "pending" => c \in gone
  BY <1>1 DEF AccountInvariant, ReadingsHold, ReadHolds
<1>6. \A c \in Creds : cred'[c] = IF c = made + 1 THEN "pending"
                                  ELSE IF c \in gone THEN "deleted" ELSE cred[c]
  BY <1>1 DEF EnrollCommit, Cleaned
<1>7. cred' \in [Creds -> {"none", "pending", "confirmed", "deleted"}]
  BY <1>1 DEF EnrollCommit, Cleaned
<1> HIDE DEF q, gone
<1>5. /\ TabsWhole' /\ rpc' \in [AccountTabs -> FactorRequests]
      /\ \A u \in AccountTabs : rpc'[u] = IF u = t THEN q ELSE rpc[u]
  BY <1>2, <1>3, <1>4, RouteShapes
<1>8. AccountShapes'
  BY <1>1, <1>4, <1>5, <1>7 DEF AccountShapes
<1>9. cred[made + 1] = "none"
  BY <1>1 DEF AccountInvariant, UnmadeIsNone
<1>10. Confirmed' \subseteq Confirmed
  BY <1>6, <1>9 DEF Confirmed
<1>11. UnmadeIsNone'
  <2>1. ASSUME NEW c \in Creds, c > made + 1 PROVE cred'[c] = "none"
    <3>1. c > made /\ c # made + 1 /\ c \notin gone
      BY <1>1, <1>r, <2>1 DEF Creds
    <3>2. cred[c] = "none"
      BY <3>1 DEF AccountInvariant, UnmadeIsNone
    <3>3. QED
      BY <1>6, <3>1, <3>2
  <2>2. QED
    BY <1>4, <2>1 DEF UnmadeIsNone
<1>12. OnePending'
  BY <1>4, <1>6, <1>r DEF OnePending
<1>13. ReadingsHold'
  <2> SUFFICES ASSUME NEW u \in AccountTabs PROVE ReadHolds(rpc[u])' \/ rpc'[u].stage # "read"
    BY DEF ReadingsHold, ReadHolds
  <2>1. CASE u = t
    BY <1>2, <1>5, <2>1
  <2>2. CASE u # t
    <3>1. rpc'[u] = rpc[u] /\ ReadHolds(rpc[u]) /\ rpc[u] \in FactorRequests
      BY <1>1, <1>5, <2>2 DEF AccountInvariant, ReadingsHold
    <3>2. rpc[u].typed \in Nat /\ rpc[u].stale \subseteq Nat
      BY <1>1, <3>1 DEF FactorRequests, Creds
    <3>3. QED
      BY <1>1, <1>4, <1>10, <3>1, <3>2 DEF ReadHolds
  <2>3. QED
    BY <2>1, <2>2
<1>14. LoginStaysPossible' /\ ConfirmedIsEnforced'
  BY <1>4, <1>10 DEF AccountInvariant, LoginStaysPossible, ConfirmedIsEnforced
<1>15. QED
  BY <1>5, <1>8, <1>11, <1>12, <1>13, <1>14 DEF AccountInvariant

\* A confirmation took a code of the very credential, which the app shows therefore; it
\* sets the flag, or has found it set and nobody has cleared it since.
LEMMA ConfirmStep ==
  ASSUME AccountInvariant, ShownAreMade, NEW t \in AccountTabs, ConfirmCommit(t)
  PROVE  AccountInvariant'
<1> DEFINE c == rpc[t].cred
           q == [rpc[t] EXCEPT !.stage = "done"]
<1>1. /\ AccountShapes /\ TabWhole(dialog[t], rpc[t], app) /\ rpc[t] \in FactorRequests
      /\ rpc[t].kind = "confirm" /\ rpc[t].stage = "read" /\ MaxCreds \in Nat
      /\ rpc \in [AccountTabs -> FactorRequests]
      /\ cred \in [Creds -> {"none", "pending", "confirmed", "deleted"}]
  BY AccountAssumption DEF AccountInvariant, AccountShapes, TabsWhole, ConfirmCommit
<1>2. c \in Creds /\ c \in app /\ c # 0
  <2>1. c \in 0 .. MaxCreds /\ c # 0 /\ rpc[t].typed \in app \cup {0} /\ rpc[t].typed = c
    BY <1>1 DEF FactorRequests, TabWhole
  <2>2. QED
    BY <1>1, <2>1 DEF Creds
<1>3. q \in FactorRequests /\ q.kind = "confirm" /\ q.stage = "done" /\ q.cred = c /\ q.typed = rpc[t].typed
  BY <1>1 DEF FactorRequests
<1>4. TabWhole(dialog[t], q, app)
  BY <1>1, <1>3 DEF TabWhole
<1>5. rpc' = [rpc EXCEPT ![t] = q] /\ UNCHANGED <<made, crossed, app, dialog, methods>>
  BY <1>1 DEF ConfirmCommit, Answer
<1>7. /\ cred' = [cred EXCEPT ![c] = "confirmed"] /\ cred[c] # "deleted"
      /\ required' = IF rpc[t].asked THEN required ELSE TRUE
      /\ overlap' = (overlap \/ Others(t, "remove"))
  BY DEF ConfirmCommit, Demanded
<1> HIDE DEF q
<1>6. /\ TabsWhole' /\ rpc' \in [AccountTabs -> FactorRequests]
      /\ \A u \in AccountTabs : rpc'[u] = IF u = t THEN q ELSE rpc[u]
  BY <1>3, <1>4, <1>5, RouteShapes
<1>8. /\ \A x \in Creds : cred'[x] = IF x = c THEN "confirmed" ELSE cred[x]
      /\ cred' \in [Creds -> {"none", "pending", "confirmed", "deleted"}]
  BY <1>1, <1>2, <1>7
<1>9. required' \in BOOLEAN /\ overlap' \in BOOLEAN /\ (required => required')
  BY <1>1, <1>7 DEF AccountShapes, Others
<1>10. AccountShapes'
  BY <1>1, <1>5, <1>6, <1>8, <1>9 DEF AccountShapes
<1>11. Confirmed' = Confirmed \cup {c}
  BY <1>2, <1>8 DEF Confirmed
<1>12. UnmadeIsNone'
  <2>1. ASSUME NEW x \in Creds, x > made PROVE cred'[x] = "none"
    <3>1. c <= made /\ made \in Nat
      BY <1>1 DEF ShownAreMade, AccountShapes
    <3>2. cred[x] = "none" /\ x # c
      BY <1>2, <2>1, <3>1 DEF AccountInvariant, UnmadeIsNone, Creds
    <3>3. QED
      BY <1>8, <3>2
  <2>2. QED
    BY <1>5, <2>1 DEF UnmadeIsNone
<1>13. OnePending'
  BY <1>5, <1>8 DEF AccountInvariant, OnePending
<1>14. ReadingsHold'
  <2> SUFFICES ASSUME NEW u \in AccountTabs PROVE ReadHolds(rpc[u])' \/ rpc'[u].stage # "read"
    BY DEF ReadingsHold, ReadHolds
  <2>1. CASE u = t
    BY <1>3, <1>6, <2>1
  <2>2. CASE u # t
    <3>1. rpc'[u] = rpc[u] /\ ReadHolds(rpc[u])
      BY <1>6, <2>2 DEF AccountInvariant, ReadingsHold
    <3>2. rpc[u].stage = "read" /\ rpc[u].kind = "remove" => overlap'
      BY <1>7, <2>2 DEF Others
    <3>3. QED
      BY <1>5, <1>7, <1>8, <1>9, <3>1, <3>2 DEF ReadHolds
  <2>3. QED
    BY <2>1, <2>2
<1>15. ~overlap' => required'
  BY <1>1, <1>7 DEF AccountInvariant, ReadingsHold, ReadHolds
<1>16. LoginStaysPossible' /\ ConfirmedIsEnforced'
  BY <1>2, <1>5, <1>11, <1>15 DEF AccountInvariant, LoginStaysPossible, ConfirmedIsEnforced
<1>17. QED
  BY <1>6, <1>10, <1>12, <1>13, <1>14, <1>16 DEF AccountInvariant

\* A removal clears the flag if it has read no other confirmed credential, and there is
\* none still when no confirmation came in between.
LEMMA RemoveCommitStep ==
  ASSUME AccountInvariant, ShownAreMade, NEW t \in AccountTabs, RemoveCommit(t)
  PROVE  AccountInvariant'
<1> DEFINE c == rpc[t].cred
           q == [rpc[t] EXCEPT !.stage = "done"]
<1>1. /\ AccountShapes /\ TabWhole(dialog[t], rpc[t], app) /\ rpc[t] \in FactorRequests
      /\ rpc[t].kind = "remove" /\ rpc[t].stage = "read" /\ MaxCreds \in Nat
      /\ rpc \in [AccountTabs -> FactorRequests]
      /\ cred \in [Creds -> {"none", "pending", "confirmed", "deleted"}]
  BY AccountAssumption DEF AccountInvariant, AccountShapes, TabsWhole, RemoveCommit
<1>2. c \in Creds
  <2>1. c \in 0 .. MaxCreds /\ c # 0
    BY <1>1 DEF FactorRequests, TabWhole
  <2>2. QED
    BY <1>1, <2>1 DEF Creds
<1>3. q \in FactorRequests /\ q.kind = "remove" /\ q.stage = "done" /\ q.cred = c
  BY <1>1 DEF FactorRequests
<1>4. TabWhole(dialog[t], q, app)
  BY <1>1, <1>3 DEF TabWhole
<1>5. rpc' = [rpc EXCEPT ![t] = q] /\ UNCHANGED <<made, crossed, app, dialog, methods>>
  BY <1>1 DEF RemoveCommit, Answer
<1> HIDE DEF q
<1>6. /\ TabsWhole' /\ rpc' \in [AccountTabs -> FactorRequests]
      /\ \A u \in AccountTabs : rpc'[u] = IF u = t THEN q ELSE rpc[u]
  BY <1>3, <1>4, <1>5, RouteShapes
<1>7. /\ cred' = [cred EXCEPT ![c] = "deleted"]
      /\ required' = IF rpc[t].typed = 0 /\ rpc[t].asked THEN FALSE ELSE required
      /\ overlap' = (overlap \/ Others(t, "confirm"))
  BY DEF RemoveCommit, StillRequired
<1> HIDE DEF c
<1>8. /\ \A x \in Creds : cred'[x] = IF x = c THEN "deleted" ELSE cred[x]
      /\ cred' \in [Creds -> {"none", "pending", "confirmed", "deleted"}]
  BY <1>1, <1>2, <1>7
<1>9. required' \in BOOLEAN /\ overlap' \in BOOLEAN
  BY <1>1, <1>7 DEF AccountShapes, Others
<1>10. AccountShapes'
  BY <1>1, <1>5, <1>6, <1>8, <1>9 DEF AccountShapes
<1>11. Confirmed' = Confirmed \ {c}
  BY <1>2, <1>8 DEF Confirmed
<1>12. UnmadeIsNone'
  <2>1. ASSUME NEW x \in Creds, x > made PROVE cred'[x] = "none"
    <3>a. c <= made /\ made \in Nat
      BY <1>1 DEF ShownAreMade, AccountShapes, c
    <3>1. cred[x] = "none" /\ x # c
      BY <1>2, <2>1, <3>a DEF AccountInvariant, UnmadeIsNone, Creds
    <3>2. QED
      BY <1>8, <3>1
  <2>2. QED
    BY <1>5, <2>1 DEF UnmadeIsNone
<1>13. OnePending'
  BY <1>5, <1>8 DEF AccountInvariant, OnePending
<1>14. ReadingsHold'
  <2> SUFFICES ASSUME NEW u \in AccountTabs PROVE ReadHolds(rpc[u])' \/ rpc'[u].stage # "read"
    BY DEF ReadingsHold, ReadHolds
  <2>1. CASE u = t
    BY <1>3, <1>6, <2>1
  <2>2. CASE u # t
    <3>1. rpc'[u] = rpc[u] /\ ReadHolds(rpc[u])
      BY <1>6, <2>2 DEF AccountInvariant, ReadingsHold
    <3>2. rpc[u].stage = "read" /\ rpc[u].kind = "confirm" => overlap'
      BY <1>7, <2>2 DEF Others
    <3>3. QED
      BY <1>5, <1>7, <1>8, <1>11, <3>1, <3>2 DEF ReadHolds
  <2>3. QED
    BY <2>1, <2>2
<1>15. LoginStaysPossible'
  BY <1>5, <1>11 DEF AccountInvariant, LoginStaysPossible
<1>16. ConfirmedIsEnforced'
  <2> SUFFICES ASSUME ~overlap', Confirmed' # {} PROVE required'
    BY DEF ConfirmedIsEnforced
  <2>1. ~overlap /\ Confirmed # {} /\ Confirmed \ {c} # {}
    BY <1>7, <1>11
  <2>2. rpc[t].typed # 0
    BY <1>1, <2>1 DEF AccountInvariant, ReadingsHold, ReadHolds, c
  <2>3. required
    BY <2>1 DEF AccountInvariant, ConfirmedIsEnforced
  <2>4. QED
    BY <1>7, <2>2, <2>3
<1>17. QED
  BY <1>6, <1>10, <1>12, <1>13, <1>14, <1>15, <1>16 DEF AccountInvariant

\* No step names a credential that was not made.
LEMMA MadeStep ==
  ASSUME AccountInvariant, ShownAreMade, NEW t \in AccountTabs,
         \/ MethodsLoaded(t) \/ OpenSetup(t) \/ OpenRemoveOrRegen(t) \/ Cancel(t)
         \/ Scan(t) \/ NextStep(t) \/ BackToQr(t) \/ OnVerify(t)
         \/ OnSubmitRemove(t) \/ OnSubmitRegen(t) \/ CodesNoted(t)
         \/ EnrollRead(t) \/ EnrollCommit(t) \/ ConfirmRead(t) \/ ConfirmCommit(t) \/ ConfirmFails(t)
         \/ RemoveLoad(t) \/ RemoveRead(t) \/ RemoveCommit(t) \/ HandleRegen(t)
         \/ EnrollShown(t) \/ RefetchMe(t) \/ MeAnswered(t) \/ RegenShown(t)
         \/ RequestFails(t) \/ Unmount(t)
  PROVE  ShownAreMade'
<1>a. /\ dialog \in [AccountTabs -> Dialogs] /\ rpc \in [AccountTabs -> FactorRequests]
      /\ methods \in [AccountTabs -> 0 .. MaxCreds] /\ made \in Nat
  BY AccountAssumption DEF AccountInvariant, AccountShapes
<1>b. /\ dialog[t] \in Dialogs /\ rpc[t] \in FactorRequests
      /\ NoDialog.cred = 0 /\ NoRpc.cred = 0 /\ NoDialog \in Dialogs /\ NoRpc \in FactorRequests
  BY <1>a, AccountAssumption DEF Dialogs, FactorRequests, NoDialog, NoRpc
<1>c. First(Confirmed) <= made
  <2>1. First(Confirmed) \in Confirmed \/ First(Confirmed) = 0
    BY FirstIsOne DEF Confirmed
  <2>2. \A c \in Confirmed : c <= made
    BY <1>a, AccountAssumption DEF AccountInvariant, UnmadeIsNone, Confirmed, Creds
  <2>3. QED
    BY <1>a, <2>1, <2>2
<1>1. made' \in Nat /\ made <= made'
  <2>1. CASE EnrollCommit(t)
    BY <1>a, <2>1 DEF EnrollCommit
  <2>2. CASE UNCHANGED made
    BY <1>a, <2>2
  <2>3. QED
    BY <2>1, <2>2 DEF MethodsLoaded, OpenSetup, OpenRemoveOrRegen, Cancel, Scan, NextStep, BackToQr,
       OnVerify, OnSubmitRemove, OnSubmitRegen, CodesNoted, EnrollRead, ConfirmRead, ConfirmCommit, ConfirmFails, RemoveLoad, RemoveRead, RemoveCommit,
       HandleRegen, EnrollShown, RefetchMe, MeAnswered, RegenShown, RequestFails, Unmount, serverRows
<1>2. \A u \in AccountTabs : methods'[u] \in {methods[u], 0, First(Confirmed)}
  BY <1>a DEF MethodsLoaded, OpenSetup, OpenRemoveOrRegen, Cancel, Scan, NextStep, BackToQr, OnVerify,
     OnSubmitRemove, OnSubmitRegen, CodesNoted, EnrollRead, EnrollCommit, ConfirmRead, ConfirmCommit, ConfirmFails, RemoveLoad, RemoveRead, RemoveCommit,
     HandleRegen, EnrollShown, RefetchMe, MeAnswered, RegenShown, RequestFails, Unmount
<1>3. \A u \in AccountTabs : dialog'[u].cred \in {dialog[u].cred, 0, methods[u], rpc[u].cred}
  <2>1. CASE OpenSetup(t) \/ OpenRemoveOrRegen(t) \/ Cancel(t) \/ CodesNoted(t) \/ Unmount(t)
    <3>1. CASE OpenSetup(t)
      BY <1>a, <1>b, <3>1 DEF OpenSetup, Dialogs
    <3>2. CASE OpenRemoveOrRegen(t)
      BY <1>a, <1>b, <3>2 DEF OpenRemoveOrRegen, Dialogs
    <3>3. QED
      BY <1>a, <1>b, <2>1, <3>1, <3>2 DEF Cancel, CodesNoted, Unmount
  <2>2. CASE NextStep(t) \/ BackToQr(t) \/ EnrollShown(t) \/ MeAnswered(t) \/ RegenShown(t)
    BY <1>a, <1>b, <2>2 DEF NextStep, BackToQr, EnrollShown, MeAnswered, RegenShown, Dialogs
  <2>3. CASE UNCHANGED dialog
    BY <2>3
  <2>4. QED
    BY <2>1, <2>2, <2>3 DEF MethodsLoaded, Scan, OnVerify, OnSubmitRemove, OnSubmitRegen, EnrollRead, EnrollCommit,
       ConfirmRead, ConfirmCommit, ConfirmFails, RemoveLoad, RemoveRead, RemoveCommit, HandleRegen, RefetchMe, RequestFails
<1>4. \A u \in AccountTabs : rpc'[u].cred \in {rpc[u].cred, 0, dialog[u].cred}
                              \/ (EnrollCommit(t) /\ rpc'[u].cred = made + 1)
  <2>1. CASE OpenSetup(t) \/ Cancel(t) \/ OnVerify(t) \/ OnSubmitRemove(t) \/ OnSubmitRegen(t)
    <3>1. CASE OpenSetup(t) \/ Cancel(t)
      BY <1>a, <1>b, <3>1 DEF OpenSetup, Cancel, FactorRequests
    <3>2. CASE OnVerify(t) \/ OnSubmitRegen(t)
      <4>1. PICK q \in FactorRequests : rpc' = [rpc EXCEPT ![t] = q] /\ q.cred \in {0, dialog[t].cred}
        <5>1. app \cup {0} \subseteq 0 .. MaxCreds /\ dialog[t].cred \in 0 .. MaxCreds
          BY <1>a, <1>b, AccountAssumption DEF AccountInvariant, AccountShapes, Dialogs, Creds
        <5>2. \A y \in app \cup {0} :
                 /\ [NoRpc EXCEPT !.kind = "confirm", !.cred = dialog[t].cred, !.typed = y]
                      \in FactorRequests
                 /\ [NoRpc EXCEPT !.kind = "confirm", !.cred = dialog[t].cred, !.typed = y].cred
                      = dialog[t].cred
          BY <5>1 DEF FactorRequests, NoRpc
        <5>3. \A y \in app \cup {0} :
                 /\ [NoRpc EXCEPT !.kind = "regen", !.typed = y] \in FactorRequests
                 /\ [NoRpc EXCEPT !.kind = "regen", !.typed = y].cred = 0
          BY <5>1, <1>b DEF FactorRequests, NoRpc
        <5>4. QED
          BY <3>2, <5>2, <5>3 DEF OnVerify, OnSubmitRegen
      <4>2. QED
        BY <1>a, <4>1
    <3>3. CASE OnSubmitRemove(t)
      BY <1>a, <1>b, <3>3 DEF OnSubmitRemove, FactorRequests
    <3>4. QED
      BY <2>1, <3>1, <3>2, <3>3
  <2>2. CASE EnrollRead(t) \/ EnrollCommit(t) \/ ConfirmRead(t) \/ ConfirmCommit(t) \/ ConfirmFails(t)
             \/ RemoveLoad(t) \/ RemoveRead(t) \/ RemoveCommit(t) \/ HandleRegen(t)
    <3>0. ASSUME NEW q, rpc' = [rpc EXCEPT ![t] = q], q.cred = rpc[t].cred
          PROVE  \A u \in AccountTabs : rpc'[u].cred = rpc[u].cred
      BY <1>a, <3>0
    <3>1. CASE EnrollRead(t)
      <4> DEFINE q == [rpc[t] EXCEPT !.stage = "read", !.stale = {c \in Creds : cred[c] = "pending"},
                                     !.typed = made]
      <4>1. rpc' = [rpc EXCEPT ![t] = q] /\ q.cred = rpc[t].cred
        BY <1>b, <3>1 DEF EnrollRead, FactorRequests
      <4> HIDE DEF q
      <4>2. QED
        BY <3>0, <4>1
    <3>2. CASE EnrollCommit(t)
      <4>1. rpc' = [rpc EXCEPT ![t] = [rpc[t] EXCEPT !.stage = "done", !.cred = made + 1]]
            /\ [rpc[t] EXCEPT !.stage = "done", !.cred = made + 1].cred = made + 1
        BY <1>b, <3>2 DEF EnrollCommit, FactorRequests
      <4>2. QED
        BY <1>a, <3>2, <4>1
    <3>3. CASE ConfirmRead(t) \/ RemoveLoad(t)
      <4>1. /\ \A st, y : [rpc[t] EXCEPT !.stage = st, !.asked = y].cred = rpc[t].cred
            /\ \A st : [rpc[t] EXCEPT !.stage = st].cred = rpc[t].cred
        BY <1>b DEF FactorRequests
      <4>2. \/ \E st, y : rpc' = [rpc EXCEPT ![t] = [rpc[t] EXCEPT !.stage = st, !.asked = y]]
            \/ \E st : rpc' = [rpc EXCEPT ![t] = [rpc[t] EXCEPT !.stage = st]]
        <5>1. CASE RemoveLoad(t)
          BY <5>1 DEF RemoveLoad
        <5>2. CASE ConfirmRead(t) /\ Proved(rpc[t].cred, rpc[t].typed)
          BY <5>2 DEF ConfirmRead
        <5>3. CASE ConfirmRead(t) /\ ~Proved(rpc[t].cred, rpc[t].typed)
          BY <5>3 DEF ConfirmRead
        <5>4. QED
          BY <3>3, <5>1, <5>2, <5>3
      <4>3. \E q : rpc' = [rpc EXCEPT ![t] = q] /\ q.cred = rpc[t].cred
        <5>1. CASE \E st, y : rpc' = [rpc EXCEPT ![t] = [rpc[t] EXCEPT !.stage = st, !.asked = y]]
          <6>1. PICK st, y : rpc' = [rpc EXCEPT ![t] = [rpc[t] EXCEPT !.stage = st, !.asked = y]]
            BY <5>1
          <6> WITNESS [rpc[t] EXCEPT !.stage = st, !.asked = y]
          <6>2. QED
            BY <4>1, <6>1
        <5>2. CASE \E st : rpc' = [rpc EXCEPT ![t] = [rpc[t] EXCEPT !.stage = st]]
          <6>1. PICK st : rpc' = [rpc EXCEPT ![t] = [rpc[t] EXCEPT !.stage = st]]
            BY <5>2
          <6> WITNESS [rpc[t] EXCEPT !.stage = st]
          <6>2. QED
            BY <4>1, <6>1
        <5>3. QED
          BY <4>2, <5>1, <5>2
      <4>4. QED
        BY <3>0, <4>3
    <3>4. CASE RemoveRead(t)
      <4>1. PICK st, y : rpc' = [rpc EXCEPT ![t] = [rpc[t] EXCEPT !.stage = st, !.typed = y]]
        BY <3>4 DEF RemoveRead
      <4>2. [rpc[t] EXCEPT !.stage = st, !.typed = y].cred = rpc[t].cred
        BY <1>b DEF FactorRequests
      <4>3. QED
        BY <3>0, <4>1, <4>2
    <3>5. CASE ConfirmCommit(t) \/ ConfirmFails(t) \/ RemoveCommit(t) \/ HandleRegen(t)
      <4>1. PICK st : rpc' = [rpc EXCEPT ![t] = [rpc[t] EXCEPT !.stage = st]]
        BY <3>5 DEF ConfirmCommit, ConfirmFails, RemoveCommit, HandleRegen, Answer
      <4>2. [rpc[t] EXCEPT !.stage = st].cred = rpc[t].cred
        BY <1>b DEF FactorRequests
      <4>3. QED
        BY <3>0, <4>1, <4>2
    <3>6. QED
      BY <2>2, <3>1, <3>2, <3>3, <3>4, <3>5
  <2>3. CASE EnrollShown(t) \/ RefetchMe(t) \/ MeAnswered(t) \/ RegenShown(t) \/ RequestFails(t)
             \/ Unmount(t)
    BY <1>a, <1>b, <2>3 DEF EnrollShown, RefetchMe, MeAnswered, RegenShown, RequestFails, Unmount,
       FactorRequests
  <2>4. CASE UNCHANGED rpc
    BY <2>4
  <2>5. QED
    BY <2>1, <2>2, <2>3, <2>4 DEF MethodsLoaded, OpenRemoveOrRegen, Scan, NextStep, BackToQr, CodesNoted
<1>5. ASSUME NEW u \in AccountTabs
      PROVE  methods'[u] <= made' /\ dialog'[u].cred <= made' /\ rpc'[u].cred <= made'
  <2>1. /\ methods[u] \in Nat /\ dialog[u].cred \in Nat /\ rpc[u].cred \in Nat
        /\ methods[u] <= made /\ dialog[u].cred <= made /\ rpc[u].cred <= made
        /\ First(Confirmed) \in Nat
    BY <1>a, AccountAssumption, FirstIsOne DEF Dialogs, FactorRequests, ShownAreMade, Confirmed
  <2>2. methods'[u] <= made' /\ dialog'[u].cred <= made'
    BY <1>a, <1>c, <1>1, <1>2, <1>3, <2>1
  <2>3. rpc'[u].cred <= made'
    <3>1. EnrollCommit(t) => made' = made + 1
      BY DEF EnrollCommit
    <3>2. QED
      BY <1>a, <1>1, <1>4, <2>1, <3>1
  <2>4. QED
    BY <2>2, <2>3
<1>6. QED
  BY <1>5 DEF ShownAreMade

\* The two parts of the invariant are inductive together.
LEMMA AccountAlways == AccountSpec => [](AccountInvariant /\ ShownAreMade)
<1>0. AccountInit => ShownAreMade
  BY DEF AccountInit, ShownAreMade, NoDialog, NoRpc
<1>1. ASSUME AccountInvariant, ShownAreMade, [AccountNext]_accountVars
      PROVE  AccountInvariant' /\ ShownAreMade'
  <2>1. CASE UNCHANGED accountVars
    <3>1. /\ UNCHANGED <<cred, made, required, overlap, crossed, app, dialog, rpc, methods>>
          /\ Confirmed' = Confirmed
      BY <2>1 DEF accountVars, Confirmed
    <3>2. AccountShapes' /\ UnmadeIsNone' /\ OnePending' /\ ShownAreMade'
      BY <1>1, <3>1 DEF AccountInvariant, AccountShapes, UnmadeIsNone, OnePending, ShownAreMade
    <3>3. TabsWhole'
      BY <1>1, <3>1 DEF AccountInvariant, TabsWhole, TabWhole
    <3>4. ReadingsHold' /\ LoginStaysPossible' /\ ConfirmedIsEnforced'
      BY <1>1, <3>1 DEF AccountInvariant, ReadingsHold, ReadHolds, LoginStaysPossible, ConfirmedIsEnforced
    <3>5. QED
      BY <3>2, <3>3, <3>4 DEF AccountInvariant
  <2>2. CASE AccountNext
    <3>1. PICK t \in AccountTabs :
            \/ MethodsLoaded(t) \/ OpenSetup(t) \/ OpenRemoveOrRegen(t) \/ Cancel(t)
            \/ Scan(t) \/ NextStep(t) \/ BackToQr(t) \/ OnVerify(t)
            \/ OnSubmitRemove(t) \/ OnSubmitRegen(t) \/ CodesNoted(t)
            \/ EnrollRead(t) \/ EnrollCommit(t) \/ ConfirmRead(t) \/ ConfirmCommit(t) \/ ConfirmFails(t)
         \/ RemoveLoad(t) \/ RemoveRead(t) \/ RemoveCommit(t) \/ HandleRegen(t)
            \/ EnrollShown(t) \/ RefetchMe(t) \/ MeAnswered(t) \/ RegenShown(t)
            \/ RequestFails(t) \/ Unmount(t)
      BY <2>2 DEF AccountNext
    <3>2. AccountInvariant'
      BY <1>1, <3>1, DialogStep, ReadStep, EnrollStep, ConfirmStep, RemoveCommitStep
    <3>3. ShownAreMade'
      BY <1>1, <3>1, MadeStep
    <3>4. QED
      BY <3>2, <3>3
  <2>3. QED
    BY <1>1, <2>1, <2>2
<1>2. QED
  BY AccountInitially, <1>0, <1>1, PTL DEF AccountSpec

\* For any tabs and any number of enrollments: the user's app shows codes for every
\* confirmed credential, so that setting up a second factor locks nobody out.
THEOREM LoginNeverLockedOut == AccountSpec => []LoginStaysPossible
<1>1. AccountInvariant => LoginStaysPossible
  BY DEF AccountInvariant
<1>2. QED
  BY <1>1, AccountAlways, PTL

\* A confirmed second factor is asked for, for any tabs and enrollments, unless a confirmation
\* and a removal came between each other's reading and commit.
THEOREM FactorIsAskedFor == AccountSpec => []ConfirmedIsEnforced
<1>1. AccountInvariant => ConfirmedIsEnforced
  BY DEF AccountInvariant
<1>2. QED
  BY <1>1, AccountAlways, PTL

\* An enrollment that none overtook leaves one pending credential at most, its own, whatever
\* earlier ones that overlapped have left.
THEOREM OneEnrollmentIsPending == AccountSpec => []OnePendingEnrollment
<1>1. ASSUME AccountInvariant PROVE OnePendingEnrollment
  <2> SUFFICES ASSUME ~crossed PROVE Cardinality({c \in Creds : cred[c] = "pending"}) <= 1
    BY DEF OnePendingEnrollment
  <2> DEFINE P == {c \in Creds : cred[c] = "pending"}
  <2>1. CASE P = {}
    <3>1. Cardinality(P) = 0
      BY <2>1, FS_EmptySet
    <3>2. QED
      BY <3>1
  <2>2. CASE P # {}
    <3>1. PICK c \in Creds : P = {c}
      BY <1>1, <2>2 DEF AccountInvariant, OnePending
    <3>2. Cardinality(P) = 1
      BY <3>1, FS_Singleton
    <3>3. QED
      BY <3>2
  <2>3. QED
    BY <2>1, <2>2
<1>2. QED
  BY <1>1, AccountAlways, PTL

\* The types of the account page and of the routes behind it: no dialog shows a code
\* field or recovery codes without a credential they are for.
THEOREM AccountTypes == AccountSpec => []AccountTypeOK
<1>1. ASSUME AccountInvariant PROVE AccountTypeOK
  <2>1. \A t \in AccountTabs : dialog[t].step \in {"verify", "codes"} => dialog[t].cred # 0
    BY <1>1 DEF AccountInvariant, TabsWhole, TabWhole
  <2>2. QED
    BY <1>1, <2>1 DEF AccountInvariant, AccountShapes, AccountTypeOK, Dialogs, FactorRequests
<1>2. QED
  BY <1>1, AccountAlways, PTL

-----------------------------------------------------------------------------
(* The invitations.                                                        *)

Invites == [by : Admins, link : Link, accepted : BOOLEAN, revoked : BOOLEAN, expired : BOOLEAN]

\* The invitations that open have links that were never of no use; each link is one
\* invitation's, and was issued.
LinksFresh(seq, n, used) ==
    /\ seq \in Seq(Invites) /\ used \subseteq 1 .. n
    /\ \A i \in DOMAIN seq : seq[i].link <= n
    /\ \A i, j \in DOMAIN seq : seq[i].link = seq[j].link => i = j
    /\ \A i \in DOMAIN seq : Opens(seq[i]) => seq[i].link \notin used

\* A call that accepts looked its link up while it was good; the invitation it found is
\* the only one that can have the link.
CallGood(acc, seq, n) ==
    /\ acc.late = FALSE /\ acc.invite \in DOMAIN seq /\ acc.link \in 1 .. n
    /\ \A j \in DOMAIN seq : seq[j].link = acc.link => j = acc.invite
CallsGood ==
    \A g \in Guests : accepting[g].kind = "accept" => CallGood(accepting[g], invites, links)

InviteInvariant ==
    /\ links \in 0 .. MaxLinks /\ LinksFresh(invites, links, spent)
    /\ accepting = [g \in Guests |-> accepting[g]] /\ CallsGood
    /\ request = [a \in Admins |-> request[a]]
    /\ \A a \in Admins : request[a].kind = "resend" => request[a].invite \in DOMAIN invites
    /\ SpentLinksStaySpent

\* An invitation keeps its link, or has the next one that is issued.
Reworked(seq, n) ==
    /\ seq \in Seq(Invites) /\ n \in {links, links + 1} /\ n <= MaxLinks
    /\ DOMAIN invites \subseteq DOMAIN seq
    /\ \A i \in DOMAIN seq :
          \/ i \in DOMAIN invites /\ seq[i].link = invites[i].link /\ (Opens(seq[i]) => Opens(invites[i]))
          \/ n = links + 1 /\ seq[i].link = n
    /\ \A i, j \in DOMAIN seq : seq[i].link = links + 1 /\ seq[j].link = links + 1 => i = j

\* Then no call loses its invitation, and no invitation gets a link that was spent.
LEMMA ReworkedInvites ==
  ASSUME InviteInvariant, NEW seq, NEW n, Reworked(seq, n),
         NEW used \in SUBSET (spent \cup {l \in 1 .. n : \A i \in DOMAIN seq : seq[i].link = l => ~Opens(seq[i])})
  PROVE  /\ LinksFresh(seq, n, used) /\ n \in 0 .. MaxLinks
         /\ \A acc : CallGood(acc, invites, links) => CallGood(acc, seq, n)
<1>1. /\ links \in Nat /\ MaxLinks \in Nat /\ n \in Nat /\ links <= n
      /\ invites \in Seq(Invites) /\ seq \in Seq(Invites) /\ spent \subseteq 1 .. links
  BY BackOfficeAssumption DEF InviteInvariant, LinksFresh, Reworked
<1>2. /\ \A i \in DOMAIN seq : seq[i] \in Invites /\ seq[i].link \in Nat
      /\ \A i \in DOMAIN invites : invites[i] \in Invites /\ invites[i].link \in Nat /\ invites[i].link <= links
  <2>1. \A x \in Invites : x.link \in Nat
    BY <1>1 DEF Invites, Link
  <2>2. QED
    BY <1>1, <2>1 DEF InviteInvariant, LinksFresh
<1>3. used \subseteq 1 .. n
  BY <1>1
<1>4. ASSUME NEW i \in DOMAIN seq
      PROVE  seq[i].link <= n /\ (Opens(seq[i]) => seq[i].link \notin used)
  <2>1. CASE n = links + 1 /\ seq[i].link = n
    <3>1. seq[i].link \notin spent
      BY <1>1, <2>1
    <3>2. QED
      BY <1>1, <2>1, <3>1
  <2>2. CASE i \in DOMAIN invites /\ seq[i].link = invites[i].link /\ (Opens(seq[i]) => Opens(invites[i]))
    <3>1. Opens(seq[i]) => seq[i].link \notin spent
      BY <2>2 DEF InviteInvariant, LinksFresh
    <3>2. QED
      BY <1>1, <1>2, <2>2, <3>1
  <2>3. QED
    BY <2>1, <2>2 DEF Reworked
<1>5. ASSUME NEW i \in DOMAIN seq, NEW j \in DOMAIN seq, seq[i].link = seq[j].link PROVE i = j
  <2>1. CASE seq[i].link = links + 1
    BY <1>5, <2>1 DEF Reworked
  <2>2. CASE seq[i].link # links + 1
    <3>1. /\ i \in DOMAIN invites /\ seq[i].link = invites[i].link
          /\ j \in DOMAIN invites /\ seq[j].link = invites[j].link
      BY <1>5, <2>2 DEF Reworked
    <3>2. QED
      BY <1>5, <3>1 DEF InviteInvariant, LinksFresh
  <2>3. QED
    BY <2>1, <2>2
<1>6. ASSUME NEW acc, CallGood(acc, invites, links) PROVE CallGood(acc, seq, n)
  <2>1. acc.late = FALSE /\ acc.invite \in DOMAIN seq /\ acc.link \in 1 .. links
    BY <1>6 DEF CallGood, Reworked
  <2>2. acc.link \in 1 .. n /\ acc.link # links + 1
    BY <1>1, <2>1
  <2>3. ASSUME NEW j \in DOMAIN seq, seq[j].link = acc.link PROVE j = acc.invite
    <3>1. j \in DOMAIN invites /\ invites[j].link = acc.link
      BY <2>2, <2>3 DEF Reworked
    <3>2. QED
      BY <1>6, <3>1 DEF CallGood
  <2>4. QED
    BY <2>1, <2>2, <2>3 DEF CallGood
<1>7. n \in 0 .. MaxLinks
  BY <1>1 DEF Reworked
<1>8. QED
  BY <1>1, <1>3, <1>4, <1>5, <1>6, <1>7 DEF LinksFresh

\* Invitations that stay as they are.
LEMMA SameInvites == InviteInvariant => Reworked(invites, links)
<1> SUFFICES ASSUME InviteInvariant PROVE Reworked(invites, links)
  OBVIOUS
<1>1. links \in Nat /\ links <= MaxLinks /\ LinksFresh(invites, links, spent) /\ links # links + 1
  BY BackOfficeAssumption DEF InviteInvariant
<1>2. QED
  BY <1>1 DEF Reworked, LinksFresh

\* One invitation is marked, or sent again under the next link.
LEMMA OneReworked ==
  ASSUME InviteInvariant, NEW i \in DOMAIN invites, NEW inv \in Invites, NEW n,
         \/ n = links /\ inv.link = invites[i].link /\ (Opens(inv) => Opens(invites[i]))
         \/ n = links + 1 /\ inv.link = n /\ n <= MaxLinks
  PROVE  /\ Reworked([invites EXCEPT ![i] = inv], n)
         /\ DOMAIN [invites EXCEPT ![i] = inv] = DOMAIN invites
<1> DEFINE seq == [invites EXCEPT ![i] = inv]
<1>1. /\ links \in Nat /\ MaxLinks \in Nat /\ links <= MaxLinks /\ invites \in Seq(Invites)
      /\ LinksFresh(invites, links, spent)
  BY BackOfficeAssumption DEF InviteInvariant, LinksFresh
<1>2. i \in 1 .. Len(invites) /\ DOMAIN invites = 1 .. Len(invites)
  BY <1>1
<1>3. seq \in Seq(Invites) /\ DOMAIN seq = DOMAIN invites
      /\ \A j \in DOMAIN invites : seq[j] = IF j = i THEN inv ELSE invites[j]
  BY <1>1, <1>2, ExceptSeq
<1> HIDE DEF seq
<1>4. n \in {links, links + 1} /\ n <= MaxLinks
  BY <1>1
<1>5. \A j \in DOMAIN seq :
          \/ j \in DOMAIN invites /\ seq[j].link = invites[j].link /\ (Opens(seq[j]) => Opens(invites[j]))
          \/ n = links + 1 /\ seq[j].link = n
  BY <1>3
<1>6. ASSUME NEW j \in DOMAIN seq, seq[j].link = links + 1 PROVE j = i
  <2>1. invites[j].link <= links /\ invites[j].link # links + 1
    <3>1. invites[j] \in Invites
      BY <1>1, <1>3
    <3>2. invites[j].link \in Nat
      BY <1>1, <3>1 DEF Invites, Link
    <3>3. QED
      BY <1>1, <1>3, <3>2 DEF LinksFresh
  <2>2. QED
    BY <1>3, <1>6, <2>1
<1>7. QED
  BY <1>3, <1>4, <1>5, <1>6 DEF Reworked, seq

\* What a step may do to the rest.
LEMMA InvitesKept ==
  ASSUME InviteInvariant, Reworked(invites', links'),
         spent' \subseteq Spent(invites'),
         accepting' = [g \in Guests |-> accepting'[g]],
         \A g \in Guests : accepting'[g].kind = "accept" =>
             accepting'[g] = accepting[g] \/ CallGood(accepting'[g], invites, links),
         request' = [a \in Admins |-> request'[a]],
         \A a \in Admins : request'[a].kind = "resend" =>
             request'[a] = request[a] \/ request'[a].invite \in DOMAIN invites,
         \A j \in joined' : j \in joined \/ ~j.late
  PROVE  InviteInvariant'
<1>1. /\ LinksFresh(invites', links', spent') /\ links' \in 0 .. MaxLinks
      /\ \A acc : CallGood(acc, invites, links) => CallGood(acc, invites', links')
  BY ReworkedInvites DEF Spent
<1>2. CallsGood'
  <2>1. \A g \in Guests : accepting'[g].kind = "accept" => CallGood(accepting'[g], invites', links')
    BY <1>1 DEF InviteInvariant, CallsGood
  <2>2. QED
    BY <2>1 DEF CallsGood, CallGood
<1>3. \A a \in Admins : request'[a].kind = "resend" => request'[a].invite \in DOMAIN invites'
  BY DEF InviteInvariant, Reworked
<1>4. SpentLinksStaySpent'
  BY DEF InviteInvariant, SpentLinksStaySpent
<1>5. LinksFresh(invites, links, spent)'
  BY <1>1 DEF LinksFresh, Opens
<1>6. QED
  BY <1>1, <1>2, <1>3, <1>4, <1>5 DEF InviteInvariant

\* The steps that leave the invitations alone.
LEMMA OtherBackSteps ==
  ASSUME InviteInvariant, UNCHANGED <<invites, links, spent, joined, accepting>>,
         request' = [a \in Admins |-> request'[a]],
         \A a \in Admins : request'[a].kind = "resend" =>
             request'[a] = request[a] \/ request'[a].invite \in DOMAIN invites
  PROVE  InviteInvariant'
<1>1. Reworked(invites', links')
  BY SameInvites DEF Reworked, Opens
<1>2. spent' \subseteq Spent(invites')
  BY DEF Spent
<1>3. accepting' = [g \in Guests |-> accepting'[g]]
  BY DEF InviteInvariant
<1>4. QED
  BY <1>1, <1>2, <1>3, InvitesKept

\* An invitation that is marked, with the calls as they are.
LEMMA MarkedInvite ==
  ASSUME InviteInvariant, NEW i \in DOMAIN invites, NEW inv \in Invites,
         inv.link = invites[i].link, Opens(inv) => Opens(invites[i]),
         invites' = [invites EXCEPT ![i] = inv], links' = links, spent' = Spent(invites'),
         UNCHANGED <<joined, request, accepting>>
  PROVE  InviteInvariant'
<1>1. Reworked(invites', links')
  <2>1. Reworked([invites EXCEPT ![i] = inv], links)
    BY OneReworked
  <2>2. QED
    BY <2>1
<1>2. accepting' = [g \in Guests |-> accepting'[g]] /\ request' = [a \in Admins |-> request'[a]]
  BY DEF InviteInvariant
<1>3. QED
  BY <1>1, <1>2, InvitesKept

\* An invitation is added under the next link; what was pending is revoked.
LEMMA InviteWritesStep ==
  ASSUME InviteInvariant, NEW a \in Admins, InviteWrites(a)
  PROVE  InviteInvariant'
<1> DEFINE new == [by |-> a, link |-> links + 1, accepted |-> FALSE, revoked |-> FALSE, expired |-> FALSE]
           marked(i) == [invites[i] EXCEPT !.revoked = @ \/ i \in request[a].prior]
           old == [i \in DOMAIN invites |-> marked(i)]
<1>1. /\ links \in Nat /\ MaxLinks \in Nat /\ links < MaxLinks /\ invites \in Seq(Invites)
      /\ DOMAIN invites = 1 .. Len(invites) /\ Len(invites) \in Nat
      /\ \A i \in DOMAIN invites : invites[i] \in Invites /\ invites[i].link <= links
  BY BackOfficeAssumption DEF InviteInvariant, LinksFresh, InviteWrites
<1>2. new \in Invites /\ new.link = links + 1
  BY <1>1 DEF Invites, Link
<1>3. ASSUME NEW i \in DOMAIN invites
      PROVE  /\ marked(i) \in Invites /\ marked(i).link = invites[i].link
             /\ Opens(marked(i)) => Opens(invites[i])
  <2>1. invites[i] \in Invites
    BY <1>1
  <2>2. (invites[i].revoked \/ i \in request[a].prior) \in BOOLEAN
    OBVIOUS
  <2>3. QED
    BY <2>1, <2>2 DEF Invites, Opens
<1> HIDE DEF marked
<1>4. old \in Seq(Invites) /\ Len(old) = Len(invites) /\ \A i \in DOMAIN invites : old[i] = marked(i)
  <2>1. old \in [1 .. Len(invites) -> Invites]
    BY <1>1, <1>3
  <2>2. QED
    BY <1>1, <2>1
<1>5. invites' = Append(old, new) /\ links' = links + 1 /\ spent' = Spent(invites')
  BY DEF InviteWrites, marked
<1> HIDE DEF old, new
<1>6. /\ Append(old, new) \in Seq(Invites) /\ DOMAIN Append(old, new) = 1 .. Len(invites) + 1
      /\ \A i \in 1 .. Len(invites) : Append(old, new)[i] = marked(i)
      /\ Append(old, new)[Len(invites) + 1] = new
  BY <1>1, <1>2, <1>4
<1>7. Reworked(Append(old, new), links + 1)
  <2>1. ASSUME NEW i \in DOMAIN Append(old, new)
        PROVE  \/ /\ i \in DOMAIN invites /\ Append(old, new)[i].link = invites[i].link
                  /\ Opens(Append(old, new)[i]) => Opens(invites[i])
               \/ i = Len(invites) + 1 /\ Append(old, new)[i].link = links + 1
    <3>1. i \in 1 .. Len(invites) \/ i = Len(invites) + 1
      BY <1>1, <1>6
    <3>2. QED
      BY <1>1, <1>2, <1>3, <1>6, <3>1
  <2>2. ASSUME NEW i \in DOMAIN Append(old, new), Append(old, new)[i].link = links + 1
        PROVE  i = Len(invites) + 1
    <3>1. i \in DOMAIN invites => invites[i].link # links + 1
      BY <1>1 DEF Invites, Link
    <3>2. QED
      BY <2>1, <2>2, <3>1
  <2>3. DOMAIN invites \subseteq DOMAIN Append(old, new)
    BY <1>1, <1>6
  <2>4. links + 1 <= MaxLinks
    BY <1>1
  <2>5. QED
    BY <1>6, <2>1, <2>2, <2>3, <2>4 DEF Reworked
<1>8. Reworked(invites', links')
  BY <1>5, <1>7
<1>9. /\ UNCHANGED <<joined, accepting>> /\ request' = [request EXCEPT ![a] = Idle]
      /\ accepting = [g \in Guests |-> accepting[g]] /\ request = [b \in Admins |-> request[b]]
  BY DEF InviteWrites, InviteInvariant
<1>10. request' = [b \in Admins |-> request'[b]]
       /\ \A b \in Admins : request'[b].kind = "resend" => request'[b] = request[b]
  BY <1>9 DEF Idle
<1>11. QED
  BY <1>5, <1>8, <1>9, <1>10, InvitesKept

\* An invitation that is sent again has the next link, and no use of the one before.
LEMMA ResendWritesStep ==
  ASSUME InviteInvariant, NEW a \in Admins, ResendWrites(a)
  PROVE  InviteInvariant'
<1> DEFINE i == request[a].invite
           inv == [invites[i] EXCEPT !.link = links', !.expired = FALSE, !.revoked = @ /\ ~request[a].revoked]
<1>1. /\ links \in Nat /\ MaxLinks \in Nat /\ links < MaxLinks /\ links' = links + 1
      /\ i \in DOMAIN invites /\ invites[i] \in Invites
  BY BackOfficeAssumption DEF InviteInvariant, LinksFresh, ResendWrites
<1>2. inv \in Invites /\ inv.link = links + 1
  <2>1. links' \in Link /\ (invites[i].revoked /\ ~request[a].revoked) \in BOOLEAN
    BY <1>1 DEF Link
  <2>2. QED
    BY <1>1, <2>1 DEF Invites
<1>3. invites' = [invites EXCEPT ![i] = inv] /\ spent' = Spent(invites')
  BY DEF ResendWrites, Reissued
<1>4. UNCHANGED <<joined, accepting>> /\ request' = [request EXCEPT ![a] = Idle]
  BY DEF ResendWrites
<1> HIDE DEF i, inv
<1>5. Reworked(invites', links')
  <2>1. links + 1 <= MaxLinks
    BY <1>1
  <2>2. Reworked([invites EXCEPT ![i] = inv], links + 1)
    BY <1>1, <1>2, <2>1, OneReworked
  <2>3. QED
    BY <1>1, <1>3, <2>2
<1>6. /\ accepting' = [g \in Guests |-> accepting'[g]] /\ request' = [b \in Admins |-> request'[b]]
      /\ \A b \in Admins : request'[b].kind = "resend" => request'[b] = request[b]
  BY <1>4 DEF InviteInvariant, Idle
<1>7. QED
  BY <1>3, <1>4, <1>5, <1>6, InvitesKept

\* A link is looked up: the invitation that has it opens, so that the link was never of
\* no use.
LEMMA AcceptReadsStep ==
  ASSUME InviteInvariant, NEW g \in Guests, NEW l \in 1 .. links, AcceptReads(g, l)
  PROVE  InviteInvariant'
<1>1. PICK i \in Found(l) :
           IF Addressed \cap DOMAIN rows = {}
           THEN /\ accepting' = [accepting EXCEPT ![g] = [kind |-> "accept", invite |-> i,
                                                         link |-> l, late |-> l \in spent]]
                /\ UNCHANGED <<invites, spent>>
           ELSE /\ invites' = [invites EXCEPT ![i].revoked = TRUE]
                /\ spent' = Spent(invites') /\ UNCHANGED accepting
  BY DEF AcceptReads
<1>2. links' = links /\ UNCHANGED <<rows, joined, request>>
  BY DEF AcceptReads
<1>3. /\ i \in DOMAIN invites /\ invites[i].link = l /\ Opens(invites[i]) /\ invites[i] \in Invites
      /\ \A j \in DOMAIN invites : invites[j].link = l => j = i
      /\ l \notin spent /\ accepting = [h \in Guests |-> accepting[h]]
  BY <1>1 DEF Found, Usable, Pending, Opens, InviteInvariant, LinksFresh
<1>4. CASE Addressed \cap DOMAIN rows = {}
  <2> DEFINE acc == [kind |-> "accept", invite |-> i, link |-> l, late |-> l \in spent]
  <2>1. CallGood(acc, invites, links)
    <3>1. (l \in spent) = FALSE
      BY <1>3
    <3>2. acc = [kind |-> "accept", invite |-> i, link |-> l, late |-> FALSE]
      BY <3>1
    <3>3. QED
      BY <1>3, <3>2 DEF CallGood
  <2>2. accepting' = [accepting EXCEPT ![g] = acc] /\ UNCHANGED <<invites, spent>>
    BY <1>1, <1>4
  <2> HIDE DEF acc
  <2>3. /\ accepting' = [h \in Guests |-> accepting'[h]]
        /\ \A h \in Guests : accepting'[h] = accepting[h] \/ CallGood(accepting'[h], invites, links)
    BY <1>3, <2>1, <2>2
  <2>4. Reworked(invites', links')
    BY <1>2, <2>2, SameInvites DEF Reworked, Opens
  <2>5. spent' \subseteq Spent(invites')
    BY <2>2 DEF Spent
  <2>6. request' = [a \in Admins |-> request'[a]]
    BY <1>2 DEF InviteInvariant
  <2>7. QED
    BY <1>2, <2>3, <2>4, <2>5, <2>6, InvitesKept
<1>5. CASE Addressed \cap DOMAIN rows # {}
  <2> DEFINE inv == [invites[i] EXCEPT !.revoked = TRUE]
  <2>1. inv \in Invites /\ inv.link = invites[i].link /\ ~Opens(inv)
    BY <1>3 DEF Invites, Opens
  <2>2. invites' = [invites EXCEPT ![i] = inv] /\ spent' = Spent(invites') /\ UNCHANGED accepting
    BY <1>1, <1>5
  <2> HIDE DEF inv
  <2>3. QED
    BY <1>2, <1>3, <2>1, <2>2, MarkedInvite
<1>6. QED
  BY <1>4, <1>5

\* The account is made: the link is of no use from now on, and it was of use when it was
\* looked up.
LEMMA AcceptWritesStep ==
  ASSUME InviteInvariant, NEW g \in Guests, AcceptWrites(g)
  PROVE  InviteInvariant'
<1> DEFINE i == accepting[g].invite
           inv == [invites[i] EXCEPT !.accepted = TRUE]
           l == accepting[g].link
<1>1. /\ CallGood(accepting[g], invites, links) /\ links' = links /\ UNCHANGED request
      /\ accepting' = [accepting EXCEPT ![g] = Idle] /\ accepting = [h \in Guests |-> accepting[h]]
  BY DEF AcceptWrites, InviteInvariant, CallsGood
<1>2. /\ i \in DOMAIN invites /\ invites[i] \in Invites /\ l \in 1 .. links
      /\ invites \in Seq(Invites) /\ DOMAIN invites = 1 .. Len(invites)
  BY <1>1 DEF CallGood, InviteInvariant, LinksFresh
<1>3. /\ accepting' = [h \in Guests |-> accepting'[h]] /\ request' = [a \in Admins |-> request'[a]]
      /\ \A h \in Guests : accepting'[h].kind = "accept" => accepting'[h] = accepting[h]
  BY <1>1 DEF InviteInvariant, Idle
<1>4. CASE "invitee" \in DOMAIN rows
  <2>1. UNCHANGED <<invites, spent, joined>>
    BY <1>4 DEF AcceptWrites
  <2>2. Reworked(invites', links')
    BY <1>1, <2>1, SameInvites DEF Reworked, Opens
  <2>3. spent' \subseteq Spent(invites')
    BY <2>1 DEF Spent
  <2>4. QED
    BY <1>1, <1>3, <2>1, <2>2, <2>3, InvitesKept
<1>5. CASE "invitee" \notin DOMAIN rows
  <2>1. /\ invites' = [invites EXCEPT ![i] = inv] /\ spent' = Spent(invites') \cup {l}
        /\ joined' = joined \cup {[link |-> l, late |-> accepting[g].late]}
    BY <1>5 DEF AcceptWrites, Stamped
  <2>2. inv \in Invites /\ inv.link = invites[i].link /\ ~Opens(inv)
    BY <1>2 DEF Invites, Opens
  <2> HIDE DEF inv, i
  <2>3. Reworked([invites EXCEPT ![i] = inv], links)
    BY <1>2, <2>2, OneReworked
  <2>4. Reworked(invites', links')
    BY <1>1, <2>1, <2>3
  <2>5. l \in Spent(invites')
    <3>1. \A j \in DOMAIN invites' : invites'[j].link = l => ~Opens(invites'[j])
      <4>1. /\ DOMAIN invites' = DOMAIN invites
            /\ \A j \in DOMAIN invites : invites'[j] = IF j = i THEN inv ELSE invites[j]
        BY <2>1
      <4>2. \A j \in DOMAIN invites : invites[j].link = l => j = i
        BY <1>1 DEF CallGood, i
      <4>3. QED
        BY <2>2, <4>1, <4>2
    <3>2. QED
      BY <1>1, <1>2, <3>1 DEF Spent
  <2>6. spent' \subseteq Spent(invites')
    BY <2>1, <2>5
  <2>7. \A j \in joined' : j \in joined \/ ~j.late
    BY <1>1, <2>1 DEF CallGood
  <2>8. QED
    BY <1>1, <1>3, <2>4, <2>6, <2>7, InvitesKept
<1>6. QED
  BY <1>4, <1>5

\* The steps of an admin.
LEMMA AdminStep ==
  ASSUME InviteInvariant, NEW a \in Admins,
         \/ UserTable(a) \/ TenantHeader(a) \/ PendingInvites(a)
         \/ CreateUserWrites(a) \/ InviteWrites(a) \/ InviteRefused(a) \/ ResendWrites(a)
  PROVE  InviteInvariant'
<1>0. request = [b \in Admins |-> request[b]]
  BY DEF InviteInvariant
<1>1. CASE UserTable(a)
  <2>1. UNCHANGED <<invites, links, spent, joined, request, accepting>>
    BY <1>1 DEF UserTable, SetPassword, DeleteUser, SaveUser
  <2>2. QED
    BY <1>0, <2>1, OtherBackSteps
<1>2. CASE TenantHeader(a) \/ CreateUserWrites(a) \/ InviteRefused(a)
  <2>1. UNCHANGED <<invites, links, spent, joined, accepting>>
    BY <1>2 DEF TenantHeader, InviteReads, CreateUserReads, CreateUserWrites, InviteRefused
  <2>2. PICK q : request' = [request EXCEPT ![a] = q] /\ q.kind # "resend"
    <3>1. ASSUME NEW u, NEW super, CreateUserReads(a, u, super)
          PROVE  \E q : request' = [request EXCEPT ![a] = q] /\ q.kind # "resend"
      <4>1. [kind |-> "new", who |-> u, super |-> super].kind # "resend"
        OBVIOUS
      <4>2. QED
        BY <3>1, <4>1 DEF CreateUserReads
    <3>2. ASSUME InviteReads(a)
          PROVE  \E q : request' = [request EXCEPT ![a] = q] /\ q.kind # "resend"
      <4>1. [kind |-> "invite", prior |-> {i \in DOMAIN invites : Pending(invites[i])}].kind # "resend"
        OBVIOUS
      <4>2. QED
        BY <3>2, <4>1 DEF InviteReads
    <3>3. Idle.kind # "resend"
      BY DEF Idle
    <3>4. QED
      BY <1>2, <3>1, <3>2, <3>3 DEF TenantHeader, CreateUserWrites, InviteRefused
  <2>3. /\ request' = [b \in Admins |-> request'[b]]
        /\ \A b \in Admins : request'[b].kind = "resend" => request'[b] = request[b]
    BY <1>0, <2>2
  <2>4. QED
    BY <2>1, <2>3, OtherBackSteps
<1>3. ASSUME NEW i \in DOMAIN invites, Revoke(a, i) PROVE InviteInvariant'
  <2> DEFINE inv == [invites[i] EXCEPT !.revoked = TRUE]
  <2>1. invites[i] \in Invites
    BY DEF InviteInvariant, LinksFresh
  <2>2. inv \in Invites /\ inv.link = invites[i].link /\ ~Opens(inv)
    BY <2>1 DEF Invites, Opens
  <2>3. /\ invites' = [invites EXCEPT ![i] = inv] /\ links' = links /\ spent' = Spent(invites')
        /\ UNCHANGED <<joined, request, accepting>>
    BY <1>3 DEF Revoke
  <2> HIDE DEF inv
  <2>4. QED
    BY <2>2, <2>3, MarkedInvite
<1>4. ASSUME NEW i \in DOMAIN invites, ResendReads(a, i) PROVE InviteInvariant'
  <2>1. UNCHANGED <<invites, links, spent, joined, accepting>>
    BY <1>4 DEF ResendReads
  <2>2. PICK q : request' = [request EXCEPT ![a] = q] /\ q.invite = i
    <3>1. [kind |-> "resend", invite |-> i, revoked |-> invites[i].revoked].invite = i
      OBVIOUS
    <3>2. QED
      BY <1>4, <3>1 DEF ResendReads
  <2>3. /\ request' = [b \in Admins |-> request'[b]]
        /\ \A b \in Admins : request'[b] = request[b] \/ request'[b].invite \in DOMAIN invites
    BY <1>0, <2>2
  <2>4. QED
    BY <2>1, <2>3, OtherBackSteps
<1>5. QED
  BY <1>1, <1>2, <1>3, <1>4, InviteWritesStep, ResendWritesStep DEF PendingInvites

\* No step of an admin or a guest, nor time, brings a spent link back.
LEMMA InviteSteps ==
  ASSUME InviteInvariant, [BackOfficeNext]_backVars
  PROVE  InviteInvariant'
<1>1. CASE UNCHANGED backVars
  BY <1>1, OtherBackSteps DEF backVars, InviteInvariant
<1>2. ASSUME NEW i \in DOMAIN invites, Expire(i) PROVE InviteInvariant'
  <2> DEFINE inv == [invites[i] EXCEPT !.expired = TRUE]
  <2>1. invites[i] \in Invites
    BY DEF InviteInvariant, LinksFresh
  <2>2. inv \in Invites /\ inv.link = invites[i].link /\ ~Opens(inv)
    BY <2>1 DEF Invites, Opens
  <2>3. /\ invites' = [invites EXCEPT ![i] = inv] /\ links' = links /\ spent' = Spent(invites')
        /\ UNCHANGED <<joined, request, accepting>>
    BY <1>2 DEF Expire
  <2> HIDE DEF inv
  <2>4. QED
    BY <2>2, <2>3, MarkedInvite
<1>3. QED
  BY <1>1, <1>2, AdminStep, AcceptReadsStep, AcceptWritesStep DEF BackOfficeNext

\* At first there is none.
LEMMA InvitesStart == BackOfficeInit => InviteInvariant
<1> SUFFICES ASSUME BackOfficeInit PROVE InviteInvariant
  OBVIOUS
<1>1. LinksFresh(invites, links, spent)
  BY DEF BackOfficeInit, LinksFresh
<1>2. links \in 0 .. MaxLinks
  BY BackOfficeAssumption DEF BackOfficeInit
<1>3. CallsGood /\ \A a \in Admins : request[a].kind # "resend"
  BY DEF BackOfficeInit, CallsGood, Idle
<1>4. QED
  BY <1>1, <1>2, <1>3 DEF BackOfficeInit, InviteInvariant, SpentLinksStaySpent

\* For any admins, guests, invitations and links, a link is of no use for good once it was
\* accepted, revoked, replaced or let expire: no call that looked it up later makes an account.
THEOREM SpentLinksMakeNoAccount == BackOfficeSpec => []SpentLinksStaySpent
<1>1. InviteInvariant => SpentLinksStaySpent
  BY DEF InviteInvariant
<1>2. QED
  BY <1>1, InvitesStart, InviteSteps, PTL DEF BackOfficeSpec
-----------------------------------------------------------------------------
(* The users and the invitations: the types.                               *)

\* The calls under way, when d are the numbers of the invitations.
AdminCalls(d) ==
    {Idle} \cup [kind : {"invite"}, prior : SUBSET d]
           \cup [kind : {"resend"}, invite : d, revoked : BOOLEAN]
           \cup [kind : {"new"}, who : Addressed, super : BOOLEAN]
GuestCalls(d) == {Idle} \cup [kind : {"accept"}, invite : d, link : Link, late : BOOLEAN]

RowsWhole(r, s) ==
    /\ DOMAIN r \subseteq Accounts /\ \A u \in DOMAIN r : r[u] \in Row
    /\ s \subseteq {u \in DOMAIN r : r[u].active}

\* A sender of an invitation stays in the table.
OfficeShapes ==
    /\ RowsWhole(rows, signedIn)
    /\ Len(invites) <= MaxInvites /\ \A i \in DOMAIN invites : invites[i].by \in DOMAIN rows
    /\ edits \in 0 .. MaxEdits /\ joined \subseteq [link : Link, late : BOOLEAN]
    /\ \A a \in Admins : request[a] \in AdminCalls(DOMAIN invites)
    /\ \A g \in Guests : accepting[g] \in GuestCalls(DOMAIN invites)

LEMMA OfficeStarts == BackOfficeInit => OfficeShapes
<1> SUFFICES ASSUME BackOfficeInit PROVE OfficeShapes
  OBVIOUS
<1>1. RowsWhole(rows, signedIn)
  BY DEF BackOfficeInit, RowsWhole, Accounts, Row
<1>2. Len(invites) = 0 /\ DOMAIN invites = {}
  BY DEF BackOfficeInit
<1>3. QED
  BY <1>1, <1>2, BackOfficeAssumption DEF BackOfficeInit, OfficeShapes, AdminCalls, GuestCalls

\* What a step has to show: that the invitations are no fewer, and that what it changes
\* is of its kind.
LEMMA OfficeKept ==
  ASSUME OfficeShapes, DOMAIN invites \subseteq DOMAIN invites', Len(invites') <= MaxInvites,
         \A i \in DOMAIN invites' : invites'[i].by \in DOMAIN rows',
         RowsWhole(rows', signedIn'),
         edits' \in 0 .. MaxEdits, joined' \subseteq [link : Link, late : BOOLEAN],
         \A a \in Admins : request'[a] = request[a] \/ request'[a] \in AdminCalls(DOMAIN invites'),
         \A g \in Guests : accepting'[g] = accepting[g] \/ accepting'[g] \in GuestCalls(DOMAIN invites')
  PROVE  OfficeShapes'
<1>1. AdminCalls(DOMAIN invites) \subseteq AdminCalls(DOMAIN invites')
  BY DEF AdminCalls
<1>2. GuestCalls(DOMAIN invites) \subseteq GuestCalls(DOMAIN invites')
  BY DEF GuestCalls
<1>3. \A a \in Admins : request'[a] \in AdminCalls(DOMAIN invites')
  BY <1>1 DEF OfficeShapes
<1>4. \A g \in Guests : accepting'[g] \in GuestCalls(DOMAIN invites')
  BY <1>2 DEF OfficeShapes
<1>5. RowsWhole(rows, signedIn)'
  BY DEF RowsWhole, Accounts, Row
<1>6. AdminCalls(DOMAIN invites)' = AdminCalls(DOMAIN invites')
  BY DEF AdminCalls, Idle, Addressed
<1>7. GuestCalls(DOMAIN invites)' = GuestCalls(DOMAIN invites')
  BY DEF GuestCalls, Idle, Link
<1>8. QED
  BY <1>3, <1>4, <1>5, <1>6, <1>7 DEF OfficeShapes, Link

\* The rows, as a call leaves them.
LEMMA RowsKept ==
  ASSUME RowsWhole(rows, signedIn), NEW u \in Accounts, NEW row \in Row
  PROVE  /\ u \in DOMAIN rows /\ Updated(u, row) => RowsWhole(rows', signedIn') /\ DOMAIN rows' = DOMAIN rows
         /\ PasswordSet(u) => RowsWhole(rows', signedIn') /\ DOMAIN rows' = DOMAIN rows
         /\ Deleted(u) => RowsWhole(rows', signedIn') /\ DOMAIN rows' = DOMAIN rows \ {u}
         /\ u \notin DOMAIN rows /\ Inserted(u, row) =>
              /\ DOMAIN rows' = DOMAIN rows \cup {u} /\ RowsWhole(rows', signedIn)
              /\ row.active => RowsWhole(rows', signedIn \cup {u})
<1>1. ASSUME u \in DOMAIN rows, Updated(u, row) PROVE RowsWhole(rows', signedIn') /\ DOMAIN rows' = DOMAIN rows
  <2>1. DOMAIN rows' = DOMAIN rows /\ \A v \in DOMAIN rows : rows'[v] = IF v = u THEN row ELSE rows[v]
    BY <1>1 DEF Updated
  <2>2. \A v \in signedIn' : v \in signedIn /\ (v = u => row.active)
    BY <1>1 DEF Updated, Row
  <2>3. QED
    BY <2>1, <2>2 DEF RowsWhole
<1>2. ASSUME PasswordSet(u) PROVE RowsWhole(rows', signedIn') /\ DOMAIN rows' = DOMAIN rows
  BY <1>2 DEF PasswordSet, RowsWhole
<1>3. ASSUME Deleted(u) PROVE RowsWhole(rows', signedIn') /\ DOMAIN rows' = DOMAIN rows \ {u}
  <2>1. DOMAIN rows' = DOMAIN rows \ {u} /\ \A v \in DOMAIN rows \ {u} : rows'[v] = rows[v]
    BY <1>3 DEF Deleted, Restrict
  <2>2. QED
    BY <1>3, <2>1 DEF Deleted, RowsWhole
<1>4. ASSUME u \notin DOMAIN rows, Inserted(u, row)
      PROVE  /\ DOMAIN rows' = DOMAIN rows \cup {u} /\ RowsWhole(rows', signedIn)
             /\ row.active => RowsWhole(rows', signedIn \cup {u})
  <2>1. /\ DOMAIN rows' = DOMAIN rows \cup {u}
        /\ \A v \in DOMAIN rows \cup {u} : rows'[v] = IF v = u THEN row ELSE rows[v]
    BY <1>4 DEF Inserted
  <2>2. QED
    BY <1>4, <2>1 DEF RowsWhole
<1>5. QED
  BY <1>1, <1>2, <1>3, <1>4

\* A user is saved, gets a password, is deleted.
LEMMA UserTableSteps ==
  ASSUME OfficeShapes, NEW a \in Admins, UserTable(a)
  PROVE  OfficeShapes'
<1>1. PICK u \in Accounts : SetPassword(a, u) \/ DeleteUser(a, u) \/ \E row \in Row : SaveUser(a, u, row)
  BY DEF UserTable
<1>2. /\ UNCHANGED <<invites, joined, request, accepting>> /\ edits < MaxEdits /\ edits' = edits + 1
      /\ u \in DOMAIN rows
  BY <1>1 DEF SetPassword, DeleteUser, SaveUser, Submits
<1>3. edits' \in 0 .. MaxEdits
  BY <1>2, BackOfficeAssumption DEF OfficeShapes
<1>4. CASE \E row \in Row : SaveUser(a, u, row)
  <2>1. RowsWhole(rows', signedIn') /\ DOMAIN rows' = DOMAIN rows
    BY <1>2, <1>4, RowsKept DEF SaveUser, OfficeShapes
  <2>2. QED
    BY <1>2, <1>3, <2>1, OfficeKept DEF OfficeShapes
<1>5. CASE SetPassword(a, u)
  <2>1. RowsWhole(rows', signedIn') /\ DOMAIN rows' = DOMAIN rows
    BY <1>5 DEF SetPassword, PasswordSet, OfficeShapes, RowsWhole
  <2>2. QED
    BY <1>2, <1>3, <2>1, OfficeKept DEF OfficeShapes
<1>6. CASE DeleteUser(a, u)
  <2>1. [active |-> TRUE, super |-> TRUE] \in Row
    BY DEF Row
  <2>2. RowsWhole(rows', signedIn') /\ DOMAIN rows' = DOMAIN rows \ {u} /\ InvitedNobody(u)
    BY <1>6, <2>1, RowsKept DEF DeleteUser, OfficeShapes
  <2>3. \A i \in DOMAIN invites : invites[i].by \in DOMAIN rows'
    BY <2>2 DEF InvitedNobody, OfficeShapes
  <2>4. QED
    BY <1>2, <1>3, <2>2, <2>3, OfficeKept DEF OfficeShapes
<1>7. QED
  BY <1>1, <1>4, <1>5, <1>6

\* A user is added.
LEMMA CreateUserSteps ==
  ASSUME InviteInvariant, OfficeShapes, NEW a \in Admins,
         CreateUserWrites(a) \/ \E u \in Addressed, super \in BOOLEAN : CreateUserReads(a, u, super)
  PROVE  OfficeShapes'
<1>1. request = [b \in Admins |-> request[b]]
  BY DEF InviteInvariant
<1>2. ASSUME NEW u \in Addressed, NEW super \in BOOLEAN, CreateUserReads(a, u, super) PROVE OfficeShapes'
  <2>1. [kind |-> "new", who |-> u, super |-> super] \in AdminCalls(DOMAIN invites)
    BY DEF AdminCalls
  <2>2. UNCHANGED <<rows, signedIn, invites, joined, accepting>> /\ edits < MaxEdits /\ edits' = edits + 1
    BY <1>2 DEF CreateUserReads, Submits
  <2>3. \A b \in Admins : request'[b] = request[b] \/ request'[b] \in AdminCalls(DOMAIN invites)
    BY <1>1, <1>2, <2>1 DEF CreateUserReads
  <2>4. edits' \in 0 .. MaxEdits
    BY <2>2, BackOfficeAssumption DEF OfficeShapes
  <2>5. QED
    BY <2>2, <2>3, <2>4, OfficeKept DEF OfficeShapes
<1>3. CASE CreateUserWrites(a)
  <2> DEFINE u == request[a].who
  <2>1. u \in Addressed /\ request[a].super \in BOOLEAN
    BY <1>3 DEF CreateUserWrites, OfficeShapes, AdminCalls, Idle
  <2>2. \A b \in Admins : request'[b] = request[b] \/ request'[b] \in AdminCalls(DOMAIN invites)
    BY <1>1, <1>3 DEF CreateUserWrites, AdminCalls
  <2>3. Active(request[a].super) \in Row /\ u \in Accounts
    BY <2>1 DEF Active, Row, Accounts
  <2>4. UNCHANGED <<signedIn, invites, joined, edits, accepting>>
    BY <1>3 DEF CreateUserWrites
  <2>5. RowsWhole(rows', signedIn') /\ DOMAIN rows \subseteq DOMAIN rows'
    <3>1. CASE u \in DOMAIN rows
      BY <1>3, <2>4, <3>1 DEF CreateUserWrites, OfficeShapes
    <3>2. CASE u \notin DOMAIN rows
      <4>1. Inserted(u, Active(request[a].super))
        BY <1>3, <3>2 DEF CreateUserWrites
      <4>2. QED
        BY <2>3, <2>4, <3>2, <4>1, RowsKept DEF OfficeShapes
    <3>3. QED
      BY <3>1, <3>2
  <2>6. QED
    BY <2>2, <2>4, <2>5, OfficeKept DEF OfficeShapes
<1>4. QED
  BY <1>2, <1>3

\* A call reads, or is refused.
LEMMA OfficeReadSteps ==
  ASSUME InviteInvariant, OfficeShapes, NEW a \in Admins,
         InviteReads(a) \/ InviteRefused(a) \/ \E i \in DOMAIN invites : ResendReads(a, i)
  PROVE  OfficeShapes'
<1>1. request = [b \in Admins |-> request[b]] /\ invites \in Seq(Invites)
  BY DEF InviteInvariant, LinksFresh
<1>2. UNCHANGED <<rows, signedIn, invites, joined, edits, accepting>>
  BY DEF InviteReads, InviteRefused, ResendReads
<1>3. PICK q \in AdminCalls(DOMAIN invites) : request' = [request EXCEPT ![a] = q]
  <2>1. Idle \in AdminCalls(DOMAIN invites)
    BY DEF AdminCalls
  <2>2. [kind |-> "invite", prior |-> {i \in DOMAIN invites : Pending(invites[i])}] \in AdminCalls(DOMAIN invites)
    BY DEF AdminCalls
  <2>3. ASSUME NEW i \in DOMAIN invites
        PROVE  [kind |-> "resend", invite |-> i, revoked |-> invites[i].revoked] \in AdminCalls(DOMAIN invites)
    <3>1. invites[i] \in Invites
      BY <1>1
    <3>2. invites[i].revoked \in BOOLEAN
      BY <3>1 DEF Invites
    <3>3. QED
      BY <3>2 DEF AdminCalls
  <2>4. QED
    BY <2>1, <2>2, <2>3 DEF InviteReads, InviteRefused, ResendReads
<1>4. \A b \in Admins : request'[b] = request[b] \/ request'[b] \in AdminCalls(DOMAIN invites)
  BY <1>1, <1>3
<1>5. QED
  BY <1>2, <1>4, OfficeKept DEF OfficeShapes

\* The invitations change: each that was there keeps its sender.
LEMMA OfficeInvites ==
  ASSUME OfficeShapes, InviteInvariant, InviteInvariant',
         UNCHANGED <<rows, signedIn, edits>>,
         Len(invites') \in {Len(invites), Len(invites) + 1} /\ Len(invites') <= MaxInvites,
         \A i \in DOMAIN invites : invites'[i].by = invites[i].by,
         \A i \in DOMAIN invites' \ DOMAIN invites : invites'[i].by \in DOMAIN rows,
         joined' \subseteq [link : Link, late : BOOLEAN],
         \A a \in Admins : request'[a] \in {request[a], Idle},
         \A g \in Guests : accepting'[g] = accepting[g] \/ accepting'[g] \in GuestCalls(DOMAIN invites)
  PROVE  OfficeShapes'
<1>1. invites \in Seq(Invites) /\ invites' \in Seq(Invites)
  BY DEF InviteInvariant, LinksFresh, Invites, Link
<1>2. DOMAIN invites \subseteq DOMAIN invites'
  BY <1>1
<1>3. \A i \in DOMAIN invites' : invites'[i].by \in DOMAIN rows'
  BY DEF OfficeShapes
<1>4. \A a \in Admins : request'[a] = request[a] \/ request'[a] \in AdminCalls(DOMAIN invites')
  BY DEF AdminCalls
<1>5. GuestCalls(DOMAIN invites) \subseteq GuestCalls(DOMAIN invites')
  BY <1>2 DEF GuestCalls
<1>6. QED
  BY <1>2, <1>3, <1>4, <1>5, OfficeKept DEF OfficeShapes

\* One invitation is marked, and nothing else but the calls.
LEMMA OfficeMarked ==
  ASSUME OfficeShapes, InviteInvariant, InviteInvariant', UNCHANGED <<rows, signedIn, edits>>,
         NEW i \in DOMAIN invites, NEW inv, invites' = [invites EXCEPT ![i] = inv], inv.by = invites[i].by,
         joined' \subseteq [link : Link, late : BOOLEAN],
         \A a \in Admins : request'[a] \in {request[a], Idle},
         \A g \in Guests : accepting'[g] = accepting[g] \/ accepting'[g] \in GuestCalls(DOMAIN invites)
  PROVE  OfficeShapes'
<1>1. invites \in Seq(Invites) /\ invites' \in Seq(Invites) /\ DOMAIN invites' = DOMAIN invites
  BY DEF InviteInvariant, LinksFresh, Invites, Link
<1>2. Len(invites') = Len(invites) /\ Len(invites) \in Nat
  BY <1>1
<1>3. \A j \in DOMAIN invites : invites'[j].by = invites[j].by
  BY <1>1
<1>4. QED
  BY <1>1, <1>2, <1>3, OfficeInvites DEF OfficeShapes

\* An invitation is added, sent again, revoked, or runs out.
LEMMA OfficeWriteSteps ==
  ASSUME InviteInvariant, InviteInvariant', OfficeShapes,
         \/ \E a \in Admins : InviteWrites(a) \/ ResendWrites(a) \/ \E i \in DOMAIN invites : Revoke(a, i)
         \/ \E i \in DOMAIN invites : Expire(i)
  PROVE  OfficeShapes'
<1>1. invites \in Seq(Invites) /\ request = [b \in Admins |-> request[b]]
  BY DEF InviteInvariant, LinksFresh
<1>2. ASSUME NEW a \in Admins, InviteWrites(a) PROVE OfficeShapes'
  <2> DEFINE new == [by |-> a, link |-> links + 1, accepted |-> FALSE, revoked |-> FALSE, expired |-> FALSE]
             old == [i \in DOMAIN invites |-> [invites[i] EXCEPT !.revoked = @ \/ i \in request[a].prior]]
  <2>1. invites' = Append(old, new) /\ a \in DOMAIN rows /\ Len(invites) < MaxInvites
    BY <1>2 DEF InviteWrites
  <2>2. \A i \in DOMAIN invites : invites[i] \in Invites
    BY <1>1
  <2>3. \A i \in DOMAIN invites : old[i].by = invites[i].by /\ old[i] \in Invites
    BY <2>2 DEF Invites
  <2>4. old \in Seq(Invites) /\ Len(old) = Len(invites) /\ Len(invites) \in Nat
    <3>1. DOMAIN old = 1 .. Len(invites) /\ Len(invites) \in Nat
      BY <1>1
    <3>2. QED
      BY <2>3, <3>1
  <2>5. new.by = a
    OBVIOUS
  <2> HIDE DEF old, new
  <2>6. /\ Len(invites') = Len(invites) + 1 /\ DOMAIN invites' = 1 .. Len(invites) + 1
        /\ DOMAIN invites = 1 .. Len(invites)
        /\ \A i \in 1 .. Len(invites) : invites'[i] = old[i]
        /\ invites'[Len(invites) + 1] = new
    BY <1>1, <2>1, <2>4
  <2>7. \A i \in DOMAIN invites : invites'[i].by = invites[i].by
    BY <2>3, <2>6
  <2>8. \A i \in DOMAIN invites' \ DOMAIN invites : invites'[i].by \in DOMAIN rows
    BY <2>1, <2>4, <2>5, <2>6
  <2>9. UNCHANGED <<rows, signedIn, edits, joined, accepting>> /\ \A b \in Admins : request'[b] \in {request[b], Idle}
    BY <1>1, <1>2 DEF InviteWrites
  <2>10. Len(invites') <= MaxInvites
    BY <2>1, <2>4, <2>6, BackOfficeAssumption
  <2>11. QED
    BY <2>6, <2>7, <2>8, <2>9, <2>10, OfficeInvites DEF OfficeShapes
<1>3. ASSUME NEW a \in Admins, ResendWrites(a) PROVE OfficeShapes'
  <2> DEFINE i == request[a].invite
             inv == [invites[i] EXCEPT !.link = Reissued(invites[i]), !.expired = FALSE,
                                       !.revoked = invites[i].revoked /\ ~request[a].revoked]
  <2>1. i \in DOMAIN invites
    BY <1>3 DEF ResendWrites, InviteInvariant
  <2>2. invites[i] \in Invites
    BY <1>1, <2>1
  <2>3. inv.by = invites[i].by
    BY <2>2 DEF Invites
  <2>4. /\ invites' = [invites EXCEPT ![i] = inv] /\ UNCHANGED <<rows, signedIn, edits, joined, accepting>>
        /\ \A b \in Admins : request'[b] \in {request[b], Idle}
    BY <1>1, <1>3 DEF ResendWrites
  <2> HIDE DEF inv
  <2>5. QED
    BY <2>1, <2>3, <2>4, OfficeMarked DEF OfficeShapes
<1>4. ASSUME NEW a, NEW i \in DOMAIN invites, Revoke(a, i) \/ Expire(i) PROVE OfficeShapes'
  <2>1. invites[i] \in Invites
    BY <1>1
  <2>2. [invites[i] EXCEPT !.revoked = TRUE].by = invites[i].by /\ [invites[i] EXCEPT !.expired = TRUE].by = invites[i].by
    BY <2>1 DEF Invites
  <2>3. UNCHANGED <<rows, signedIn, edits, joined, request, accepting>>
    BY <1>4 DEF Revoke, Expire
  <2>4. CASE Revoke(a, i)
    BY <2>2, <2>3, <2>4, OfficeMarked DEF Revoke, OfficeShapes
  <2>5. CASE Expire(i)
    BY <2>2, <2>3, <2>5, OfficeMarked DEF Expire, OfficeShapes
  <2>6. QED
    BY <1>4, <2>4, <2>5
<1>5. QED
  BY <1>2, <1>3, <1>4

\* A link is opened, an account is made.
LEMMA OfficeAcceptSteps ==
  ASSUME InviteInvariant, InviteInvariant', OfficeShapes, NEW g \in Guests,
         AcceptWrites(g) \/ \E l \in 1 .. links : AcceptReads(g, l)
  PROVE  OfficeShapes'
<1>1. /\ invites \in Seq(Invites) /\ accepting = [h \in Guests |-> accepting[h]]
      /\ links \in 0 .. MaxLinks /\ MaxLinks \in Nat
  BY BackOfficeAssumption DEF InviteInvariant, LinksFresh
<1>2. ASSUME NEW l \in 1 .. links, AcceptReads(g, l) PROVE OfficeShapes'
  <2>1. UNCHANGED <<rows, signedIn, joined, edits, request>>
    BY <1>2 DEF AcceptReads
  <2>2. PICK i \in Found(l) :
           IF Addressed \cap DOMAIN rows = {}
           THEN /\ accepting' = [accepting EXCEPT ![g] = [kind |-> "accept", invite |-> i,
                                                         link |-> l, late |-> l \in spent]]
                /\ UNCHANGED <<invites, spent>>
           ELSE invites' = [invites EXCEPT ![i].revoked = TRUE] /\ UNCHANGED accepting
    BY <1>2 DEF AcceptReads
  <2>3. i \in DOMAIN invites /\ l \in Link
    BY <1>1, <2>2 DEF Found, Link
  <2>4. CASE Addressed \cap DOMAIN rows = {}
    <3>1. [kind |-> "accept", invite |-> i, link |-> l, late |-> l \in spent] \in GuestCalls(DOMAIN invites)
      BY <2>3 DEF GuestCalls
    <3>2. \A h \in Guests : accepting'[h] = accepting[h] \/ accepting'[h] \in GuestCalls(DOMAIN invites)
      BY <1>1, <2>2, <2>4, <3>1
    <3>3. invites' = invites
      BY <2>2, <2>4
    <3>4. QED
      BY <2>1, <3>2, <3>3, OfficeInvites DEF OfficeShapes
  <2>5. CASE Addressed \cap DOMAIN rows # {}
    <3> DEFINE inv == [invites[i] EXCEPT !.revoked = TRUE]
    <3>1. invites[i] \in Invites
      BY <1>1, <2>3
    <3>2. inv.by = invites[i].by
      BY <3>1 DEF Invites
    <3>3. invites' = [invites EXCEPT ![i] = inv] /\ accepting' = accepting
      BY <2>2, <2>5
    <3> HIDE DEF inv
    <3>4. QED
      BY <2>1, <2>3, <3>2, <3>3, OfficeMarked DEF OfficeShapes
  <2>6. QED
    BY <2>4, <2>5
<1>3. CASE AcceptWrites(g)
  <2>1. UNCHANGED <<edits, request>> /\ accepting' = [accepting EXCEPT ![g] = Idle]
    BY <1>3 DEF AcceptWrites
  <2>2. \A h \in Guests : accepting'[h] = accepting[h] \/ accepting'[h] \in GuestCalls(DOMAIN invites)
    BY <1>1, <2>1 DEF GuestCalls
  <2>3. accepting[g] \in [kind : {"accept"}, invite : DOMAIN invites, link : Link, late : BOOLEAN]
    BY <1>3 DEF AcceptWrites, OfficeShapes, GuestCalls, Idle
  <2>4. CASE "invitee" \in DOMAIN rows
    <3>1. UNCHANGED <<rows, signedIn, invites, joined>>
      BY <1>3, <2>4 DEF AcceptWrites
    <3>2. QED
      BY <2>1, <2>2, <3>1, OfficeInvites DEF OfficeShapes
  <2>5. CASE "invitee" \notin DOMAIN rows
    <3> DEFINE i == accepting[g].invite
               inv == [invites[i] EXCEPT !.accepted = TRUE]
    <3>1. /\ Inserted("invitee", Active(FALSE)) /\ signedIn' = signedIn \cup {"invitee"}
          /\ invites' = [invites EXCEPT ![i] = inv]
          /\ joined' = joined \cup {[link |-> accepting[g].link, late |-> accepting[g].late]}
      BY <1>3, <2>5 DEF AcceptWrites, Stamped
    <3>2. Active(FALSE) \in Row /\ Active(FALSE).active /\ "invitee" \in Accounts
      BY DEF Active, Row, Accounts, Addressed
    <3>3. RowsWhole(rows', signedIn') /\ DOMAIN rows \subseteq DOMAIN rows'
      BY <2>5, <3>1, <3>2, RowsKept DEF OfficeShapes
    <3>4. invites[i] \in Invites /\ i \in DOMAIN invites
      BY <1>1, <2>3
    <3>5. inv.by = invites[i].by
      BY <3>4 DEF Invites
    <3> HIDE DEF inv, i
    <3>6. /\ Len(invites') = Len(invites) /\ DOMAIN invites' = DOMAIN invites
          /\ \A j \in DOMAIN invites : invites'[j].by = invites[j].by
      <4>1. invites' \in Seq(Invites)
        BY DEF InviteInvariant, LinksFresh, Invites, Link
      <4>2. DOMAIN invites' = DOMAIN invites /\ \A j \in DOMAIN invites : invites'[j].by = invites[j].by
        BY <3>1, <3>5
      <4>3. QED
        BY <1>1, <4>1, <4>2
    <3>7. joined' \subseteq [link : Link, late : BOOLEAN]
      BY <2>3, <3>1 DEF OfficeShapes
    <3>8. \A j \in DOMAIN invites' : invites'[j].by \in DOMAIN rows'
      BY <3>3, <3>6 DEF OfficeShapes
    <3>9. GuestCalls(DOMAIN invites') = GuestCalls(DOMAIN invites)
      BY <3>6
    <3>10. edits' = edits /\ \A b \in Admins : request'[b] = request[b]
      BY <2>1
    <3>11. QED
      BY <2>2, <3>3, <3>6, <3>7, <3>8, <3>9, <3>10, OfficeKept DEF OfficeShapes
  <2>6. QED
    BY <2>4, <2>5
<1>4. QED
  BY <1>2, <1>3

\* Every variable of the users and the invitations has its type: nobody who is not active
\* holds a token, a sender of an invitation has a row, each invitation has a link of its
\* own, and a call names an invitation that there is.
THEOREM BackOfficeTypes == BackOfficeSpec => []BackOfficeTypeOK
<1>1. ASSUME InviteInvariant, OfficeShapes, [BackOfficeNext]_backVars PROVE InviteInvariant' /\ OfficeShapes'
  <2>1. InviteInvariant'
    BY <1>1, InviteSteps
  <2>2. CASE UNCHANGED backVars
    BY <1>1, <2>1, <2>2, OfficeKept DEF backVars, OfficeShapes
  <2>3. CASE BackOfficeNext
    <3>1. ASSUME NEW a \in Admins, UserTable(a) \/ TenantHeader(a) \/ CreateUserWrites(a) \/ InviteRefused(a)
          PROVE  OfficeShapes'
      BY <1>1, <3>1, UserTableSteps, CreateUserSteps, OfficeReadSteps DEF TenantHeader
    <3>2. ASSUME NEW a \in Admins, PendingInvites(a) \/ InviteWrites(a) \/ ResendWrites(a) PROVE OfficeShapes'
      BY <1>1, <2>1, <3>2, OfficeReadSteps, OfficeWriteSteps DEF PendingInvites
    <3>3. QED
      BY <1>1, <2>1, <2>3, <3>1, <3>2, OfficeWriteSteps, OfficeAcceptSteps DEF BackOfficeNext
  <2>4. QED
    BY <1>1, <2>1, <2>2, <2>3
<1>2. ASSUME InviteInvariant, OfficeShapes PROVE BackOfficeTypeOK
  <2>1. \A i \in DOMAIN invites : invites[i] \in Invites
    BY <1>2 DEF InviteInvariant, LinksFresh
  <2>2. QED
    BY <1>2, <2>1 DEF InviteInvariant, LinksFresh, OfficeShapes, RowsWhole, AdminCalls, GuestCalls, Invites,
       BackOfficeTypeOK
<1>3. QED
  BY <1>1, <1>2, InvitesStart, OfficeStarts, PTL DEF BackOfficeSpec
=============================================================================

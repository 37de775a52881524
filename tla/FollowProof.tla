----------------------------- MODULE FollowProof -----------------------------
(***************************************************************************)
(* How the browser follows what goes on behind it, for any runs, outcomes, *)
(* messages and bounds: a viewer shows its own run and no outcome that is  *)
(* not real, the timeline of a case holds every mail that left, and what   *)
(* it shows never goes back.                                               *)
(***************************************************************************)
EXTENDS MCFollow, DataLemmas, FiniteSetTheorems

-----------------------------------------------------------------------------
(* The viewers of a run.                                                   *)

Messages == Statuses \cup {"done"}
Streams == [open : BOOLEAN, over : BOOLEAN, sent : Statuses \cup {None}, queue : Seq(Messages)]

\* A transaction that writes a status had loaded the run as active.
Transactions == [saw : Active, writes : Statuses] \cup {NoWrite}

WatchShapes ==
    /\ status \in [WatchedRuns -> Statuses]
    /\ active \in WatchedRuns \cup {None} /\ modal \in WatchedRuns \cup {None}
    /\ sse \in [run : WatchedRuns, status : Statuses] \cup {NoUpdate}
    /\ polled \in [WatchedRuns -> Statuses \cup {None}]
    /\ live \in Statuses \cup {None}
    /\ stopping \subseteq WatchedRuns /\ overtaken \subseteq WatchedRuns /\ asking \in BOOLEAN
    /\ writing \in [Writers -> [WatchedRuns -> Transactions]]
    /\ stream \in [Viewers -> [WatchedRuns -> Streams]]

\* A stream whose loop has ended still holds the end, behind what was emitted before.
StreamEnds(st) ==
    /\ Len(st.queue) <= MaxInFlight
    /\ st.open /\ st.over => Len(st.queue) > 0 /\ st.queue[Len(st.queue)] = "done"
StreamsEnd == \A v \in Viewers, r \in WatchedRuns : StreamEnds(stream[v][r])

\* A viewer has a stream open on the run it shows only, and a modal that is closed
\* shows no status.
OnlyOnTheirRun ==
    /\ \A r \in WatchedRuns : stream["panel"][r].open => active = r
    /\ \A r \in WatchedRuns : stream["modal"][r].open => modal = r
    /\ modal = None => live = None

\* An outcome under way in a stream that is open is the run's, unless an end of the run
\* was written over.
RealOutcomes(st, s, exempt) ==
    st.open /\ ~exempt => \A i \in 1 .. Len(st.queue) : st.queue[i] \in Terminal => s = st.queue[i]
OutcomesUnderWay == \A v \in Viewers, r \in WatchedRuns : RealOutcomes(stream[v][r], status[r], r \in overtaken)

\* So is one that a viewer holds.
OutcomesHeld ==
    /\ sse.status \in Terminal /\ sse.run \notin overtaken => status[sse.run] = sse.status
    /\ \A r \in WatchedRuns \ overtaken : polled[r] \in Terminal => status[r] = polled[r]
    /\ live \in Terminal /\ modal \notin overtaken => status[modal] = live

WatchInvariant ==
    WatchShapes /\ StreamsEnd /\ OnlyOnTheirRun /\ PanelShowsItsRun /\ OutcomesUnderWay /\ OutcomesHeld

\* What the invariant says of the streams, one by one.
StreamsSound ==
    \A v \in Viewers, r \in WatchedRuns :
        stream[v][r] \in Streams /\ StreamEnds(stream[v][r]) /\ RealOutcomes(stream[v][r], status[r], r \in overtaken)

\* The constants, and no run and no status apart from the others.
LEMMA NoneIsApart ==
  /\ MaxInFlight \in Nat /\ None \notin WatchedRuns /\ None \notin Statuses
  /\ Terminal \subseteq Statuses /\ "done" \notin Statuses /\ "done" \notin Terminal
  /\ Active \subseteq Statuses /\ Active \cap Terminal = {}
BY RunWatchAssumption DEF Statuses, Active, Terminal

\* A stream that is opened or closed says nothing yet.
LEMMA NewStreams ==
  ASSUME NEW st \in {Closed, Broken, Opened}
  PROVE  st \in Streams /\ StreamEnds(st) /\ (\A s, w : RealOutcomes(st, s, w)) /\ st.open = (st = Opened)
<1>1. st.queue = <<>> /\ Len(st.queue) = 0 /\ ~(st.open /\ st.over)
  <2>1. CASE st = Closed
    BY <2>1 DEF Closed
  <2>2. CASE st = Broken
    BY <2>2 DEF Broken
  <2>3. CASE st = Opened
    BY <2>3 DEF Opened
  <2>4. QED
    BY <2>1, <2>2, <2>3
<1>2. <<>> \in Seq(Messages)
  OBVIOUS
<1>3. st \in Streams
  <2>1. Closed \in Streams
    BY <1>2 DEF Closed, Streams
  <2>2. Broken \in Streams
    BY <1>2 DEF Broken, Streams
  <2>3. Opened \in Streams
    BY <1>2 DEF Opened, Streams
  <2>4. QED
    BY <2>1, <2>2, <2>3
<1>4. StreamEnds(st)
  BY <1>1, NoneIsApart DEF StreamEnds
<1>5. \A s, w : RealOutcomes(st, s, w)
  BY <1>1 DEF RealOutcomes
<1>6. st.open = (st = Opened)
  <2>1. ~Closed.open /\ ~Broken.open /\ Opened.open
    BY DEF Closed, Broken, Opened
  <2>2. st.open \in BOOLEAN
    BY <1>3 DEF Streams
  <2>3. st.open <=> st = Opened
    BY <2>1
  <2>4. QED
    BY <2>2, <2>3
<1>7. QED
  BY <1>3, <1>4, <1>5, <1>6

\* One turn of the loop leaves the stream sound, and open as it was.
LEMMA TurnIsSound ==
  ASSUME NEW st \in Streams, NEW s \in Statuses, NEW w \in BOOLEAN, st.open, StreamEnds(st), RealOutcomes(st, s, w),
         Len(st.queue) + Len(Emitted(st, s)) <= MaxInFlight,
         NEW new, new = [open |-> TRUE, over |-> s \in Terminal, sent |-> s, queue |-> st.queue \o Emitted(st, s)]
  PROVE  new \in Streams /\ StreamEnds(new) /\ RealOutcomes(new, s, w)
<1> DEFINE out == Emitted(st, s)
<1>1. /\ out \in Seq(Messages) /\ Len(out) \in Nat
      /\ \A i \in 1 .. Len(out) : out[i] \in Terminal => out[i] = s
      /\ s \in Terminal => Len(out) > 0 /\ out[Len(out)] = "done"
  <2>1. "done" \in Messages /\ s \in Messages
    BY DEF Messages
  <2>2. CASE s # st.sent /\ s \in Terminal
    <3>1. out = <<s>> \o <<"done">>
      BY <2>2 DEF Emitted
    <3>2. <<s>> \in Seq(Messages) /\ <<"done">> \in Seq(Messages)
      BY <2>1
    <3>3. out \in Seq(Messages) /\ Len(out) = 2 /\ out[1] = s /\ out[2] = "done"
      BY <3>1, <3>2, ConcatProperties
    <3>4. QED
      BY <3>3, NoneIsApart
  <2>3. CASE s # st.sent /\ s \notin Terminal
    <3>1. out = <<s>>
      BY <2>3 DEF Emitted
    <3>2. QED
      BY <2>1, <2>3, <3>1
  <2>4. CASE s = st.sent /\ s \in Terminal
    <3>1. out = <<"done">>
      BY <2>4 DEF Emitted
    <3>2. QED
      BY <2>1, <3>1, NoneIsApart
  <2>5. CASE s = st.sent /\ s \notin Terminal
    <3>1. out = <<>>
      BY <2>5 DEF Emitted
    <3>2. QED
      BY <2>5, <3>1
  <2>6. QED
    BY <2>2, <2>3, <2>4, <2>5
<1>2. st.queue \in Seq(Messages) /\ Len(st.queue) \in Nat
  BY DEF Streams
<1> HIDE DEF out
<1> DEFINE q == st.queue \o out
<1>3. /\ q \in Seq(Messages) /\ Len(q) = Len(st.queue) + Len(out)
      /\ \A k \in 1 .. Len(st.queue) + Len(out) :
             q[k] = IF k <= Len(st.queue) THEN st.queue[k] ELSE out[k - Len(st.queue)]
  BY <1>1, <1>2, ConcatProperties
<1> HIDE DEF q
<1>4. /\ new.queue = q /\ new.open = TRUE /\ new.over = (s \in Terminal)
      /\ new = [open |-> TRUE, over |-> s \in Terminal, sent |-> s, queue |-> q]
  BY DEF q, out
<1>5. (s \in Terminal) \in BOOLEAN
  OBVIOUS
<1>6. new \in Streams
  BY <1>3, <1>4, <1>5 DEF Streams
<1>7. s \in Terminal => Len(q) > 0 /\ q[Len(q)] = "done"
  <2>1. HAVE s \in Terminal
  <2>2. Len(out) > 0 /\ out[Len(out)] = "done"
    BY <1>1, <2>1
  <2>3. Len(q) \in 1 .. Len(st.queue) + Len(out) /\ ~(Len(q) <= Len(st.queue)) /\ Len(q) - Len(st.queue) = Len(out)
    BY <1>1, <1>2, <1>3, <2>2
  <2>4. q[Len(q)] = out[Len(q) - Len(st.queue)]
    BY <1>3, <2>3
  <2>5. Len(q) > 0
    BY <1>1, <1>2, <2>3
  <2>6. QED
    BY <2>2, <2>3, <2>4, <2>5
<1>8. StreamEnds(new)
  <2>1. Len(q) <= MaxInFlight
    BY <1>3 DEF out
  <2>2. QED
    BY <1>4, <1>7, <2>1 DEF StreamEnds
<1>9. RealOutcomes(new, s, w)
  <2>1. ASSUME NEW i \in 1 .. Len(q), q[i] \in Terminal, ~w
        PROVE  s = q[i]
    <3>1. i \in 1 .. Len(st.queue) + Len(out)
      BY <1>3
    <3>2. CASE i <= Len(st.queue)
      <4>1. i \in 1 .. Len(st.queue) /\ q[i] = st.queue[i]
        BY <1>2, <1>3, <3>1, <3>2
      <4>2. QED
        BY <2>1, <4>1 DEF RealOutcomes
    <3>3. CASE ~(i <= Len(st.queue))
      <4>1. i - Len(st.queue) \in 1 .. Len(out) /\ q[i] = out[i - Len(st.queue)]
        BY <1>1, <1>2, <1>3, <3>1, <3>3
      <4>2. QED
        BY <1>1, <2>1, <4>1
    <3>4. QED
      BY <3>2, <3>3
  <2>2. QED
    BY <1>4, <2>1 DEF RealOutcomes
<1>10. QED
  BY <1>6, <1>8, <1>9

\* A message that is taken leaves the stream sound, unless it is the end; an
\* outcome that is taken is the run's.
LEMMA TakenIsSound ==
  ASSUME NEW st \in Streams, NEW s \in Statuses, NEW w \in BOOLEAN, st.open, StreamEnds(st), RealOutcomes(st, s, w),
         st.queue # <<>>, Head(st.queue) # "done",
         NEW new, new = [st EXCEPT !.queue = Tail(@)]
  PROVE  /\ new \in Streams /\ StreamEnds(new) /\ RealOutcomes(new, s, w) /\ new.open
         /\ Head(st.queue) \in Statuses
         /\ Head(st.queue) \in Terminal /\ ~w => s = Head(st.queue)
<1>1. st.queue \in Seq(Messages) /\ Len(st.queue) \in Nat /\ Len(st.queue) > 0
  BY DEF Streams
<1> DEFINE q == Tail(st.queue)
<1>2. /\ q \in Seq(Messages) /\ Len(q) = Len(st.queue) - 1
      /\ \A k \in 1 .. Len(st.queue) - 1 : q[k] = st.queue[k + 1]
      /\ Head(st.queue) = st.queue[1] /\ Head(st.queue) \in Messages
  BY <1>1, HeadTailProperties
<1> HIDE DEF q
<1>3. st = [open |-> st.open, over |-> st.over, sent |-> st.sent, queue |-> st.queue]
  BY DEF Streams
<1>4. new.open = st.open /\ new.over = st.over /\ new.sent = st.sent /\ new.queue = q
  BY <1>3 DEF q
<1>5. new = [open |-> st.open, over |-> st.over, sent |-> st.sent, queue |-> q]
  BY <1>3 DEF q
<1>6. new \in Streams
  <2>1. st.open \in BOOLEAN /\ st.over \in BOOLEAN /\ st.sent \in Statuses \cup {None}
    BY DEF Streams
  <2>2. q \in Seq(Messages)
    BY <1>2
  <2>3. [open |-> st.open, over |-> st.over, sent |-> st.sent, queue |-> q] \in Streams
    BY <2>1, <2>2 DEF Streams
  <2>4. QED
    BY <1>5, <2>3
<1>7. StreamEnds(new)
  <2>1. Len(st.queue) <= MaxInFlight
    BY DEF StreamEnds
  <2>2. Len(q) <= MaxInFlight
    BY <1>1, <1>2, <2>1, NoneIsApart
  <2>3. ASSUME st.over
        PROVE  Len(q) > 0 /\ q[Len(q)] = "done"
    <3>1. st.queue[Len(st.queue)] = "done"
      BY <2>3 DEF StreamEnds
    <3>2. Len(st.queue) # 1
      BY <1>2, <3>1
    <3>3. \A m, n \in Nat : m > 0 /\ m # 1 /\ n = m - 1 => n > 0 /\ n \in 1 .. m - 1 /\ n + 1 = m
      OBVIOUS
    <3>4. Len(q) \in Nat /\ Len(q) = Len(st.queue) - 1
      BY <1>2
    <3>5. Len(q) > 0 /\ Len(q) \in 1 .. Len(st.queue) - 1 /\ Len(q) + 1 = Len(st.queue)
      BY <1>1, <3>2, <3>3, <3>4
    <3>6. q[Len(q)] = st.queue[Len(q) + 1]
      BY <1>2, <3>5
    <3>7. QED
      BY <3>1, <3>5, <3>6
  <2>4. QED
    BY <1>4, <2>2, <2>3 DEF StreamEnds
<1>8. RealOutcomes(new, s, w)
  <2>1. ASSUME NEW i \in 1 .. Len(q), q[i] \in Terminal, ~w
        PROVE  s = q[i]
    <3>1. i \in 1 .. Len(st.queue) - 1 /\ i + 1 \in 1 .. Len(st.queue)
      BY <1>1, <1>2
    <3>2. QED
      BY <1>2, <2>1, <3>1 DEF RealOutcomes
  <2>2. QED
    BY <1>4, <2>1 DEF RealOutcomes
<1>9. Head(st.queue) \in Statuses /\ (Head(st.queue) \in Terminal /\ ~w => s = Head(st.queue))
  <2>1. 1 \in 1 .. Len(st.queue)
    BY <1>1
  <2>2. QED
    BY <1>2, <2>1 DEF RealOutcomes, Messages
<1>10. QED
  BY <1>4, <1>6, <1>7, <1>8, <1>9

\* A transaction loads the run, or a request to cancel it is sent: nothing that is seen
\* changes.
LEMMA OnlyRequestsChange ==
  ASSUME WatchInvariant, stopping' \subseteq WatchedRuns,
         writing' \in [Writers -> [WatchedRuns -> Transactions]],
         UNCHANGED <<status, overtaken, active, sse, polled, asking, modal, live, stream>>
  PROVE  WatchInvariant'
<1>1. WatchShapes'
  BY DEF WatchInvariant, WatchShapes
<1>2. StreamsEnd' /\ OnlyOnTheirRun' /\ PanelShowsItsRun'
  BY DEF WatchInvariant, StreamsEnd, StreamEnds, OnlyOnTheirRun, PanelShowsItsRun
<1>3. OutcomesUnderWay' /\ OutcomesHeld'
  BY DEF WatchInvariant, OutcomesUnderWay, RealOutcomes, OutcomesHeld
<1>4. QED
  BY <1>1, <1>2, <1>3 DEF WatchInvariant

\* The engine loads a run that is active.
LEMMA EngineKeeps ==
  ASSUME WatchInvariant, NEW r \in WatchedRuns, EngineLoads(r)
  PROVE  WatchInvariant'
<1>1. PICK m \in Moves : writing' = [writing EXCEPT !["engine"][r] = [saw |-> m[1], writes |-> m[2]]]
  BY DEF EngineLoads
<1>2. m[1] \in Active /\ m[2] \in Statuses
  <2>1. CASE m \in {<<"pending", "running">>, <<"running", "waiting">>, <<"waiting", "running">>}
    BY <2>1 DEF Active, Statuses
  <2>2. CASE m \in {"running", "waiting"} \X Outcomes
    BY <2>2 DEF Active, Statuses, Terminal
  <2>3. CASE m \in {"pending"} \X (Outcomes \cap {"failed"})
    BY <2>3 DEF Active, Statuses, Terminal
  <2>4. QED
    BY <2>1, <2>2, <2>3 DEF Moves
<1> DEFINE tx == [saw |-> m[1], writes |-> m[2]]
<1>3. tx \in Transactions
  BY <1>2 DEF Transactions
<1> HIDE DEF tx
<1>4. writing' \in [Writers -> [WatchedRuns -> Transactions]]
  <2>1. writing \in [Writers -> [WatchedRuns -> Transactions]] /\ "engine" \in Writers
    BY DEF WatchInvariant, WatchShapes, Writers
  <2>2. writing' = [writing EXCEPT !["engine"][r] = tx]
    BY <1>1 DEF tx
  <2>3. QED
    BY <1>3, <2>1, <2>2
<1>5. stopping' \subseteq WatchedRuns
  BY DEF EngineLoads, WatchInvariant, WatchShapes
<1>6. QED
  BY <1>4, <1>5, OnlyRequestsChange DEF EngineLoads, panelVars, modalVars

\* So does the cancel route, or it refuses.
LEMMA CancelKeeps ==
  ASSUME WatchInvariant, NEW r \in WatchedRuns, CancelLoads(r)
  PROVE  WatchInvariant'
<1> DEFINE tx == [saw |-> status[r], writes |-> "cancelled"]
<1>1. status[r] \in Statuses /\ "cancelled" \in Statuses
  BY DEF WatchInvariant, WatchShapes, Statuses, Terminal
<1>2. ~Refused(status[r]) => tx \in Transactions
  BY <1>1 DEF Refused, Transactions, Statuses
<1>3. writing' = writing \/ (tx \in Transactions /\ writing' = [writing EXCEPT !["cancel"][r] = tx])
  BY <1>2 DEF CancelLoads
<1> HIDE DEF tx
<1>4. writing' \in [Writers -> [WatchedRuns -> Transactions]]
  <2>1. writing \in [Writers -> [WatchedRuns -> Transactions]] /\ "cancel" \in Writers
    BY DEF WatchInvariant, WatchShapes, Writers
  <2>2. QED
    BY <1>3, <2>1
<1>5. stopping' \subseteq WatchedRuns
  BY DEF CancelLoads, WatchInvariant, WatchShapes
<1>6. QED
  BY <1>4, <1>5, OnlyRequestsChange DEF CancelLoads, panelVars, modalVars

LEMMA ElsewhereKeeps ==
  ASSUME WatchInvariant, NEW r \in WatchedRuns, StopElsewhere(r)
  PROVE  WatchInvariant'
<1>1. stopping' \subseteq WatchedRuns /\ writing' \in [Writers -> [WatchedRuns -> Transactions]]
  BY DEF StopElsewhere, WatchInvariant, WatchShapes, serverVars
<1>2. QED
  BY <1>1, OnlyRequestsChange DEF StopElsewhere, serverVars, panelVars, modalVars

\* A status is written: an outcome stays, or the run is one whose end was written over,
\* and what is under way and what is held of the others is still real.
LEMMA CommitKeeps ==
  ASSUME WatchInvariant, NEW w \in Writers, NEW r \in WatchedRuns, Commits(w, r)
  PROVE  WatchInvariant'
<1> USE DEF WatchInvariant
<1> DEFINE x == writing[w][r].writes
<1>1. /\ status \in [WatchedRuns -> Statuses] /\ stopping \subseteq WatchedRuns
      /\ overtaken \subseteq WatchedRuns /\ writing \in [Writers -> [WatchedRuns -> Transactions]]
  BY DEF WatchShapes
<1>2. writing[w][r] # NoWrite /\ writing[w][r].saw \in Active /\ x \in Statuses
  BY <1>1 DEF Commits, Transactions
<1>3. /\ status' = [status EXCEPT ![r] = x]
      /\ overtaken' = IF status[r] \in Terminal THEN overtaken \cup {r} ELSE overtaken
      /\ writing' = [writing EXCEPT ![w][r] = NoWrite]
      /\ UNCHANGED <<active, sse, polled, asking, modal, live, stream, stopping>>
  BY <1>2 DEF Commits, panelVars, modalVars
<1> HIDE DEF x
<1>4. /\ status' \in [WatchedRuns -> Statuses] /\ overtaken' \subseteq WatchedRuns /\ overtaken \subseteq overtaken'
      /\ \A q \in WatchedRuns \ overtaken' : status[q] \in Terminal => status'[q] = status[q]
  BY <1>1, <1>2, <1>3
<1>5. writing' \in [Writers -> [WatchedRuns -> Transactions]]
  <2>1. NoWrite \in Transactions
    BY DEF Transactions
  <2>2. QED
    BY <1>1, <1>3, <2>1
<1>6. WatchShapes'
  BY <1>3, <1>4, <1>5 DEF WatchShapes
<1>7. StreamsEnd' /\ OnlyOnTheirRun' /\ PanelShowsItsRun'
  BY <1>3 DEF StreamsEnd, StreamEnds, OnlyOnTheirRun, PanelShowsItsRun
<1>8. OutcomesUnderWay'
  <2>1. ASSUME NEW v \in Viewers, NEW q \in WatchedRuns
        PROVE  RealOutcomes(stream[v][q], status'[q], q \in overtaken')
    <3>1. RealOutcomes(stream[v][q], status[q], q \in overtaken)
      BY DEF OutcomesUnderWay
    <3>2. QED
      BY <1>4, <3>1 DEF RealOutcomes
  <2>2. QED
    BY <1>3, <2>1 DEF OutcomesUnderWay
<1>9. OutcomesHeld'
  <2>1. sse.status \in Terminal => sse.run \in WatchedRuns
    BY NoneIsApart DEF WatchShapes, NoUpdate
  <2>2. live \in Terminal => modal \in WatchedRuns
    BY NoneIsApart DEF WatchShapes, OnlyOnTheirRun
  <2>3. sse'.status \in Terminal /\ sse'.run \notin overtaken' => status'[sse'.run] = sse'.status
    BY <1>3, <1>4, <2>1 DEF OutcomesHeld
  <2>4. live' \in Terminal /\ modal' \notin overtaken' => status'[modal'] = live'
    BY <1>3, <1>4, <2>2 DEF OutcomesHeld
  <2>5. \A q \in WatchedRuns \ overtaken' : polled'[q] \in Terminal => status'[q] = polled'[q]
    BY <1>3, <1>4 DEF OutcomesHeld
  <2>6. QED
    BY <2>3, <2>4, <2>5 DEF OutcomesHeld
<1>10. QED
  BY <1>6, <1>7, <1>8, <1>9

\* One stream changes: the others do not.
LEMMA OneStreamChanges ==
  ASSUME WatchInvariant, NEW v \in Viewers, NEW r \in WatchedRuns, NEW new \in Streams,
         stream' = [stream EXCEPT ![v][r] = new], UNCHANGED <<status, overtaken>>,
         StreamEnds(new), RealOutcomes(new, status[r], r \in overtaken)
  PROVE  /\ stream' \in [Viewers -> [WatchedRuns -> Streams]]
         /\ StreamsEnd' /\ OutcomesUnderWay'
         /\ \A w \in Viewers, q \in WatchedRuns :
                stream'[w][q] = IF w = v /\ q = r THEN new ELSE stream[w][q]
<1>1. stream \in [Viewers -> [WatchedRuns -> Streams]]
  BY DEF WatchInvariant, WatchShapes
<1>2. \A w \in Viewers, q \in WatchedRuns :
          stream'[w][q] = IF w = v /\ q = r THEN new ELSE stream[w][q]
  BY <1>1
<1>3. stream' \in [Viewers -> [WatchedRuns -> Streams]]
  BY <1>1
<1>4. \A w \in Viewers, q \in WatchedRuns : StreamEnds(stream[w][q]) /\ RealOutcomes(stream[w][q], status[q], q \in overtaken)
  BY DEF WatchInvariant, StreamsEnd, OutcomesUnderWay
<1>5. \A w \in Viewers, q \in WatchedRuns : StreamEnds(stream'[w][q]) /\ RealOutcomes(stream'[w][q], status[q], q \in overtaken)
  BY <1>2, <1>4
<1>6. StreamsEnd'
  BY <1>5 DEF StreamsEnd, StreamEnds
<1>7. OutcomesUnderWay'
  BY <1>5 DEF OutcomesUnderWay
<1>8. QED
  BY <1>2, <1>3, <1>6, <1>7

\* The panel's streams change for one on the run it shows now, or none.
LEMMA PanelChanges ==
  ASSUME WatchInvariant, NEW x \in WatchedRuns \cup {None}, NEW f \in [Viewers -> [WatchedRuns -> Streams]],
         f = [stream EXCEPT !["panel"] = OnlyFor(x)] \/
             f = [stream EXCEPT !["panel"] = OnlyFor(x), !["modal"] = [r \in WatchedRuns |-> Closed]]
  PROVE  \A q \in WatchedRuns :
            /\ StreamEnds(f["panel"][q]) /\ RealOutcomes(f["panel"][q], status[q], q \in overtaken)
            /\ StreamEnds(f["modal"][q]) /\ RealOutcomes(f["modal"][q], status[q], q \in overtaken)
            /\ f["panel"][q].open => x = q
            /\ f["modal"][q].open => stream["modal"][q].open
<1>1. stream \in [Viewers -> [WatchedRuns -> Streams]] /\ "panel" \in Viewers /\ "modal" \in Viewers
  BY DEF WatchInvariant, WatchShapes, Viewers
<1> SUFFICES ASSUME NEW q \in WatchedRuns
             PROVE  /\ StreamEnds(f["panel"][q]) /\ RealOutcomes(f["panel"][q], status[q], q \in overtaken)
                    /\ StreamEnds(f["modal"][q]) /\ RealOutcomes(f["modal"][q], status[q], q \in overtaken)
                    /\ f["panel"][q].open => x = q
                    /\ f["modal"][q].open => stream["modal"][q].open
  OBVIOUS
<1>2. f["panel"][q] = IF q = x THEN Opened ELSE Closed
  BY <1>1 DEF OnlyFor
<1>3. f["modal"][q] = stream["modal"][q] \/ f["modal"][q] = Closed
  BY <1>1
<1>4. StreamEnds(stream["modal"][q]) /\ RealOutcomes(stream["modal"][q], status[q], q \in overtaken)
  BY <1>1 DEF WatchInvariant, StreamsEnd, OutcomesUnderWay
<1>5. StreamEnds(f["panel"][q]) /\ RealOutcomes(f["panel"][q], status[q], q \in overtaken)
  BY <1>2, NewStreams
<1>6. StreamEnds(f["modal"][q]) /\ RealOutcomes(f["modal"][q], status[q], q \in overtaken)
  BY <1>3, <1>4, NewStreams
<1>7. ~Closed.open
  BY DEF Closed
<1>8. QED
  BY <1>2, <1>3, <1>5, <1>6, <1>7

\* The panel starts over on run x: an activation, a dismissal, a reload.
LEMMA PanelMoves ==
  ASSUME WatchInvariant, NEW x \in WatchedRuns \cup {None},
         active' = x, sse' = NoUpdate, UNCHANGED <<status, writing, overtaken, stopping>>, asking' \in BOOLEAN,
         polled' = polled \/ polled' = [r \in WatchedRuns |-> None],
         \/ /\ stream' = [stream EXCEPT !["panel"] = OnlyFor(x)]
            /\ UNCHANGED <<modal, live>>
         \/ /\ stream' = [stream EXCEPT !["panel"] = OnlyFor(x), !["modal"] = [r \in WatchedRuns |-> Closed]]
            /\ modal' = None /\ live' = None
  PROVE  WatchInvariant'
<1>1. stream \in [Viewers -> [WatchedRuns -> Streams]] /\ "panel" \in Viewers /\ "modal" \in Viewers
  BY DEF WatchInvariant, WatchShapes, Viewers
<1>2. OnlyFor(x) \in [WatchedRuns -> Streams] /\ [r \in WatchedRuns |-> Closed] \in [WatchedRuns -> Streams]
  BY NewStreams DEF OnlyFor
<1>3. stream' \in [Viewers -> [WatchedRuns -> Streams]]
  BY <1>1, <1>2
<1>4. \A q \in WatchedRuns :
            /\ StreamEnds(stream'["panel"][q]) /\ RealOutcomes(stream'["panel"][q], status[q], q \in overtaken)
            /\ StreamEnds(stream'["modal"][q]) /\ RealOutcomes(stream'["modal"][q], status[q], q \in overtaken)
            /\ stream'["panel"][q].open => x = q
            /\ stream'["modal"][q].open => stream["modal"][q].open
  BY <1>3, PanelChanges
<1>5. polled' \in [WatchedRuns -> Statuses \cup {None}]
  BY DEF WatchInvariant, WatchShapes
<1>6. WatchShapes'
  <2>1. /\ status' \in [WatchedRuns -> Statuses] /\ active' \in WatchedRuns \cup {None}
        /\ modal' \in WatchedRuns \cup {None} /\ live' \in Statuses \cup {None}
        /\ stopping' \subseteq WatchedRuns
    BY DEF WatchInvariant, WatchShapes
  <2>2. sse' \in [run : WatchedRuns, status : Statuses] \cup {NoUpdate}
    OBVIOUS
  <2>3. /\ overtaken' \subseteq WatchedRuns /\ asking' \in BOOLEAN
        /\ writing' \in [Writers -> [WatchedRuns -> Transactions]]
    BY DEF WatchInvariant, WatchShapes
  <2>4. QED
    BY <1>3, <1>5, <2>1, <2>2, <2>3 DEF WatchShapes
<1>7. \A v \in Viewers : v = "panel" \/ v = "modal"
  BY DEF Viewers
<1>8. StreamsEnd' /\ OutcomesUnderWay'
  <2>1. \A v \in Viewers, q \in WatchedRuns : StreamEnds(stream'[v][q]) /\ RealOutcomes(stream'[v][q], status'[q], q \in overtaken')
    BY <1>4, <1>7
  <2>2. StreamsEnd'
    BY <2>1 DEF StreamsEnd, StreamEnds
  <2>3. QED
    BY <2>1, <2>2 DEF OutcomesUnderWay
<1>9. OnlyOnTheirRun'
  <2>1. \A q \in WatchedRuns : stream'["modal"][q].open => modal' = q
    <3>1. CASE UNCHANGED modal
      BY <1>4, <3>1 DEF WatchInvariant, OnlyOnTheirRun
    <3>2. CASE stream' = [stream EXCEPT !["panel"] = OnlyFor(x), !["modal"] = [r \in WatchedRuns |-> Closed]]
      <4>1. \A q \in WatchedRuns : stream'["modal"][q] = Closed
        BY <1>1, <3>2
      <4>2. QED
        BY <4>1 DEF Closed
    <3>3. QED
      BY <3>1, <3>2
  <2>2. modal' = None => live' = None
    BY DEF WatchInvariant, OnlyOnTheirRun
  <2>3. QED
    BY <1>4, <2>1, <2>2 DEF OnlyOnTheirRun
<1>10. PanelShowsItsRun'
  BY DEF PanelShowsItsRun, NoUpdate
<1>11. OutcomesHeld'
  <2>1. sse'.status \notin Terminal
    BY NoneIsApart DEF NoUpdate
  <2>2. \A q \in WatchedRuns \ overtaken' : polled'[q] \in Terminal => status'[q] = polled'[q]
    BY NoneIsApart DEF WatchInvariant, OutcomesHeld
  <2>3. live' \in Terminal /\ modal' \notin overtaken' => status'[modal'] = live'
    BY NoneIsApart DEF WatchInvariant, OutcomesHeld
  <2>4. QED
    BY <2>1, <2>2, <2>3 DEF OutcomesHeld
<1>12. QED
  BY <1>6, <1>8, <1>9, <1>10, <1>11 DEF WatchInvariant

LEMMA ActivateKeeps ==
  ASSUME WatchInvariant, NEW r \in WatchedRuns, Activate(r)
  PROVE  WatchInvariant'
<1>1. asking' \in BOOLEAN
  BY DEF Activate
<1>2. QED
  BY <1>1, PanelMoves DEF Activate, serverVars, modalVars

LEMMA DismissKeeps ==
  ASSUME WatchInvariant, Dismiss
  PROVE  WatchInvariant'
BY PanelMoves DEF Dismiss, serverVars, modalVars

LEMMA ReloadKeeps ==
  ASSUME WatchInvariant, ReloadPage
  PROVE  WatchInvariant'
<1>1. active \in WatchedRuns \cup {None}
  BY DEF WatchInvariant, WatchShapes
<1>2. QED
  BY <1>1, PanelMoves DEF ReloadPage, serverVars

LEMMA PollKeeps ==
  ASSUME WatchInvariant, NEW r \in WatchedRuns, Poll(r)
  PROVE  WatchInvariant'
<1>1. polled \in [WatchedRuns -> Statuses \cup {None}] /\ status[r] \in Statuses
  BY DEF WatchInvariant, WatchShapes
<1>2. \A q \in WatchedRuns : polled'[q] = IF q = r THEN status[r] ELSE polled[q]
  BY <1>1 DEF Poll
<1>3. polled' \in [WatchedRuns -> Statuses \cup {None}]
  BY <1>1 DEF Poll
<1>4. WatchShapes'
  BY <1>3 DEF Poll, WatchInvariant, WatchShapes, serverVars, modalVars
<1>5. OutcomesHeld'
  BY <1>2 DEF Poll, WatchInvariant, OutcomesHeld, serverVars, modalVars
<1>6. StreamsEnd' /\ OnlyOnTheirRun' /\ PanelShowsItsRun' /\ OutcomesUnderWay'
  BY DEF Poll, WatchInvariant, StreamsEnd, StreamEnds, OnlyOnTheirRun, PanelShowsItsRun, OutcomesUnderWay,
         RealOutcomes, serverVars, modalVars
<1>7. QED
  BY <1>4, <1>5, <1>6 DEF WatchInvariant

\* What the panel shows is of the active run.
LEMMA ShownIsActive ==
  ASSUME WatchInvariant
  PROVE  /\ Shown.status \in Statuses => Shown.run = active /\ active \in WatchedRuns
         /\ Shown.status \in Terminal /\ Shown.run \notin overtaken => status[Shown.run] = Shown.status
<1>1. CASE sse # NoUpdate
  <2>1. Shown = sse /\ sse.run \in WatchedRuns /\ sse.run = active
    BY <1>1 DEF Shown, WatchInvariant, WatchShapes, PanelShowsItsRun
  <2>2. QED
    BY <2>1 DEF WatchInvariant, OutcomesHeld
<1>2. CASE sse = NoUpdate /\ active # None
  <2>1. Shown.run = active /\ Shown.status = polled[active] /\ active \in WatchedRuns
    BY <1>2 DEF Shown, WatchInvariant, WatchShapes
  <2>2. QED
    BY <2>1 DEF WatchInvariant, OutcomesHeld
<1>3. CASE sse = NoUpdate /\ active = None
  <2>1. Shown.status = None
    BY <1>3 DEF Shown, NoUpdate
  <2>2. QED
    BY <2>1, NoneIsApart
<1>4. QED
  BY <1>1, <1>2, <1>3

LEMMA StopKeeps ==
  ASSUME WatchInvariant, Stop
  PROVE  WatchInvariant'
<1>1. active \in WatchedRuns
  BY ShownIsActive DEF Stop, Statuses, Active
<1>2. stopping' \subseteq WatchedRuns /\ writing' \in [Writers -> [WatchedRuns -> Transactions]]
  BY <1>1 DEF Stop, WatchInvariant, WatchShapes, serverVars
<1>3. QED
  BY <1>2, OnlyRequestsChange DEF Stop, serverVars, panelVars, modalVars

\* A GET that fails, or is asked for, changes nothing that is shown.
LEMMA AskingKeeps ==
  ASSUME WatchInvariant, GetFails \/ AskAgain
  PROVE  WatchInvariant'
<1>1. UNCHANGED <<status, writing, overtaken, active, sse, polled, modal, live, stream, stopping>> /\ asking' \in BOOLEAN
  BY DEF GetFails, AskAgain, serverVars, modalVars
<1>2. WatchShapes'
  BY <1>1 DEF WatchInvariant, WatchShapes
<1>3. StreamsEnd' /\ OnlyOnTheirRun' /\ PanelShowsItsRun'
  BY <1>1 DEF WatchInvariant, StreamsEnd, StreamEnds, OnlyOnTheirRun, PanelShowsItsRun
<1>4. OutcomesUnderWay' /\ OutcomesHeld'
  BY <1>1 DEF WatchInvariant, OutcomesUnderWay, RealOutcomes, OutcomesHeld
<1>5. QED
  BY <1>2, <1>3, <1>4 DEF WatchInvariant

\* One stream changes, and is open only if it was: no viewer gets another run.
LEMMA StreamKeeps ==
  ASSUME WatchInvariant, NEW v \in Viewers, NEW r \in WatchedRuns, NEW new \in Streams,
         stream' = [stream EXCEPT ![v][r] = new], UNCHANGED <<status, writing, overtaken, active, polled, asking, modal, stopping>>,
         StreamEnds(new), RealOutcomes(new, status[r], r \in overtaken), new.open => stream[v][r].open,
         sse' \in [run : WatchedRuns, status : Statuses] \cup {NoUpdate}, live' \in Statuses \cup {None},
         PanelShowsItsRun', modal = None => live' = None,
         sse'.status \in Terminal /\ sse'.run \notin overtaken => status[sse'.run] = sse'.status,
         live' \in Terminal /\ modal \notin overtaken => status[modal] = live'
  PROVE  WatchInvariant'
<1>1. /\ stream' \in [Viewers -> [WatchedRuns -> Streams]]
      /\ StreamsEnd' /\ OutcomesUnderWay'
      /\ \A w \in Viewers, q \in WatchedRuns :
             stream'[w][q] = IF w = v /\ q = r THEN new ELSE stream[w][q]
  BY OneStreamChanges
<1>2. WatchShapes'
  BY <1>1 DEF WatchInvariant, WatchShapes
<1>3. OnlyOnTheirRun'
  <2>1. \A w \in Viewers, q \in WatchedRuns : stream'[w][q].open => stream[w][q].open
    BY <1>1
  <2>2. "panel" \in Viewers /\ "modal" \in Viewers
    BY DEF Viewers
  <2>3. QED
    BY <2>1, <2>2 DEF WatchInvariant, OnlyOnTheirRun
<1>4. OutcomesHeld'
  <2>1. \A q \in WatchedRuns \ overtaken' : polled'[q] \in Terminal => status'[q] = polled'[q]
    BY DEF WatchInvariant, OutcomesHeld
  <2>2. QED
    BY <2>1 DEF OutcomesHeld
<1>5. QED
  BY <1>1, <1>2, <1>3, <1>4 DEF WatchInvariant

\* What a viewer shows is as it was.
LEMMA ViewersKeep ==
  ASSUME WatchInvariant, NEW v \in Viewers, NEW r \in WatchedRuns, NEW new \in Streams,
         stream' = [stream EXCEPT ![v][r] = new], UNCHANGED <<status, writing, overtaken, active, sse, polled, asking, modal, live, stopping>>,
         StreamEnds(new), RealOutcomes(new, status[r], r \in overtaken), new.open => stream[v][r].open
  PROVE  WatchInvariant'
<1>1. sse' \in [run : WatchedRuns, status : Statuses] \cup {NoUpdate} /\ live' \in Statuses \cup {None}
  BY DEF WatchInvariant, WatchShapes
<1>2. PanelShowsItsRun' /\ (modal = None => live' = None)
  BY DEF WatchInvariant, PanelShowsItsRun, OnlyOnTheirRun
<1>3. /\ sse'.status \in Terminal /\ sse'.run \notin overtaken => status[sse'.run] = sse'.status
      /\ live' \in Terminal /\ modal \notin overtaken => status[modal] = live'
  BY DEF WatchInvariant, OutcomesHeld
<1>4. QED
  BY <1>1, <1>2, <1>3, StreamKeeps

LEMMA TurnKeeps ==
  ASSUME WatchInvariant, NEW v \in Viewers, NEW r \in WatchedRuns, StreamTurn(v, r)
  PROVE  WatchInvariant'
<1> DEFINE st == stream[v][r]
           s == status[r]
           w == r \in overtaken
           new == [open |-> TRUE, over |-> s \in Terminal, sent |-> s, queue |-> st.queue \o Emitted(st, s)]
<1>1. st \in Streams /\ s \in Statuses /\ w \in BOOLEAN /\ StreamEnds(st) /\ RealOutcomes(st, s, w)
  BY DEF WatchInvariant, WatchShapes, StreamsEnd, OutcomesUnderWay
<1>2. st.open /\ Len(st.queue) + Len(Emitted(st, s)) <= MaxInFlight /\ stream' = [stream EXCEPT ![v][r] = new]
  BY DEF StreamTurn
<1>3. UNCHANGED <<status, writing, overtaken, active, sse, polled, asking, modal, live, stopping>>
  BY DEF StreamTurn, serverVars, panelVars, modalVars
<1> HIDE DEF st, s, w
<1>4. new \in Streams /\ StreamEnds(new) /\ RealOutcomes(new, s, w)
  BY <1>1, <1>2, TurnIsSound
<1> HIDE DEF new
<1>5. RealOutcomes(new, status[r], r \in overtaken) /\ (new.open => stream[v][r].open)
  BY <1>2, <1>4 DEF s, st, w
<1>6. QED
  BY <1>2, <1>3, <1>4, <1>5, ViewersKeep

LEMMA BreakKeeps ==
  ASSUME WatchInvariant, NEW v \in Viewers, NEW r \in WatchedRuns, StreamBreaks(v, r)
  PROVE  WatchInvariant'
<1>1. Broken \in Streams /\ StreamEnds(Broken) /\ RealOutcomes(Broken, status[r], r \in overtaken)
  BY NewStreams
<1>2. ~Broken.open
  BY DEF Broken
<1>3. QED
  BY <1>1, <1>2, ViewersKeep DEF StreamBreaks, serverVars, panelVars, modalVars

LEMMA ReceiveKeeps ==
  ASSUME WatchInvariant, NEW v \in Viewers, NEW r \in WatchedRuns, Receive(v, r)
  PROVE  WatchInvariant'
<1> DEFINE st == stream[v][r]
           new == [st EXCEPT !.queue = Tail(@)]
<1>1. stream \in [Viewers -> [WatchedRuns -> Streams]]
  BY DEF WatchInvariant, WatchShapes
<1>2. st \in Streams /\ status[r] \in Statuses /\ StreamEnds(st) /\ RealOutcomes(st, status[r], r \in overtaken)
  BY DEF WatchInvariant, WatchShapes, StreamsEnd, OutcomesUnderWay
<1>3. st.open /\ st.queue # <<>> /\ UNCHANGED <<status, writing, overtaken, active, polled, asking, modal, stopping>>
  BY DEF Receive, serverVars
<1>4. CASE Head(st.queue) = "done"
  <2>1. stream' = [stream EXCEPT ![v][r] = Closed] /\ UNCHANGED <<sse, live>>
    BY <1>4 DEF Receive
  <2>2. Closed \in Streams /\ StreamEnds(Closed) /\ RealOutcomes(Closed, status[r], r \in overtaken)
    BY NewStreams
  <2>3. ~Closed.open
    BY DEF Closed
  <2>4. QED
    BY <1>3, <2>1, <2>2, <2>3, ViewersKeep
<1>5. CASE Head(st.queue) # "done"
  <2>1. stream' = [stream EXCEPT ![v][r] = new]
    BY <1>5 DEF Receive
  <2>2. /\ v = "panel" => sse' = [run |-> r, status |-> Head(st.queue)] /\ UNCHANGED live
        /\ v # "panel" => live' = Head(st.queue) /\ UNCHANGED sse
    BY <1>5 DEF Receive
  <2> DEFINE w == r \in overtaken
  <2>w. w \in BOOLEAN /\ RealOutcomes(st, status[r], w)
    BY <1>2
  <2> HIDE DEF st, w
  <2>s. /\ new \in Streams /\ StreamEnds(new) /\ RealOutcomes(new, status[r], w) /\ new.open
        /\ Head(st.queue) \in Statuses
        /\ Head(st.queue) \in Terminal /\ ~w => status[r] = Head(st.queue)
    BY <1>2, <1>3, <1>5, <2>w, TakenIsSound
  <2>3. /\ new \in Streams /\ StreamEnds(new) /\ RealOutcomes(new, status[r], r \in overtaken) /\ new.open
        /\ Head(st.queue) \in Statuses
        /\ Head(st.queue) \in Terminal /\ r \notin overtaken => status[r] = Head(st.queue)
    BY <2>s DEF w
  <2> HIDE DEF new
  <2>4. new.open => stream[v][r].open
    BY <1>3 DEF st
  <2>5. CASE v = "panel"
    <3>1. active = r
      BY <1>3, <2>5 DEF st, WatchInvariant, OnlyOnTheirRun
    <3>2. sse' = [run |-> r, status |-> Head(st.queue)] /\ UNCHANGED live
      BY <2>2, <2>5
    <3>3. sse' \in [run : WatchedRuns, status : Statuses] \cup {NoUpdate} /\ live' \in Statuses \cup {None}
      BY <2>3, <3>2 DEF WatchInvariant, WatchShapes
    <3>4. PanelShowsItsRun' /\ (modal = None => live' = None)
      BY <1>3, <3>1, <3>2 DEF WatchInvariant, PanelShowsItsRun, OnlyOnTheirRun
    <3>5. /\ sse'.status \in Terminal /\ sse'.run \notin overtaken => status[sse'.run] = sse'.status
          /\ live' \in Terminal /\ modal \notin overtaken => status[modal] = live'
      BY <2>3, <3>2 DEF WatchInvariant, OutcomesHeld
    <3>6. QED
      BY <1>3, <2>1, <2>3, <2>4, <3>3, <3>4, <3>5, StreamKeeps
  <2>6. CASE v # "panel"
    <3>1. v = "modal" /\ modal = r /\ modal # None
      BY <1>3, <2>6, NoneIsApart DEF st, WatchInvariant, OnlyOnTheirRun, Viewers
    <3>2. live' = Head(st.queue) /\ UNCHANGED sse
      BY <2>2, <2>6
    <3>3. sse' \in [run : WatchedRuns, status : Statuses] \cup {NoUpdate} /\ live' \in Statuses \cup {None}
      BY <2>3, <3>2 DEF WatchInvariant, WatchShapes
    <3>4. PanelShowsItsRun' /\ (modal = None => live' = None)
      BY <1>3, <3>1, <3>2 DEF WatchInvariant, PanelShowsItsRun
    <3>5. /\ sse'.status \in Terminal /\ sse'.run \notin overtaken => status[sse'.run] = sse'.status
          /\ live' \in Terminal /\ modal \notin overtaken => status[modal] = live'
      BY <2>3, <3>1, <3>2 DEF WatchInvariant, OutcomesHeld
    <3>6. QED
      BY <1>3, <2>1, <2>3, <2>4, <3>3, <3>4, <3>5, StreamKeeps
  <2>7. QED
    BY <2>5, <2>6
<1>6. QED
  BY <1>4, <1>5

\* The modal opens and closes: its streams on other runs are not open.
LEMMA ModalKeeps ==
  ASSUME WatchInvariant, NEW r \in WatchedRuns, NEW new \in {Opened, Closed},
         stream' = [stream EXCEPT !["modal"][r] = new], UNCHANGED <<status, writing, overtaken, active, sse, polled, asking, stopping>>,
         \A q \in WatchedRuns : stream["modal"][q].open => q = r,
         modal' \in {r, None}, modal' = None => live' = None /\ new = Closed,
         live' \in Statuses \cup {None}, live' \in Terminal => status[modal'] = live'
  PROVE  WatchInvariant'
<1>1. "panel" \in Viewers /\ "modal" \in Viewers /\ "panel" # "modal"
  BY DEF Viewers
<1>2. new \in Streams /\ StreamEnds(new) /\ RealOutcomes(new, status[r], r \in overtaken)
  BY NewStreams
<1>3. /\ stream' \in [Viewers -> [WatchedRuns -> Streams]]
      /\ StreamsEnd' /\ OutcomesUnderWay'
      /\ \A w \in Viewers, q \in WatchedRuns :
             stream'[w][q] = IF w = "modal" /\ q = r THEN new ELSE stream[w][q]
  BY <1>1, <1>2, OneStreamChanges
<1>4. WatchShapes'
  <2>1. modal' \in WatchedRuns \cup {None}
    OBVIOUS
  <2>2. QED
    BY <1>3, <2>1 DEF WatchInvariant, WatchShapes
<1>5. OnlyOnTheirRun'
  <2>1. \A q \in WatchedRuns : stream'["panel"][q].open => active' = q
    BY <1>1, <1>3 DEF WatchInvariant, OnlyOnTheirRun
  <2>2. \A q \in WatchedRuns : stream'["modal"][q].open => q = r /\ new # Closed
    <3>1. ~Closed.open
      BY DEF Closed
    <3>2. stream'["modal"][r] = new
      BY <1>1, <1>3
    <3>3. QED
      BY <1>1, <1>3, <3>1, <3>2
  <2>3. QED
    BY <2>1, <2>2 DEF OnlyOnTheirRun
<1>6. PanelShowsItsRun'
  BY DEF WatchInvariant, PanelShowsItsRun
<1>7. OutcomesHeld'
  BY DEF WatchInvariant, OutcomesHeld
<1>8. QED
  BY <1>3, <1>4, <1>5, <1>6, <1>7 DEF WatchInvariant

LEMMA OpenModalKeeps ==
  ASSUME WatchInvariant, NEW r \in WatchedRuns, OpenModal(r)
  PROVE  WatchInvariant'
<1>1. modal = None /\ UNCHANGED <<status, writing, overtaken, active, sse, polled, asking, stopping>>
  BY DEF OpenModal, serverVars, panelVars
<1>2. PICK s \in {status[r], "pending"} :
          /\ modal' = r /\ live' = s
          /\ stream' = [stream EXCEPT !["modal"][r] = IF s \in Active THEN Opened ELSE Closed]
  BY DEF OpenModal
<1>3. s \in Statuses /\ (s \in Terminal => status[r] = s) /\ r # None
  BY NoneIsApart DEF WatchInvariant, WatchShapes, Active
<1>4. \A q \in WatchedRuns : ~stream["modal"][q].open
  BY <1>1, NoneIsApart DEF WatchInvariant, OnlyOnTheirRun
<1> DEFINE new == IF s \in Active THEN Opened ELSE Closed
<1>5. new \in {Opened, Closed} /\ stream' = [stream EXCEPT !["modal"][r] = new]
  BY <1>2
<1> HIDE DEF new
<1>6. QED
  BY <1>1, <1>2, <1>3, <1>4, <1>5, ModalKeeps

LEMMA CloseModalKeeps ==
  ASSUME WatchInvariant, CloseModal
  PROVE  WatchInvariant'
<1>1. modal \in WatchedRuns /\ \A q \in WatchedRuns : stream["modal"][q].open => q = modal
  BY DEF CloseModal, WatchInvariant, WatchShapes, OnlyOnTheirRun
<1>2. modal' = None /\ live' = None /\ stream' = [stream EXCEPT !["modal"][modal] = Closed]
  BY DEF CloseModal
<1>3. UNCHANGED <<status, writing, overtaken, active, sse, polled, asking, stopping>>
  BY DEF CloseModal, serverVars, panelVars
<1>4. QED
  BY <1>1, <1>2, <1>3, NoneIsApart, ModalKeeps

LEMMA WatchStarts == ASSUME RunWatchInit PROVE WatchInvariant
<1>1. Closed \in Streams /\ StreamEnds(Closed) /\ (\A s, w : RealOutcomes(Closed, s, w)) /\ ~Closed.open
  BY NewStreams DEF Closed
<1>2. \A v \in Viewers, r \in WatchedRuns : stream[v][r] = Closed
  BY DEF RunWatchInit
<1>3. WatchShapes
  <2>1. writing \in [Writers -> [WatchedRuns -> Transactions]]
    BY DEF RunWatchInit, Transactions
  <2>2. stream \in [Viewers -> [WatchedRuns -> Streams]]
    BY <1>1 DEF RunWatchInit
  <2>3. QED
    BY <2>1, <2>2 DEF RunWatchInit, WatchShapes, Statuses, Active
<1>4. StreamsEnd /\ OutcomesUnderWay
  BY <1>1, <1>2 DEF StreamsEnd, OutcomesUnderWay
<1>5. OnlyOnTheirRun /\ PanelShowsItsRun
  BY <1>1, <1>2 DEF RunWatchInit, OnlyOnTheirRun, PanelShowsItsRun, Viewers
<1>6. OutcomesHeld
  BY NoneIsApart DEF RunWatchInit, OutcomesHeld, NoUpdate
<1>7. QED
  BY <1>3, <1>4, <1>5, <1>6 DEF WatchInvariant

LEMMA WatchSteps == ASSUME WatchInvariant, [RunWatchNext]_watchVars PROVE WatchInvariant'
<1>1. ASSUME NEW v \in Viewers, NEW r \in WatchedRuns, ViewerStep(v, r)
      PROVE  WatchInvariant'
  BY <1>1, TurnKeeps, ReceiveKeeps, BreakKeeps DEF ViewerStep
<1>2. "panel" \in Viewers /\ "modal" \in Viewers
  BY DEF Viewers
<1>3. ASSUME NEW r \in WatchedRuns, ServerStep(r) \/ PanelStep(r) \/ ModalStep(r)
      PROVE  WatchInvariant'
  BY <1>1, <1>2, <1>3, EngineKeeps, CancelKeeps, ElsewhereKeeps, CommitKeeps, ActivateKeeps, PollKeeps, OpenModalKeeps
     DEF ServerStep, PanelStep, ModalStep
<1>4. CASE PanelNext
  BY <1>4, DismissKeeps, ReloadKeeps, AskingKeeps, StopKeeps DEF PanelNext
<1>5. CASE UNCHANGED watchVars
  BY <1>5 DEF watchVars, serverVars, panelVars, modalVars, WatchInvariant, WatchShapes, StreamsEnd, StreamEnds,
              OnlyOnTheirRun, PanelShowsItsRun, OutcomesUnderWay, RealOutcomes, OutcomesHeld
<1>6. QED
  BY <1>3, <1>4, <1>5, CloseModalKeeps DEF RunWatchNext

\* The invariant of the viewers holds.
LEMMA WatchInvariantHolds == RunWatchSpec => []WatchInvariant
<1>1. RunWatchInit => WatchInvariant
  BY WatchStarts
<1>2. WatchInvariant /\ [RunWatchNext]_watchVars => WatchInvariant'
  BY WatchSteps
<1>3. QED
  BY <1>1, <1>2, PTL DEF RunWatchSpec

\* The type invariant of the runs, as the spelled-out shapes give it.
LEMMA WatchTypes == ASSUME WatchInvariant PROVE RunWatchTypeOK
<1>1. ASSUME NEW v \in Viewers, NEW r \in WatchedRuns
      PROVE  LET st == stream[v][r] IN
             /\ st.open \in BOOLEAN /\ st.over \in BOOLEAN /\ st.sent \in Statuses \cup {None}
             /\ Len(st.queue) <= MaxInFlight
             /\ st.open /\ st.over => st.queue # <<>>
             /\ \A i \in DOMAIN st.queue : st.queue[i] \in Statuses \cup {"done"}
  <2>1. stream[v][r] \in Streams /\ StreamEnds(stream[v][r])
    BY DEF WatchInvariant, WatchShapes, StreamsEnd
  <2>2. stream[v][r].queue \in Seq(Messages)
    BY <2>1 DEF Streams
  <2>3. \A i \in DOMAIN stream[v][r].queue : stream[v][r].queue[i] \in Statuses \cup {"done"}
    BY <2>2 DEF Messages
  <2>4. stream[v][r].open /\ stream[v][r].over => stream[v][r].queue # <<>>
    BY <2>1 DEF StreamEnds
  <2>5. Len(stream[v][r].queue) <= MaxInFlight
    BY <2>1 DEF StreamEnds
  <2>6. stream[v][r].open \in BOOLEAN /\ stream[v][r].over \in BOOLEAN /\ stream[v][r].sent \in Statuses \cup {None}
    BY <2>1 DEF Streams
  <2>7. QED
    BY <2>3, <2>4, <2>5, <2>6
<1>2. writing \in [Writers -> [WatchedRuns -> [saw : Statuses, writes : Statuses] \cup {NoWrite}]]
  <2>1. Transactions \subseteq [saw : Statuses, writes : Statuses] \cup {NoWrite}
    BY NoneIsApart DEF Transactions
  <2>2. writing \in [Writers -> [WatchedRuns -> Transactions]]
    BY DEF WatchInvariant, WatchShapes
  <2>3. QED
    BY <2>1, <2>2
<1>3. QED
  BY <1>1, <1>2 DEF WatchInvariant, WatchShapes, RunWatchTypeOK

\* The panel shows the active run only (components/RunStatusPanel.tsx): the clean-up
\* of its effect closes the stream of the run before.
THEOREM ThePanelShowsItsRun == RunWatchSpec => []PanelShowsItsRun
<1>1. WatchInvariant => PanelShowsItsRun
  BY DEF WatchInvariant
<1>2. QED
  BY <1>1, WatchInvariantHolds, PTL

\* A viewer shows a run as over only when it is, with its outcome, whatever a stream still
\* carries or the panel polled: an outcome is taken back only when the engine or a cancel
\* (scheduler.cancel_run) wrote over it what it had decided on the active run.
THEOREM NoOutcomeIsMadeUp == RunWatchSpec => []ShownOutcomeIsReal
<1>1. WatchInvariant => ShownOutcomeIsReal
  BY ShownIsActive DEF WatchInvariant, OutcomesHeld, ShownOutcomeIsReal
<1>2. QED
  BY <1>1, WatchInvariantHolds, PTL

-----------------------------------------------------------------------------
(* The page of a case: its timeline.                                       *)

Cases == [status : CaseStatuses, closedAt : BOOLEAN, docs : 0 .. MaxDocs, runs : Seq(RunStates)]
SmallCase(c) == c \in Cases /\ Len(c.runs) <= MaxRuns
RunRequests == [pc : {"idle", "sent", "created", "refused"}, run : Nat]
RunRequestIsWhole(request, runs) ==
    /\ request \in RunRequests /\ request.run <= Len(runs)
    /\ request.pc = "created" <=> request.run # 0

TimelineShapes ==
    /\ engineOn \cup cancelOn \cup rewritten \subseteq 1 .. Len(kase.runs)
    /\ SmallCase(kase) /\ SmallCase(page)
    /\ fetch \in Seq(Cases) /\ (fetch # <<>> => SmallCase(fetch[1]))
    /\ RunRequestIsWhole(running, kase.runs)
    /\ started \in 0 .. Len(kase.runs)
    /\ deciding \subseteq CaseStatuses /\ decisions \in 0 .. MaxDecisions

\* The runs as they were earlier: there may be more now, and those that had ended are as
\* they were, unless their end was written over.
Behind(runs, now, exempt) ==
    /\ Len(runs) <= Len(now)
    /\ \A i \in (1 .. Len(runs)) \ exempt : runs[i] # "active" => now[i] = runs[i]

\* The page is behind what a GET has read, and that behind the case.
PageIsBehind ==
    /\ Behind(page.runs, kase.runs, rewritten)
    /\ fetch # <<>> => /\ Behind(page.runs, fetch[1].runs, rewritten)
                      /\ Behind(fetch[1].runs, kase.runs, rewritten)

TimelineInvariant == TimelineShapes /\ PageIsBehind

\* Being behind is an order, and stays so as more is exempt.
LEMMA BehindIsAnOrder ==
  ASSUME NEW x
  PROVE  /\ \A a \in Seq(RunStates) : Behind(a, a, x)
         /\ \A a, b, c \in Seq(RunStates) : Behind(a, b, x) /\ Behind(b, c, x) => Behind(a, c, x)
         /\ \A a, b, y : Behind(a, b, y) /\ y \subseteq x => Behind(a, b, x)
<1>1. ASSUME NEW a \in Seq(RunStates)
      PROVE  Behind(a, a, x)
  <2>1. Len(a) \in Nat
    OBVIOUS
  <2>2. Len(a) <= Len(a)
    BY <2>1
  <2>3. QED
    BY <2>2 DEF Behind
<1>2. ASSUME NEW a \in Seq(RunStates), NEW b \in Seq(RunStates), NEW c \in Seq(RunStates),
             Behind(a, b, x), Behind(b, c, x)
      PROVE  Behind(a, c, x)
  <2>1. Len(a) \in Nat /\ Len(b) \in Nat /\ Len(c) \in Nat /\ Len(a) <= Len(b) /\ Len(b) <= Len(c)
    BY <1>2 DEF Behind
  <2>2. Len(a) <= Len(c) /\ \A i \in 1 .. Len(a) : i \in 1 .. Len(b)
    BY <2>1
  <2>3. \A i \in (1 .. Len(a)) \ x : a[i] # "active" => c[i] = a[i]
    BY <1>2, <2>2 DEF Behind
  <2>4. QED
    BY <2>2, <2>3 DEF Behind
<1>3. \A a, b, y : Behind(a, b, y) /\ y \subseteq x => Behind(a, b, x)
  BY DEF Behind
<1>4. QED
  BY <1>1, <1>2, <1>3

\* A run is added at the end, or changes where it is: one that had ended is exempt then.
LEMMA RunsGoOn ==
  ASSUME NEW runs \in Seq(RunStates), NEW x
  PROVE  /\ Append(runs, "active") \in Seq(RunStates) /\ Len(Append(runs, "active")) = Len(runs) + 1
         /\ Behind(runs, Append(runs, "active"), x)
         /\ \A i \in DOMAIN runs, s \in RunStates : runs[i] = "active" \/ i \in x =>
               /\ [runs EXCEPT ![i] = s] \in Seq(RunStates) /\ Len([runs EXCEPT ![i] = s]) = Len(runs)
               /\ Behind(runs, [runs EXCEPT ![i] = s], x)
<1>1. Len(runs) \in Nat /\ "active" \in RunStates
  BY DEF RunStates
<1>2. /\ Append(runs, "active") \in Seq(RunStates) /\ Len(Append(runs, "active")) = Len(runs) + 1
      /\ \A i \in 1 .. Len(runs) : Append(runs, "active")[i] = runs[i]
  BY <1>1
<1>3. Behind(runs, Append(runs, "active"), x)
  <2>1. Len(runs) <= Len(runs) + 1
    BY <1>1
  <2>2. QED
    BY <1>2, <2>1 DEF Behind
<1>4. ASSUME NEW i \in DOMAIN runs, NEW s \in RunStates, runs[i] = "active" \/ i \in x
      PROVE  /\ [runs EXCEPT ![i] = s] \in Seq(RunStates) /\ Len([runs EXCEPT ![i] = s]) = Len(runs)
             /\ Behind(runs, [runs EXCEPT ![i] = s], x)
  <2> DEFINE new == [runs EXCEPT ![i] = s]
  <2>1. new \in Seq(RunStates) /\ Len(new) = Len(runs) /\ \A j \in 1 .. Len(runs) : new[j] = IF j = i THEN s ELSE runs[j]
    BY <1>1
  <2> HIDE DEF new
  <2>2. Len(runs) <= Len(new)
    BY <1>1, <2>1
  <2>3. \A j \in (1 .. Len(runs)) \ x : runs[j] # "active" => new[j] = runs[j]
    BY <1>4, <2>1
  <2>4. Behind(runs, new, x)
    BY <2>2, <2>3 DEF Behind
  <2>5. QED
    BY <2>1, <2>4 DEF new
<1>5. QED
  BY <1>2, <1>3, <1>4

\* The newest verdict of the runs is among them, and does not go back as they go on
\* unless the end of its run was written over.
LEMMA VerdictsGoOn ==
  ASSUME NEW a \in Seq(RunStates), NEW b \in Seq(RunStates), NEW x, Behind(a, b, x)
  PROVE  LatestVerdict(b) >= LatestVerdict(a) \/ LatestVerdict(a) \in x
<1>1. Len(a) \in Nat /\ Len(b) \in Nat /\ Len(a) <= Len(b)
  BY DEF Behind
<1>2. {0} \cup Verdicts(a) \in SUBSET (0 .. Len(b)) /\ {0} \cup Verdicts(b) \in SUBSET (0 .. Len(b))
  <2>1. Verdicts(a) \subseteq 1 .. Len(a) /\ Verdicts(b) \subseteq 1 .. Len(b)
    BY DEF Verdicts
  <2>2. 1 .. Len(a) \subseteq 0 .. Len(b) /\ 1 .. Len(b) \subseteq 0 .. Len(b) /\ 0 \in 0 .. Len(b)
    BY <1>1
  <2>3. QED
    BY <2>1, <2>2
<1>3. \A i \in ({0} \cup Verdicts(a)) \ x : i \in {0} \cup Verdicts(b)
  <2>1. ASSUME NEW i \in Verdicts(a), i \notin x
        PROVE  i \in Verdicts(b)
    <3>1. i \in 1 .. Len(a) /\ a[i] = "verdict"
      BY DEF Verdicts
    <3>2. i \in 1 .. Len(b) /\ b[i] = "verdict"
      BY <1>1, <2>1, <3>1 DEF Behind
    <3>3. QED
      BY <3>2 DEF Verdicts
  <2>2. QED
    BY <2>1
<1>4. LatestVerdict(a) \in {0} \cup Verdicts(a)
  BY <1>1, <1>2, MaxIsGreatest DEF LatestVerdict
<1>5. \A y \in {0} \cup Verdicts(b) : LatestVerdict(b) >= y
  BY <1>1, <1>2, MaxIsGreatest DEF LatestVerdict
<1>6. QED
  BY <1>3, <1>4, <1>5

\* The case goes on, and the page, or what was read, stays behind it.
LEMMA CaseGoesOn ==
  ASSUME TimelineInvariant, SmallCase(kase'), Behind(kase.runs, kase'.runs, rewritten'), rewritten \subseteq rewritten',
         engineOn' \cup cancelOn' \cup rewritten' \subseteq 1 .. Len(kase.runs),
         UNCHANGED page, fetch' \in {fetch, <<>>},
         RunRequestIsWhole(running', kase'.runs), started' \in 0 .. Len(kase'.runs),
         deciding' \subseteq CaseStatuses, decisions' \in 0 .. MaxDecisions
  PROVE  TimelineInvariant'
<1>1. fetch' \in Seq(Cases) /\ (fetch' # <<>> => fetch' = fetch /\ SmallCase(fetch[1]))
  <2>1. CASE fetch' = <<>>
    BY <2>1
  <2>2. CASE fetch' = fetch
    BY <2>2 DEF TimelineInvariant, TimelineShapes
  <2>3. QED
    BY <2>1, <2>2
<1>2. SmallCase(page) /\ SmallCase(kase)
  BY DEF TimelineInvariant, TimelineShapes
<1>3. TimelineShapes'
  <2>1. Len(kase.runs) <= Len(kase'.runs) /\ Len(kase.runs) \in Nat /\ Len(kase'.runs) \in Nat
    BY <1>2 DEF Behind, SmallCase, Cases
  <2>2. 1 .. Len(kase.runs) \subseteq 1 .. Len(kase'.runs)
    BY <2>1
  <2>3. QED
    BY <1>1, <1>2, <2>2 DEF TimelineShapes, SmallCase, RunRequestIsWhole
<1>4. kase.runs \in Seq(RunStates) /\ kase'.runs \in Seq(RunStates) /\ page.runs \in Seq(RunStates)
  BY <1>2 DEF SmallCase, Cases
<1>5. Behind(page.runs, kase'.runs, rewritten')
  <2>1. Behind(page.runs, kase.runs, rewritten')
    BY BehindIsAnOrder DEF TimelineInvariant, PageIsBehind
  <2>2. QED
    BY <1>4, <2>1, BehindIsAnOrder
<1>6. fetch' # <<>> => /\ Behind(page.runs, fetch'[1].runs, rewritten')
                       /\ Behind(fetch'[1].runs, kase'.runs, rewritten')
  <2>1. HAVE fetch' # <<>>
  <2>2. fetch'[1].runs \in Seq(RunStates) /\ fetch'[1] = fetch[1]
    BY <1>1, <2>1 DEF SmallCase, Cases
  <2>3. Behind(page.runs, fetch[1].runs, rewritten) /\ Behind(fetch[1].runs, kase.runs, rewritten)
    BY <1>1, <2>1 DEF TimelineInvariant, PageIsBehind
  <2>4. Behind(page.runs, fetch[1].runs, rewritten') /\ Behind(fetch[1].runs, kase.runs, rewritten')
    BY <2>3, BehindIsAnOrder
  <2>5. Behind(fetch[1].runs, kase'.runs, rewritten')
    BY <1>4, <2>2, <2>4, BehindIsAnOrder
  <2>6. QED
    BY <2>2, <2>4, <2>5
<1>7. PageIsBehind'
  BY <1>5, <1>6 DEF PageIsBehind, Behind
<1>8. QED
  BY <1>3, <1>7 DEF TimelineInvariant

\* What the invariant says of the case, field by field.
LEMMA TheCase ==
  ASSUME TimelineInvariant
  PROVE  /\ kase \in Cases /\ kase.status \in CaseStatuses /\ kase.closedAt \in BOOLEAN
         /\ kase.docs \in 0 .. MaxDocs /\ kase.runs \in Seq(RunStates) /\ Len(kase.runs) <= MaxRuns
         /\ Len(kase.runs) \in Nat /\ MaxDocs \in Nat /\ MaxRuns \in Nat /\ MaxDecisions \in Nat
         /\ Behind(kase.runs, kase.runs, rewritten) /\ RunRequestIsWhole(running, kase.runs)
         /\ engineOn \cup cancelOn \cup rewritten \subseteq 1 .. Len(kase.runs)
         /\ started \in 0 .. Len(kase.runs) /\ deciding \subseteq CaseStatuses /\ decisions \in 0 .. MaxDecisions
BY BehindIsAnOrder, CaseDeskAssumption DEF TimelineInvariant, TimelineShapes, SmallCase, Cases

\* What is under way stays as it is while the case goes on.
LEMMA OnlyTheCase ==
  ASSUME TimelineInvariant, SmallCase(kase'), Behind(kase.runs, kase'.runs, rewritten'), rewritten \subseteq rewritten',
         engineOn' \cup cancelOn' \cup rewritten' \subseteq 1 .. Len(kase.runs),
         UNCHANGED <<page, fetch, running, started, deciding, decisions>>
  PROVE  TimelineInvariant'
<1>1. Len(kase.runs) <= Len(kase'.runs) /\ Len(kase.runs) \in Nat /\ Len(kase'.runs) \in Nat
  BY TheCase DEF Behind, SmallCase, Cases
<1>2. RunRequestIsWhole(running', kase'.runs)
  <2>1. RunRequestIsWhole(running, kase.runs) /\ running.run \in Nat
    BY TheCase DEF RunRequestIsWhole, RunRequests
  <2>2. running.run <= Len(kase'.runs)
    BY <1>1, <2>1 DEF RunRequestIsWhole
  <2>3. QED
    BY <2>1, <2>2 DEF RunRequestIsWhole
<1>3. started' \in 0 .. Len(kase'.runs)
  BY <1>1, TheCase
<1>4. QED
  BY <1>2, <1>3, TheCase, CaseGoesOn

LEMMA MailKeeps ==
  ASSUME TimelineInvariant, MailWithDocuments \/ TextOnlyMail \/ DocumentAttached
  PROVE  TimelineInvariant'
<1>1. /\ UNCHANGED <<page, fetch, running, started, deciding, decisions, rewritten>>
      /\ engineOn' \cup cancelOn' \cup rewritten' \subseteq 1 .. Len(kase.runs)
  BY TheCase DEF MailWithDocuments, TextOnlyMail, DocumentAttached, runVars
<1>2. CASE MailWithDocuments
  <2>1. kase.docs < MaxDocs /\ Len(kase.runs) < MaxRuns
    BY <1>2 DEF MailWithDocuments
  <2>2. kase' = [kase EXCEPT !.docs = kase.docs + 1, !.runs = Append(kase.runs, "active")]
    BY <1>2 DEF MailWithDocuments
  <2>r. kase.runs \in Seq(RunStates) /\ kase.docs + 1 \in 0 .. MaxDocs
    BY <2>1, TheCase
  <2>3. kase.docs + 1 \in 0 .. MaxDocs /\ Append(kase.runs, "active") \in Seq(RunStates)
    BY <2>r, RunsGoOn
  <2>4. kase' \in Cases /\ kase'.runs = Append(kase.runs, "active")
    BY <2>2, <2>3, TheCase DEF Cases
  <2>5. Behind(kase.runs, kase'.runs, rewritten) /\ Len(kase'.runs) = Len(kase.runs) + 1
    BY <2>4, TheCase, RunsGoOn
  <2>6. SmallCase(kase')
    BY <2>1, <2>4, <2>5, TheCase DEF SmallCase
  <2>7. QED
    BY <1>1, <2>5, <2>6, OnlyTheCase
<1>3. CASE TextOnlyMail
  <2>1. kase' \in Cases /\ kase'.runs = kase.runs
    BY <1>3, TheCase DEF TextOnlyMail, Cases, CaseStatuses
  <2>2. QED
    BY <1>1, <2>1, TheCase, OnlyTheCase DEF SmallCase
<1>4. CASE DocumentAttached
  <2>1. kase.docs + 1 \in 0 .. MaxDocs
    BY <1>4, TheCase DEF DocumentAttached
  <2>2. kase' = [kase EXCEPT !.docs = kase.docs + 1]
    BY <1>4 DEF DocumentAttached
  <2>3. kase' \in Cases /\ kase'.runs = kase.runs
    BY <2>1, <2>2, TheCase DEF Cases
  <2>4. QED
    BY <1>1, <2>3, TheCase, OnlyTheCase DEF SmallCase
<1>5. QED
  BY <1>2, <1>3, <1>4

\* A transaction loads a run, and writes it.
LEMMA LoadsKeep ==
  ASSUME TimelineInvariant, NEW i \in 1 .. MaxRuns, EngineLoadsRun(i) \/ CancelLoadsRun(i)
  PROVE  TimelineInvariant'
<1>1. engineOn' \cup cancelOn' \cup rewritten' \subseteq 1 .. Len(kase.runs) /\ UNCHANGED <<kase, rewritten>>
  BY TheCase DEF EngineLoadsRun, CancelLoadsRun, Loads
<1>2. SmallCase(kase)
  BY DEF TimelineInvariant, TimelineShapes
<1>3. SmallCase(kase') /\ Behind(kase.runs, kase'.runs, rewritten')
  BY <1>1, <1>2, TheCase DEF SmallCase
<1>4. QED
  BY <1>1, <1>3, OnlyTheCase DEF EngineLoadsRun, CancelLoadsRun

LEMMA WritesKeep ==
  ASSUME TimelineInvariant, NEW i \in 1 .. MaxRuns, EngineWrites(i) \/ CancelWrites(i)
  PROVE  TimelineInvariant'
<1>1. PICK s \in RunStates : Becomes(i, s)
  BY DEF EngineWrites, CancelWrites, RunStates
<1>2. /\ kase' = [kase EXCEPT !.runs[i] = s] /\ rewritten \subseteq rewritten'
      /\ rewritten' \subseteq rewritten \cup {i} /\ (kase.runs[i] = "active" \/ i \in rewritten')
      /\ i \in DOMAIN kase.runs
  BY <1>1, TheCase DEF Becomes, EngineWrites, CancelWrites
<1>3. engineOn' \cup cancelOn' \cup rewritten' \subseteq 1 .. Len(kase.runs)
  BY <1>2, TheCase DEF EngineWrites, CancelWrites
<1> DEFINE new == [kase.runs EXCEPT ![i] = s]
<1>4. new \in Seq(RunStates) /\ Len(new) = Len(kase.runs) /\ Behind(kase.runs, new, rewritten')
  BY <1>2, TheCase, RunsGoOn
<1>5. kase' = [kase EXCEPT !.runs = new]
  BY <1>2
<1> HIDE DEF new
<1>6. kase' \in Cases /\ kase'.runs = new
  BY <1>4, <1>5, TheCase DEF Cases
<1>7. SmallCase(kase')
  BY <1>4, <1>6, TheCase DEF SmallCase
<1>8. UNCHANGED <<page, fetch, running, started, deciding, decisions>>
  BY DEF EngineWrites, CancelWrites
<1>9. QED
  BY <1>2, <1>3, <1>4, <1>6, <1>7, <1>8, OnlyTheCase

\* The GET reads the case, lands, or fails.
LEMMA QueryKeeps ==
  ASSUME TimelineInvariant, QueryNext
  PROVE  TimelineInvariant'
<1>1. UNCHANGED <<kase, engineOn, cancelOn, rewritten, running, started, deciding, decisions>>
  BY DEF QueryNext, FetchReads, FetchLands, FetchFails, runVars
<1>2. SmallCase(kase) /\ SmallCase(page)
  BY DEF TimelineInvariant, TimelineShapes
<1>3. CASE FetchReads
  <2>1. fetch' = <<kase>> /\ UNCHANGED page
    BY <1>3 DEF FetchReads
  <2>2. fetch' \in Seq(Cases) /\ fetch'[1] = kase
    BY <2>1, TheCase
  <2>3. TimelineShapes'
    BY <1>1, <2>1, <2>2 DEF TimelineInvariant, TimelineShapes, SmallCase, RunRequestIsWhole
  <2>4. Behind(page.runs, kase.runs, rewritten) /\ Behind(kase.runs, kase.runs, rewritten)
    BY TheCase DEF TimelineInvariant, PageIsBehind
  <2>5. PageIsBehind'
    BY <1>1, <2>1, <2>2, <2>4 DEF PageIsBehind, Behind
  <2>6. QED
    BY <2>3, <2>5 DEF TimelineInvariant
<1>4. CASE FetchLands
  <2>1. fetch # <<>> /\ page' = fetch[1] /\ fetch' = <<>>
    BY <1>4 DEF FetchLands
  <2>2. SmallCase(fetch[1]) /\ Behind(fetch[1].runs, kase.runs, rewritten)
    BY <2>1 DEF TimelineInvariant, TimelineShapes, PageIsBehind
  <2>3. TimelineShapes'
    BY <1>1, <2>1, <2>2 DEF TimelineInvariant, TimelineShapes, SmallCase, RunRequestIsWhole
  <2>4. PageIsBehind'
    BY <1>1, <2>1, <2>2 DEF PageIsBehind, Behind
  <2>5. QED
    BY <2>3, <2>4 DEF TimelineInvariant
<1>5. CASE FetchFails
  <2>1. fetch' = <<>> /\ UNCHANGED page
    BY <1>5 DEF FetchFails
  <2>2. QED
    BY <1>1, <1>2, <2>1, TheCase, CaseGoesOn
<1>6. QED
  BY <1>3, <1>4, <1>5 DEF QueryNext

LEMMA RunKeeps ==
  ASSUME TimelineInvariant, ClickRun \/ RunRoute \/ RunAnswered \/ RunFails
  PROVE  TimelineInvariant'
<1>1. SmallCase(kase) /\ Behind(kase.runs, kase.runs, rewritten)
  BY TheCase DEF TimelineInvariant, TimelineShapes
<1>2. /\ UNCHANGED <<page, deciding, decisions, rewritten>> /\ fetch' \in {fetch, <<>>}
      /\ engineOn' \cup cancelOn' \cup rewritten' \subseteq 1 .. Len(kase.runs)
  BY TheCase DEF ClickRun, RunRoute, RunAnswered, RunFails, Invalidate, runVars
<1>3. \A pc \in {"idle", "sent", "refused"} : RunRequestIsWhole([pc |-> pc, run |-> 0], kase.runs)
  BY TheCase DEF RunRequestIsWhole, RunRequests
<1>4. CASE ClickRun \/ RunFails
  <2>1. UNCHANGED <<kase, started>> /\ RunRequestIsWhole(running', kase.runs)
    BY <1>3, <1>4 DEF ClickRun, RunFails, NotRunning
  <2>2. QED
    BY <1>1, <1>2, <2>1, TheCase, CaseGoesOn
<1>5. CASE RunRoute /\ kase.docs = 0
  <2>1. UNCHANGED <<kase, started>> /\ RunRequestIsWhole(running', kase.runs)
    BY <1>3, <1>5 DEF RunRoute
  <2>2. QED
    BY <1>1, <1>2, <2>1, TheCase, CaseGoesOn
<1>6. CASE RunRoute /\ kase.docs # 0
  <2>1. /\ Len(kase.runs) < MaxRuns /\ kase' = [kase EXCEPT !.runs = Append(kase.runs, "active")]
        /\ running' = [pc |-> "created", run |-> Len(kase'.runs)] /\ UNCHANGED started
    BY <1>6 DEF RunRoute
  <2>2. kase' \in Cases /\ kase'.runs = Append(kase.runs, "active")
    BY <2>1, TheCase, RunsGoOn DEF Cases
  <2>3. Behind(kase.runs, kase'.runs, rewritten) /\ Len(kase'.runs) = Len(kase.runs) + 1
    BY <2>2, TheCase, RunsGoOn
  <2>4. SmallCase(kase') /\ Len(kase'.runs) \in Nat /\ Len(kase'.runs) # 0 /\ Len(kase'.runs) <= Len(kase'.runs)
    BY <2>1, <2>2, <2>3, TheCase DEF SmallCase
  <2>5. RunRequestIsWhole(running', kase'.runs)
    BY <2>1, <2>4 DEF RunRequestIsWhole, RunRequests
  <2>6. started' \in 0 .. Len(kase'.runs)
    BY <2>1, <2>3, TheCase
  <2>7. QED
    BY <1>2, <2>3, <2>4, <2>5, <2>6, TheCase, CaseGoesOn
<1>7. CASE RunAnswered
  <2>1. UNCHANGED kase /\ RunRequestIsWhole(running', kase.runs)
    BY <1>3, <1>7 DEF RunAnswered, NotRunning
  <2>2. started' \in 0 .. Len(kase.runs)
    <3>1. running.run \in Nat /\ running.run <= Len(kase.runs)
      BY TheCase DEF RunRequestIsWhole, RunRequests
    <3>2. QED
      BY <1>7, <3>1, TheCase DEF RunAnswered
  <2>3. QED
    BY <1>1, <1>2, <2>1, <2>2, TheCase, CaseGoesOn
<1>8. QED
  BY <1>4, <1>5, <1>6, <1>7

LEMMA DecisionKeeps ==
  ASSUME TimelineInvariant, NEW s \in CaseStatuses, Decide(s) \/ DecisionLands(s) \/ DecisionFails(s)
  PROVE  TimelineInvariant'
<1>1. SmallCase(kase) /\ Behind(kase.runs, kase.runs, rewritten)
  BY TheCase DEF TimelineInvariant, TimelineShapes
<1>2. /\ UNCHANGED <<page, running, started, rewritten>> /\ fetch' \in {fetch, <<>>}
      /\ engineOn' \cup cancelOn' \cup rewritten' \subseteq 1 .. Len(kase.runs)
  BY TheCase DEF Decide, DecisionLands, DecisionFails, Invalidate, runVars
<1>3. deciding' \subseteq CaseStatuses
  BY TheCase DEF Decide, DecisionLands, DecisionFails
<1>4. decisions' \in 0 .. MaxDecisions
  BY TheCase DEF Decide, DecisionLands, DecisionFails
<1>5. SmallCase(kase') /\ kase'.runs = kase.runs
  <2>1. CASE DecisionLands(s)
    <3> DEFINE b == kase.closedAt \/ s \in ClosedStatuses
    <3>1. kase' = [kase EXCEPT !.status = s, !.closedAt = b]
      BY <2>1 DEF DecisionLands
    <3>2. b \in BOOLEAN
      OBVIOUS
    <3> HIDE DEF b
    <3>3. kase' \in Cases /\ kase'.runs = kase.runs
      BY <3>1, <3>2, TheCase DEF Cases
    <3>4. QED
      BY <3>3, TheCase DEF SmallCase
  <2>2. CASE Decide(s) \/ DecisionFails(s)
    BY <1>1, <2>2 DEF Decide, DecisionFails, SmallCase
  <2>3. QED
    BY <2>1, <2>2
<1>6. QED
  BY <1>1, <1>2, <1>3, <1>4, <1>5, TheCase, CaseGoesOn

-----------------------------------------------------------------------------
(* The page of a case: its composer.                                       *)

Kinds == {"reply", "note"}
Composers == [mode : {"none"} \cup Kinds, text : 0 .. MaxTexts, sending : BOOLEAN]
Posts == [kind : Kinds, text : Texts, pc : {"sent", "recorded", "done"}]

ComposerShapes ==
    /\ composer \in Composers /\ posting \in Posts \cup {NoMessage}
    /\ messages \in Seq(Message) /\ mailed \in Seq(Texts)
    /\ typed \in 0 .. MaxTexts /\ unanswered \subseteq Texts
    /\ composer.mode = "none" => composer.text = 0
    /\ composer.sending <=> posting # NoMessage

\* Nothing is sent or recorded that was not typed.
TextsWereTyped ==
    /\ composer.text <= typed
    /\ posting # NoMessage => posting.text <= typed
    /\ \A i \in 1 .. Len(messages) : messages[i].text <= typed

Recorded(t) == \E i \in 1 .. Len(messages) : messages[i].text = t
OnTheTimeline(t) == \E i \in 1 .. Len(messages) : messages[i] = [kind |-> "reply", text |-> t]

\* A mail left only after its message was recorded, and is about to only then.
MailsAreRecorded ==
    /\ \A i \in 1 .. Len(mailed) : OnTheTimeline(mailed[i])
    /\ posting.pc = "recorded" => OnTheTimeline(posting.text)

\* A text whose requests were all answered is recorded once at most; once it is, the
\* composer holds it only until the answer comes.
RecordedOnce(t) == \A i, j \in 1 .. Len(messages) : messages[i].text = t /\ messages[j].text = t => i = j
AnsweredOnce(t) ==
    /\ RecordedOnce(t)
    /\ Recorded(t) => composer.text # t \/ (posting.text = t /\ posting.pc # "sent")
    /\ posting.text = t /\ posting.pc = "sent" => ~Recorded(t)
OnceAnswered == \A t \in Texts \ unanswered : AnsweredOnce(t)

ComposerInvariant == ComposerShapes /\ TextsWereTyped /\ MailsAreRecorded /\ OnceAnswered

LEMMA NoPost ==
  /\ NoMessage \notin Posts /\ NoMessage.text = 0 /\ NoMessage.pc = "none" /\ 0 \notin Texts
  /\ MaxTexts \in Nat /\ Texts \subseteq 0 .. MaxTexts
BY CaseDeskAssumption DEF Posts, NoMessage, Texts, Kinds

\* What the invariant says of the parts of the composer.
LEMMA TheComposer ==
  ASSUME ComposerInvariant
  PROVE  /\ composer.mode \in {"none"} \cup Kinds /\ composer.text \in 0 .. MaxTexts /\ composer.sending \in BOOLEAN
         /\ composer.text # 0 => composer.text \in Texts /\ composer.mode \in Kinds
         /\ posting # NoMessage => posting \in Posts /\ posting.kind \in Kinds /\ posting.text \in Texts
                                   /\ posting.pc \in {"sent", "recorded", "done"}
         /\ posting.pc \in {"sent", "recorded", "done"} => posting # NoMessage
         /\ composer.sending <=> posting # NoMessage
         /\ typed \in Nat /\ composer.text <= typed
<1>1. composer \in Composers /\ posting \in Posts \cup {NoMessage} /\ typed \in 0 .. MaxTexts
  BY DEF ComposerInvariant, ComposerShapes
<1>2. composer.mode \in {"none"} \cup Kinds /\ composer.text \in 0 .. MaxTexts /\ composer.sending \in BOOLEAN
  BY <1>1 DEF Composers
<1>3. composer.text # 0 => composer.text \in Texts
  BY <1>2, NoPost DEF Texts
<1>4. composer.text # 0 => composer.mode \in Kinds
  BY <1>2 DEF ComposerInvariant, ComposerShapes
<1>5. posting # NoMessage => posting \in Posts /\ posting.kind \in Kinds /\ posting.text \in Texts
                             /\ posting.pc \in {"sent", "recorded", "done"}
  BY <1>1 DEF Posts
<1>6. posting.pc \in {"sent", "recorded", "done"} => posting # NoMessage
  BY NoPost
<1>7. typed \in Nat /\ composer.text <= typed
  BY <1>1, NoPost DEF ComposerInvariant, TextsWereTyped
<1>8. QED
  BY <1>2, <1>3, <1>4, <1>5, <1>6, <1>7 DEF ComposerInvariant, ComposerShapes

\* The composer changes, and no message does.
LEMMA OnlyTheComposer ==
  ASSUME ComposerInvariant, UNCHANGED <<posting, messages, mailed, unanswered>>,
         NEW m \in {"none"} \cup Kinds, NEW x \in 0 .. MaxTexts,
         composer' = [mode |-> m, text |-> x, sending |-> composer.sending],
         m = "none" => x = 0, typed' \in 0 .. MaxTexts, typed' >= typed, x <= typed',
         x \in {0, composer.text} \/ x > typed
  PROVE  ComposerInvariant'
<1>1. composer' \in Composers /\ composer'.text = x /\ composer'.mode = m /\ composer'.sending = composer.sending
  BY TheComposer DEF Composers
<1>2. ComposerShapes'
  BY <1>1 DEF ComposerInvariant, ComposerShapes
<1>3. /\ typed \in Nat /\ typed' \in Nat
      /\ \A i \in 1 .. Len(messages) : messages[i].text \in Nat /\ messages[i].text <= typed
      /\ posting # NoMessage => posting.text \in Nat /\ posting.text <= typed
  <2>1. typed \in Nat /\ typed' \in Nat
    BY NoPost, TheComposer
  <2>2. \A i \in 1 .. Len(messages) : messages[i] \in Message
    BY DEF ComposerInvariant, ComposerShapes
  <2>3. \A m1 \in Message : m1.text \in Nat
    <3>1. \A m1 \in Message : m1.text \in Texts
      BY DEF Message
    <3>2. Texts \subseteq Nat
      BY DEF Texts
    <3>3. QED
      BY <3>1, <3>2
  <2>4. posting # NoMessage => posting.text \in Nat
    <3>1. posting # NoMessage => posting.text \in Texts
      BY TheComposer
    <3>2. QED
      BY <3>1 DEF Texts
  <2>5. QED
    BY <2>1, <2>2, <2>3, <2>4 DEF ComposerInvariant, TextsWereTyped
<1>4. TextsWereTyped'
  <2>1. \A a, b, c \in Nat : a <= b /\ c >= b => a <= c
    OBVIOUS
  <2>2. \A i \in 1 .. Len(messages) : messages[i].text <= typed'
    BY <1>3, <2>1
  <2>3. posting # NoMessage => posting.text <= typed'
    BY <1>3, <2>1
  <2>4. QED
    BY <1>1, <2>2, <2>3 DEF TextsWereTyped
<1>5. MailsAreRecorded'
  BY DEF ComposerInvariant, MailsAreRecorded, OnTheTimeline
<1>6. OnceAnswered'
  <2>1. ASSUME NEW t \in Texts \ unanswered, Recorded(t)
        PROVE  x # t \/ (posting.text = t /\ posting.pc # "sent")
    <3>1. t \in Nat /\ t <= typed /\ t # 0
      BY <1>3, <2>1, NoPost DEF Recorded, Texts
    <3>2. composer.text # t \/ (posting.text = t /\ posting.pc # "sent")
      BY <2>1 DEF ComposerInvariant, OnceAnswered, AnsweredOnce
    <3>3. QED
      BY <1>3, <3>1, <3>2
  <2>2. \A t \in Texts \ unanswered : AnsweredOnce(t) => AnsweredOnce(t)'
    BY <1>1, <2>1 DEF AnsweredOnce, Recorded, RecordedOnce
  <2>3. QED
    BY <2>2 DEF ComposerInvariant, OnceAnswered
<1>7. QED
  BY <1>2, <1>4, <1>5, <1>6 DEF ComposerInvariant

LEMMA WritingKeeps ==
  ASSUME ComposerInvariant, (\E m \in {"reply", "note"} : SetMode(m)) \/ Type \/ CloseComposer
  PROVE  ComposerInvariant'
<1>1. composer = [mode |-> composer.mode, text |-> composer.text, sending |-> composer.sending]
  BY DEF ComposerInvariant, ComposerShapes, Composers
<1>2. typed \in 0 .. MaxTexts /\ typed >= typed /\ 0 <= typed
  BY TheComposer, NoPost DEF ComposerInvariant, ComposerShapes
<1>3. UNCHANGED <<posting, messages, mailed, unanswered>>
  BY DEF SetMode, Type, CloseComposer
<1>4. CASE \E m \in {"reply", "note"} : SetMode(m)
  <2>1. PICK m \in Kinds : SetMode(m)
    BY <1>4 DEF Kinds
  <2>2. composer' = [mode |-> m, text |-> composer.text, sending |-> composer.sending] /\ UNCHANGED typed
    BY <1>1, <2>1 DEF SetMode
  <2>3. m # "none"
    BY DEF Kinds
  <2>4. QED
    BY <1>2, <1>3, <2>2, <2>3, TheComposer, OnlyTheComposer
<1>5. CASE Type
  <2>1. composer.mode \in Kinds /\ typed' = typed + 1 /\ typed < MaxTexts
    BY <1>5, TheComposer DEF Type
  <2>2. composer' = [mode |-> composer.mode, text |-> typed', sending |-> composer.sending]
    BY <1>1, <1>5 DEF Type
  <2>3. typed' \in 0 .. MaxTexts /\ typed' >= typed /\ typed' <= typed' /\ typed' > typed
    BY <1>2, <2>1, NoPost
  <2>4. composer.mode # "none"
    BY <2>1 DEF Kinds
  <2>5. QED
    BY <1>3, <2>1, <2>2, <2>3, <2>4, OnlyTheComposer
<1>6. CASE CloseComposer
  <2>1. composer' = [mode |-> "none", text |-> 0, sending |-> composer.sending] /\ UNCHANGED typed
    BY <1>1, <1>6 DEF CloseComposer, PutAway
  <2>2. 0 \in 0 .. MaxTexts
    BY NoPost
  <2>3. QED
    BY <1>2, <1>3, <2>1, <2>2, OnlyTheComposer
<1>7. QED
  BY <1>4, <1>5, <1>6

LEMMA SendKeeps ==
  ASSUME ComposerInvariant, Send
  PROVE  ComposerInvariant'
<1>1. composer.text # 0 /\ ~composer.sending /\ UNCHANGED <<messages, mailed, typed, unanswered>>
  BY DEF Send, MaySend
<1>2. posting' = [kind |-> composer.mode, text |-> composer.text, pc |-> "sent"] /\ composer' = [composer EXCEPT !.sending = TRUE]
  BY DEF Send
<1>3. composer.text \in Texts /\ composer.mode \in Kinds /\ posting = NoMessage /\ typed \in Nat /\ composer.text <= typed
  BY <1>1, TheComposer
<1>4. posting' \in Posts /\ posting'.text = composer.text /\ posting'.pc = "sent" /\ posting' # NoMessage
  <2>1. posting' \in Posts
    BY <1>2, <1>3 DEF Posts
  <2>2. QED
    BY <1>2, <2>1, NoPost
<1>5. composer' \in Composers /\ composer'.text = composer.text /\ composer'.mode = composer.mode /\ composer'.sending = TRUE
  BY <1>2 DEF ComposerInvariant, ComposerShapes, Composers
<1>6. ComposerShapes'
  BY <1>1, <1>4, <1>5 DEF ComposerInvariant, ComposerShapes
<1>7. TextsWereTyped'
  BY <1>1, <1>3, <1>4, <1>5 DEF ComposerInvariant, TextsWereTyped
<1>8. MailsAreRecorded'
  BY <1>1, <1>4 DEF ComposerInvariant, MailsAreRecorded, OnTheTimeline
<1>9. OnceAnswered'
  <2>1. ASSUME NEW t \in Texts \ unanswered
        PROVE  AnsweredOnce(t)'
    <3>1. posting.text # t
      BY <1>3, NoPost
    <3>2. RecordedOnce(t) /\ (Recorded(t) => composer.text # t)
      BY <3>1 DEF ComposerInvariant, OnceAnswered, AnsweredOnce
    <3>3. (RecordedOnce(t)' <=> RecordedOnce(t)) /\ (Recorded(t)' <=> Recorded(t))
      BY <1>1 DEF Recorded, RecordedOnce
    <3>4. Recorded(t)' => composer'.text # t
      BY <1>5, <3>2, <3>3
    <3>5. posting'.text = t => ~Recorded(t)'
      BY <1>4, <3>2, <3>3
    <3>6. QED
      BY <3>2, <3>3, <3>4, <3>5 DEF AnsweredOnce
  <2>2. QED
    BY <1>1, <2>1 DEF OnceAnswered
<1>10. QED
  BY <1>6, <1>7, <1>8, <1>9 DEF ComposerInvariant

\* The timeline with one message more.
LEMMA OneMoreMessage ==
  ASSUME NEW seq \in Seq(Message), NEW m \in Message
  PROVE  /\ Append(seq, m) \in Seq(Message) /\ Len(Append(seq, m)) = Len(seq) + 1 /\ Len(seq) \in Nat
         /\ \A i \in 1 .. Len(seq) : i \in 1 .. Len(seq) + 1 /\ Append(seq, m)[i] = seq[i]
         /\ \A i \in 1 .. Len(seq) + 1 : i \in 1 .. Len(seq) \/ i = Len(seq) + 1
         /\ Len(seq) + 1 \in 1 .. Len(seq) + 1 /\ Append(seq, m)[Len(seq) + 1] = m
OBVIOUS

LEMMA RecordKeeps ==
  ASSUME ComposerInvariant, RouteRecords
  PROVE  ComposerInvariant'
<1> DEFINE m == [kind |-> posting.kind, text |-> posting.text]
           n == Len(messages)
<1>1. posting.pc = "sent" /\ UNCHANGED <<composer, mailed, typed, unanswered>> /\ messages' = Append(messages, m)
  BY DEF RouteRecords
<1>2. posting # NoMessage /\ posting \in Posts /\ posting.kind \in Kinds /\ posting.text \in Texts
  BY <1>1, TheComposer
<1>3. m \in Message /\ m.text = posting.text /\ messages \in Seq(Message)
  BY <1>2 DEF Message, Kinds, ComposerInvariant, ComposerShapes
<1>4. /\ messages' \in Seq(Message) /\ Len(messages') = n + 1 /\ n \in Nat
      /\ \A i \in 1 .. n : i \in 1 .. n + 1 /\ messages'[i] = messages[i]
      /\ \A i \in 1 .. n + 1 : i \in 1 .. n \/ i = n + 1
      /\ n + 1 \in 1 .. n + 1 /\ messages'[n + 1] = m
  BY <1>1, <1>3, OneMoreMessage
<1>5. /\ posting' \in Posts /\ posting'.text = posting.text /\ posting'.pc \in {"recorded", "done"}
      /\ posting'.pc = "recorded" => posting.kind = "reply"
      /\ posting' # NoMessage
  <2> DEFINE x == IF posting.kind = "note" THEN "done" ELSE "recorded"
  <2>1. posting' = [posting EXCEPT !.pc = x]
    BY DEF RouteRecords
  <2>2. x \in {"recorded", "done"} /\ (x = "recorded" => posting.kind = "reply")
    BY <1>2 DEF Kinds
  <2> HIDE DEF x
  <2>3. posting' \in Posts /\ posting'.text = posting.text /\ posting'.pc = x
    BY <1>2, <2>1, <2>2 DEF Posts
  <2>4. QED
    BY <2>2, <2>3, NoPost
<1> HIDE DEF n
<1>6. ComposerShapes'
  BY <1>1, <1>2, <1>4, <1>5 DEF ComposerInvariant, ComposerShapes
<1>7. TextsWereTyped'
  <2>1. \A i \in 1 .. Len(messages') : messages'[i].text <= typed
    BY <1>2, <1>3, <1>4 DEF ComposerInvariant, TextsWereTyped, n
  <2>2. QED
    BY <1>1, <1>2, <1>5, <2>1 DEF ComposerInvariant, TextsWereTyped
<1>8. \A t : OnTheTimeline(t) => \E i \in 1 .. Len(messages') : messages'[i] = [kind |-> "reply", text |-> t]
  BY <1>4 DEF OnTheTimeline, n
<1>9. MailsAreRecorded'
  <2>1. posting'.pc = "recorded" => \E i \in 1 .. Len(messages') : messages'[i] = [kind |-> "reply", text |-> posting.text]
    BY <1>4, <1>5
  <2>2. \A k \in 1 .. Len(mailed) : \E i \in 1 .. Len(messages') : messages'[i] = [kind |-> "reply", text |-> mailed[k]]
    BY <1>8 DEF ComposerInvariant, MailsAreRecorded
  <2>3. QED
    BY <1>1, <1>5, <2>1, <2>2 DEF MailsAreRecorded, OnTheTimeline
<1>10. OnceAnswered'
  <2>1. ASSUME NEW t \in Texts \ unanswered, t = posting.text
        PROVE  \A i, j \in 1 .. Len(messages') : messages'[i].text = t /\ messages'[j].text = t => i = j
    <3>1. ~Recorded(t)
      BY <1>1, <2>1 DEF ComposerInvariant, OnceAnswered, AnsweredOnce
    <3>2. \A i \in 1 .. n : messages'[i].text # t
      BY <1>4, <3>1 DEF Recorded, n
    <3>3. QED
      BY <1>4, <3>2
  <2>2. ASSUME NEW t \in Texts \ unanswered, t # posting.text
        PROVE  /\ \A i, j \in 1 .. Len(messages') : messages'[i].text = t /\ messages'[j].text = t => i = j
               /\ (\E i \in 1 .. Len(messages') : messages'[i].text = t) => composer.text # t
    <3>1. \A i \in 1 .. n + 1 : messages'[i].text = t => i \in 1 .. n /\ messages[i].text = t
      BY <1>3, <1>4, <2>2
    <3>2. QED
      BY <1>4, <2>2, <3>1 DEF ComposerInvariant, OnceAnswered, AnsweredOnce, Recorded, RecordedOnce, n
  <2>3. posting'.pc # "sent"
    BY <1>5
  <2>4. \A t \in Texts \ unanswered : AnsweredOnce(t)'
    BY <1>1, <1>5, <2>1, <2>2, <2>3 DEF AnsweredOnce, Recorded, RecordedOnce
  <2>5. QED
    BY <1>1, <2>4 DEF OnceAnswered
<1>11. QED
  BY <1>6, <1>7, <1>9, <1>10 DEF ComposerInvariant

LEMMA MailingKeeps ==
  ASSUME ComposerInvariant, RouteMails
  PROVE  ComposerInvariant'
<1>1. /\ posting.pc = "recorded" /\ UNCHANGED <<composer, messages, typed, unanswered>>
      /\ mailed' \in {mailed, Append(mailed, posting.text)} /\ posting' = [posting EXCEPT !.pc = "done"]
  BY DEF RouteMails
<1>2. posting # NoMessage /\ posting \in Posts /\ posting.text \in Texts
  BY <1>1, TheComposer
<1>3. posting' \in Posts /\ posting'.text = posting.text /\ posting'.pc = "done" /\ posting' # NoMessage
  <2>1. posting' \in Posts /\ posting'.text = posting.text /\ posting'.pc = "done"
    BY <1>1, <1>2 DEF Posts
  <2>2. QED
    BY <2>1, NoPost
<1>4. /\ mailed' \in Seq(Texts)
      /\ \A k \in 1 .. Len(mailed') : (k \in 1 .. Len(mailed) /\ mailed'[k] = mailed[k]) \/ mailed'[k] = posting.text
  <2>1. mailed \in Seq(Texts)
    BY DEF ComposerInvariant, ComposerShapes
  <2>2. CASE mailed' = mailed
    BY <2>1, <2>2
  <2>3. CASE mailed' = Append(mailed, posting.text)
    BY <1>2, <2>1, <2>3
  <2>4. QED
    BY <1>1, <2>2, <2>3
<1>5. ComposerShapes'
  BY <1>1, <1>2, <1>3, <1>4 DEF ComposerInvariant, ComposerShapes
<1>6. TextsWereTyped'
  BY <1>1, <1>2, <1>3 DEF ComposerInvariant, TextsWereTyped
<1>7. MailsAreRecorded'
  <2>1. \A k \in 1 .. Len(mailed') : OnTheTimeline(mailed'[k])
    BY <1>1, <1>4 DEF ComposerInvariant, MailsAreRecorded
  <2>2. QED
    BY <1>1, <1>3, <2>1 DEF MailsAreRecorded, OnTheTimeline
<1>8. OnceAnswered'
  <2>1. \A t \in Texts \ unanswered : AnsweredOnce(t) => AnsweredOnce(t)'
    BY <1>1, <1>3 DEF AnsweredOnce, Recorded, RecordedOnce
  <2>2. QED
    BY <1>1, <2>1 DEF ComposerInvariant, OnceAnswered
<1>9. QED
  BY <1>5, <1>6, <1>7, <1>8 DEF ComposerInvariant

LEMMA AnswerKeeps ==
  ASSUME ComposerInvariant, MessageAnswered
  PROVE  ComposerInvariant'
<1>1. posting' = NoMessage /\ composer' = Blank /\ UNCHANGED <<messages, mailed, typed, unanswered>>
  BY DEF MessageAnswered
<1>2. /\ composer' \in Composers /\ composer'.mode = "none" /\ composer'.text = 0 /\ composer'.sending = FALSE
      /\ posting'.text = 0 /\ posting'.pc = "none"
  BY <1>1, NoPost DEF Composers, Blank
<1>3. ComposerShapes'
  BY <1>1, <1>2 DEF ComposerInvariant, ComposerShapes
<1>4. TextsWereTyped'
  BY <1>1, <1>2, TheComposer DEF ComposerInvariant, TextsWereTyped
<1>5. MailsAreRecorded'
  BY <1>1, <1>2 DEF ComposerInvariant, MailsAreRecorded, OnTheTimeline
<1>6. OnceAnswered'
  <2>1. \A t \in Texts : composer'.text # t /\ posting'.text # t
    BY <1>2, NoPost
  <2>2. ASSUME NEW t \in Texts \ unanswered, AnsweredOnce(t)
        PROVE  AnsweredOnce(t)'
    <3>1. composer'.text # t /\ posting'.text # t
      BY <2>1
    <3>2. RecordedOnce(t)'
      BY <1>1, <2>2 DEF AnsweredOnce, RecordedOnce
    <3>3. QED
      BY <3>1, <3>2 DEF AnsweredOnce
  <2>3. QED
    BY <1>1, <2>2 DEF ComposerInvariant, OnceAnswered
<1>7. QED
  BY <1>3, <1>4, <1>5, <1>6 DEF ComposerInvariant

LEMMA FailureKeeps ==
  ASSUME ComposerInvariant, MessageFails
  PROVE  ComposerInvariant'
<1>1. /\ posting # NoMessage /\ unanswered' = unanswered \cup {posting.text}
      /\ posting' = NoMessage /\ composer' = [composer EXCEPT !.sending = FALSE]
      /\ UNCHANGED <<messages, mailed, typed>>
  BY DEF MessageFails
<1>2. posting.text \in Texts /\ posting'.text = 0 /\ posting'.pc = "none"
  BY <1>1, TheComposer, NoPost
<1>3. /\ composer' \in Composers /\ composer'.mode = composer.mode /\ composer'.text = composer.text
      /\ composer'.sending = FALSE
  BY <1>1 DEF ComposerInvariant, ComposerShapes, Composers
<1>4. ComposerShapes'
  BY <1>1, <1>2, <1>3 DEF ComposerInvariant, ComposerShapes
<1>5. TextsWereTyped'
  BY <1>1, <1>3 DEF ComposerInvariant, TextsWereTyped
<1>6. MailsAreRecorded'
  BY <1>1, <1>2 DEF ComposerInvariant, MailsAreRecorded, OnTheTimeline
<1>7. OnceAnswered'
  <2>1. \A t \in Texts \ unanswered' : t \in Texts \ unanswered /\ posting.text # t /\ posting'.text # t
    BY <1>1, <1>2, NoPost
  <2>2. ASSUME NEW t \in Texts \ unanswered', AnsweredOnce(t)
        PROVE  AnsweredOnce(t)'
    <3>1. posting.text # t /\ posting'.text # t
      BY <2>1
    <3>2. RecordedOnce(t)' /\ (Recorded(t)' <=> Recorded(t))
      BY <1>1, <2>2 DEF AnsweredOnce, RecordedOnce, Recorded
    <3>3. Recorded(t)' => composer'.text # t
      BY <1>3, <2>2, <3>1, <3>2 DEF AnsweredOnce
    <3>4. QED
      BY <3>1, <3>2, <3>3 DEF AnsweredOnce
  <2>3. QED
    BY <2>1, <2>2 DEF ComposerInvariant, OnceAnswered
<1>8. QED
  BY <1>4, <1>5, <1>6, <1>7 DEF ComposerInvariant

-----------------------------------------------------------------------------
(* The page of a case: what holds.                                         *)

CaseNext == CaseRunsNext \/ DecisionsNext \/ ComposerNext
CaseInvariant == TimelineInvariant /\ ComposerInvariant

\* The page as it is opened.
LEMMA CaseStarts == ASSUME CaseDeskInit PROVE CaseInvariant
<1>1. kase \in Cases /\ kase.runs = <<>> /\ Len(kase.runs) = 0 /\ page = kase /\ fetch = <<>>
  BY CaseDeskAssumption DEF CaseDeskInit, Cases, CaseStatuses
<1>2. SmallCase(kase) /\ <<>> \in Seq(Cases) /\ Behind(kase.runs, kase.runs, {})
  BY <1>1, CaseDeskAssumption DEF SmallCase, Behind
<1>3. RunRequestIsWhole(running, kase.runs) /\ started \in 0 .. Len(kase.runs)
  BY <1>1 DEF CaseDeskInit, RunRequestIsWhole, RunRequests, NotRunning
<1>4. deciding \subseteq CaseStatuses /\ decisions \in 0 .. MaxDecisions
  BY CaseDeskAssumption DEF CaseDeskInit
<1>5. TimelineInvariant
  <2>1. rewritten = {} /\ engineOn \cup cancelOn \cup rewritten \subseteq 1 .. Len(kase.runs)
    BY DEF CaseDeskInit
  <2>2. TimelineShapes
    BY <1>1, <1>2, <1>3, <1>4, <2>1 DEF TimelineShapes
  <2>3. PageIsBehind
    BY <1>1, <1>2, <2>1 DEF PageIsBehind
  <2>4. QED
    BY <2>2, <2>3 DEF TimelineInvariant
<1>6. /\ composer = Blank /\ posting = NoMessage /\ messages = <<>> /\ mailed = <<>> /\ typed = 0 /\ unanswered = {}
      /\ composer \in Composers /\ composer.text = 0 /\ composer.sending = FALSE
  BY NoPost DEF CaseDeskInit, Blank, Composers
<1>7. messages \in Seq(Message) /\ mailed \in Seq(Texts) /\ Len(messages) = 0 /\ Len(mailed) = 0 /\ 0 \in 0 .. MaxTexts
  BY <1>6, NoPost
<1>8. ComposerShapes
  BY <1>6, <1>7 DEF ComposerShapes
<1>9. TextsWereTyped /\ MailsAreRecorded /\ OnceAnswered
  BY <1>6, <1>7, NoPost DEF TextsWereTyped, MailsAreRecorded, OnceAnswered, AnsweredOnce, Recorded, RecordedOnce
<1>10. QED
  BY <1>5, <1>8, <1>9 DEF CaseInvariant, ComposerInvariant

LEMMA CaseSteps == ASSUME CaseInvariant, [CaseNext]_deskVars PROVE CaseInvariant'
<1>1. TimelineInvariant /\ ComposerInvariant
  BY DEF CaseInvariant
<1>2. UNCHANGED composerVars => ComposerInvariant'
  BY <1>1 DEF composerVars, ComposerInvariant, ComposerShapes, TextsWereTyped, MailsAreRecorded, OnceAnswered,
              AnsweredOnce, Recorded, RecordedOnce, OnTheTimeline
<1>3. UNCHANGED timelineVars => TimelineInvariant'
  BY <1>1 DEF timelineVars, TimelineInvariant, TimelineShapes, PageIsBehind, Behind, SmallCase, RunRequestIsWhole, runVars
<1>4. CASE CaseRunsNext
  <2>1. UNCHANGED composerVars
    BY <1>4 DEF CaseRunsNext, ClickNext, WritesNext, MailWithDocuments, DocumentAttached,
                EngineLoadsRun, CancelLoadsRun, EngineWrites, CancelWrites, ClickRun, RunRoute, RunAnswered, RunFails,
                QueryNext, FetchReads, FetchLands, FetchFails
  <2>2. TimelineInvariant'
    BY <1>1, <1>4, MailKeeps, LoadsKeep, WritesKeep, RunKeeps, QueryKeeps DEF CaseRunsNext, ClickNext, WritesNext
  <2>3. QED
    BY <1>2, <2>1, <2>2 DEF CaseInvariant
<1>5. CASE DecisionsNext
  <2>1. UNCHANGED composerVars
    BY <1>5 DEF DecisionsNext, Decide, DecisionLands, DecisionFails, TextOnlyMail,
                QueryNext, FetchReads, FetchLands, FetchFails
  <2>2. TimelineInvariant'
    BY <1>1, <1>5, DecisionKeeps, MailKeeps, QueryKeeps DEF DecisionsNext
  <2>3. QED
    BY <1>2, <2>1, <2>2 DEF CaseInvariant
<1>6. CASE ComposerNext
  <2>1. ComposerInvariant'
    BY <1>1, <1>6, WritingKeeps, SendKeeps, RecordKeeps, MailingKeeps, AnswerKeeps, FailureKeeps DEF ComposerNext
  <2>2. CASE MessageAnswered
    <3>1. UNCHANGED <<kase, engineOn, cancelOn, rewritten, page, running, started, deciding, decisions>> /\ fetch' = <<>>
      BY <2>2 DEF MessageAnswered, Invalidate, runVars
    <3>2. SmallCase(kase') /\ kase'.runs = kase.runs
      BY <1>1, <3>1 DEF TimelineInvariant, TimelineShapes, SmallCase
    <3>3. TimelineInvariant'
      BY <1>1, <3>1, <3>2, TheCase, CaseGoesOn
    <3>4. QED
      BY <2>1, <3>3 DEF CaseInvariant
  <2>3. CASE ~MessageAnswered
    <3>1. UNCHANGED timelineVars
      BY <1>6, <2>3 DEF ComposerNext, SetMode, Type, CloseComposer, Send, RouteRecords, RouteMails, MessageFails
    <3>2. QED
      BY <1>3, <2>1, <3>1 DEF CaseInvariant
  <2>4. QED
    BY <2>2, <2>3
<1>7. CASE UNCHANGED deskVars
  BY <1>2, <1>3, <1>7 DEF deskVars, timelineVars, composerVars, CaseInvariant
<1>8. QED
  BY <1>4, <1>5, <1>6, <1>7 DEF CaseNext

\* The invariant of the page holds.
LEMMA CaseInvariantHolds == CaseDeskSpec => []CaseInvariant
<1>1. CaseDeskInit => CaseInvariant
  BY CaseStarts
<1>2. CaseInvariant /\ [CaseRunsNext \/ DecisionsNext \/ ComposerNext]_deskVars => CaseInvariant'
  BY CaseSteps DEF CaseNext
<1>3. QED
  BY <1>1, <1>2, PTL DEF CaseDeskSpec

\* The type invariant of the runs, as the spelled-out shapes give it.
LEMMA CaseTypes == ASSUME CaseInvariant PROVE CaseDeskTypeOK
<1>1. TimelineInvariant /\ ComposerInvariant
  BY DEF CaseInvariant
<1>2. \A c : SmallCase(c) => IsCase(c)
  BY DEF SmallCase, Cases, IsCase
<1>3. IsCase(kase) /\ IsCase(page) /\ (fetch = <<>> \/ IsCase(fetch[1]))
  BY <1>1, <1>2 DEF TimelineInvariant, TimelineShapes
<1>4. /\ running.pc \in {"idle", "sent", "created", "refused"} /\ running.run \in 0 .. Len(kase.runs)
      /\ (running.pc = "created") = (running.run # 0)
  BY <1>1, TheCase DEF RunRequestIsWhole, RunRequests
<1>5. started \in 0 .. Len(kase.runs) /\ deciding \subseteq CaseStatuses /\ decisions \in 0 .. MaxDecisions
  BY <1>1, TheCase
<1>6. /\ composer.mode \in {"none", "reply", "note"} /\ composer.text \in 0 .. MaxTexts
      /\ composer.mode = "none" => composer.text = 0
      /\ messages \in Seq(Message) /\ mailed \in Seq(Texts) /\ typed \in 0 .. MaxTexts /\ unanswered \subseteq Texts
  BY <1>1, TheComposer DEF Kinds, ComposerInvariant, ComposerShapes
<1>7. posting.pc \in {"none", "sent", "recorded", "done"}
  BY <1>1, TheComposer, NoPost
<1>8. composer.sending = (posting # NoMessage)
  <2>1. composer.sending \in BOOLEAN /\ (posting # NoMessage) \in BOOLEAN
    BY <1>1, TheComposer
  <2>2. composer.sending <=> posting # NoMessage
    BY <1>1, TheComposer
  <2>3. QED
    BY <2>1, <2>2
<1>9. engineOn \cup cancelOn \cup rewritten \subseteq 1 .. Len(kase.runs)
  BY <1>1 DEF TimelineInvariant, TimelineShapes
<1>10. QED
  BY <1>3, <1>4, <1>5, <1>6, <1>7, <1>8, <1>9 DEF CaseDeskTypeOK

\* A set of numbers that are all the same has one element at most.
LEMMA OneAtMost ==
  ASSUME NEW S, \A i, j \in S : i = j
  PROVE  ~(Cardinality(S) > 1)
<1>1. CASE S = {}
  BY <1>1, FS_EmptySet
<1>2. CASE S # {}
  <2>1. PICK x : S = {x}
    BY <1>2
  <2>2. Cardinality({x}) = 1
    BY FS_Singleton
  <2>3. QED
    BY <2>1, <2>2
<1>3. QED
  BY <1>1, <1>2

\* A mail that left is on the timeline as a reply, notes stay inside, and a text is
\* recorded twice only when an answer was lost (send, reply_on_case, add_note).
THEOREM MailsAreOnTheTimeline == CaseDeskSpec => []CorrespondenceIsOnTheCase
<1>1. ASSUME CaseInvariant PROVE CorrespondenceIsOnTheCase
  <2>1. ComposerInvariant /\ messages \in Seq(Message) /\ mailed \in Seq(Texts)
    BY <1>1 DEF CaseInvariant, ComposerInvariant, ComposerShapes
  <2>2. \A i \in DOMAIN mailed : Contains(messages, [kind |-> "reply", text |-> mailed[i]])
    BY <2>1 DEF ComposerInvariant, MailsAreRecorded, OnTheTimeline, Contains
  <2>3. ASSUME NEW t \in Texts, t \notin unanswered
        PROVE  ~(Occurrences(t, messages) > 1)
    <3>1. \A i, j \in {k \in DOMAIN messages : messages[k].text = t} : i = j
      BY <2>1, <2>3 DEF ComposerInvariant, OnceAnswered, AnsweredOnce, RecordedOnce
    <3>2. QED
      BY <3>1, OneAtMost DEF Occurrences
  <2>4. QED
    BY <2>2, <2>3 DEF CorrespondenceIsOnTheCase
<1>2. QED
  BY <1>1, CaseInvariantHolds, PTL

\* A step of the page never takes it back to an older verdict, unless the end of the run it
\* showed was written over: what a GET read is never behind the page (useCase,
\* latestVerdictRun).
LEMMA NoStepGoesBack ==
  ASSUME CaseInvariant, [CaseNext]_deskVars
  PROVE  LatestVerdict(page'.runs) >= LatestVerdict(page.runs) \/ LatestVerdict(page.runs) \in rewritten
<1>1. SmallCase(page) /\ page.runs \in Seq(RunStates)
  BY DEF CaseInvariant, TimelineInvariant, TimelineShapes, SmallCase, Cases
<1>2. CASE FetchLands
  <2>1. fetch # <<>> /\ page' = fetch[1]
    BY <1>2 DEF FetchLands
  <2>2. fetch[1].runs \in Seq(RunStates) /\ Behind(page.runs, fetch[1].runs, rewritten)
    BY <2>1 DEF CaseInvariant, TimelineInvariant, TimelineShapes, PageIsBehind, SmallCase, Cases
  <2>3. QED
    BY <1>1, <2>1, <2>2, VerdictsGoOn
<1>3. CASE ~FetchLands
  <2>1. UNCHANGED page
    BY <1>3 DEF CaseNext, deskVars, CaseRunsNext, DecisionsNext, ComposerNext, timelineVars,
         ClickNext, WritesNext, MailWithDocuments, DocumentAttached, EngineLoadsRun, CancelLoadsRun, EngineWrites,
         CancelWrites, ClickRun, RunRoute, RunAnswered, RunFails,
         QueryNext, FetchReads, FetchFails, Decide, DecisionLands, DecisionFails, TextOnlyMail,
         SetMode, Type, CloseComposer, Send, RouteRecords, RouteMails, MessageAnswered, MessageFails
  <2>2. QED
    BY <1>1, <2>1, BehindIsAnOrder, VerdictsGoOn
<1>4. QED
  BY <1>2, <1>3

\* The banner, the report link and the review drawer (CaseDetailPage) never go back to the
\* verdict of an older run, but when the engine or a cancel (scheduler.cancel_run) wrote
\* over the end of the run they showed.
THEOREM TheBannerNeverGoesBack == CaseDeskSpec => BannerNeverGoesBack
<1>1. CaseInvariant /\ [CaseRunsNext \/ DecisionsNext \/ ComposerNext]_deskVars
         => [LatestVerdict(page'.runs) >= LatestVerdict(page.runs) \/ LatestVerdict(page.runs) \in rewritten]_deskVars
  BY NoStepGoesBack DEF CaseNext
<1>2. QED
  BY <1>1, CaseInvariantHolds, PTL DEF CaseDeskSpec, BannerNeverGoesBack

-----------------------------------------------------------------------------
(* The browser that follows both.                                          *)

\* A step of one scene is a step of its module, and one the other does not see.
LEMMA FollowSteps ==
  ASSUME [FollowNext]_<<watchVars, deskVars, scene>>
  PROVE  [RunWatchNext]_watchVars /\ [CaseNext]_deskVars
<1>1. ASSUME NEW r \in WatchedRuns, FollowsOne(r) \/ FollowsMany(r) \/ LooksInto(r)
      PROVE  RunWatchNext
  <2>1. CASE FollowsOne(r)
    BY <2>1 DEF FollowsOne, RunWatchNext
  <2>2. CASE FollowsMany(r)
    BY <2>2 DEF FollowsMany, RunWatchNext, ServerStep, PanelNext, Writers
  <2>3. CASE LooksInto(r)
    BY <2>3 DEF LooksInto, RunWatchNext
  <2>4. QED
    BY <1>1, <2>1, <2>2, <2>3
<1> DEFINE Viewed == \E r \in WatchedRuns :
                        \/ scene = "panel" /\ FollowsOne(r)
                        \/ scene = "switch" /\ FollowsMany(r)
                        \/ scene = "modal" /\ LooksInto(r)
<1>2. Viewed => RunWatchNext
  BY <1>1
<1>3. RunsEnd \/ RunsStart \/ DecisionsNext \/ ComposerNext => CaseNext
  <2>1. RunsEnd => CaseNext
    BY DEF RunsEnd, CaseNext, CaseRunsNext
  <2>2. RunsStart => CaseNext
    BY DEF RunsStart, CaseNext, CaseRunsNext, WritesNext
  <2>3. QED
    BY <2>1, <2>2 DEF CaseNext
<1> DEFINE OnTheCase ==
             \/ scene = "ends" /\ RunsEnd
             \/ scene = "runs" /\ RunsStart
             \/ scene = "decisions" /\ DecisionsNext
             \/ scene = "composer" /\ ComposerNext
<1>4. OnTheCase => CaseNext
  BY <1>3
<1>5. ASSUME FollowNext
      PROVE  \/ Viewed /\ UNCHANGED <<deskVars, scene>>
             \/ OnTheCase /\ UNCHANGED <<watchVars, scene>>
  BY <1>5 DEF FollowNext
<1> HIDE DEF Viewed, OnTheCase
<1>6. /\ UNCHANGED <<deskVars, scene>> => UNCHANGED deskVars
      /\ UNCHANGED <<watchVars, scene>> => UNCHANGED watchVars
      /\ UNCHANGED <<watchVars, deskVars, scene>> => UNCHANGED watchVars /\ UNCHANGED deskVars
  OBVIOUS
<1>7. QED
  BY <1>2, <1>4, <1>5, <1>6

\* What the browser follows has its types, in any of the scenes.
THEOREM FollowTypes == FollowSpec => []FollowTypesOK
<1>1. FollowInit => WatchInvariant /\ CaseInvariant
  BY WatchStarts, CaseStarts DEF FollowInit
<1>2. (WatchInvariant /\ CaseInvariant) /\ [FollowNext]_<<watchVars, deskVars, scene>> => (WatchInvariant /\ CaseInvariant)'
  BY FollowSteps, WatchSteps, CaseSteps
<1>3. WatchInvariant /\ CaseInvariant => FollowTypesOK
  BY WatchTypes, CaseTypes DEF FollowTypesOK
<1>4. QED
  BY <1>1, <1>2, <1>3, PTL DEF FollowSpec

=============================================================================

-------------------------- MODULE LifecycleProofs --------------------------
(***************************************************************************)
(* What Lifecycle (in MCBingo: Life) keeps for every number of servers,    *)
(* Achievements and stage changes.  The inductive invariant is the typing with the order of *)
(* the stage log, Live-once-started, and Achievements taken back: that the *)
(* end is the log's last row is what the order of the log is for.          *)
(***************************************************************************)
EXTENDS MCBingo, TLAPS

\* A change of stage, by whoever makes it, appends one row from the stage the Bingo was in, at the end given or now.
LEMMA ChangeStageAppends ==
    ASSUME Life!TypeOK, NEW to \in Life!Stages, NEW end \in Life!Times \cup {None}, NEW by \in {"admin", "system"},
           Life!ChangeStage(to, end, by)
    PROVE  /\ stageLog' \in Seq(Life!Transition)
           /\ Len(stageLog') = Len(stageLog) + 1
           /\ DOMAIN stageLog' = 1..(Len(stageLog) + 1)
           /\ \A i \in 1..Len(stageLog) : stageLog'[i] = stageLog[i]
           /\ stageLog'[Len(stageLog) + 1] = [from |-> stage, to |-> to, at |-> IF end = None THEN clock ELSE end,
                                              by |-> by]
           /\ stage' = to
<1> DEFINE row == [from |-> stage, to |-> to, at |-> IF end = None THEN clock ELSE end, by |-> by]
<1>1. stageLog' = Append(stageLog, row) /\ stage' = to
  BY DEF Life!ChangeStage
<1>2. row \in Life!Transition
  BY DEF Life!TypeOK, Life!Transition
<1>3. stageLog \in Seq(Life!Transition)
  BY DEF Life!TypeOK
<1> HIDE DEF row
<1>4. QED
  BY <1>1, <1>2, <1>3 DEF row

\* The rest of what a change of stage writes has its type.
LEMMA ChangeStageTyped ==
    ASSUME Life!TypeOK, NEW to \in Life!Stages, NEW end \in Life!Times \cup {None}, NEW by \in {"admin", "system"},
           Life!ChangeStage(to, end, by), UNCHANGED clock, foundDue' \in [Servers -> BOOLEAN]
    PROVE  Life!TypeOK'
<1>1. stageLog' \in Seq(Life!Transition) /\ stage' \in Life!Stages
  BY ChangeStageAppends
<1>2. startsAt' \in Life!Times \cup {None}
  BY DEF Life!ChangeStage, Life!TypeOK
<1>3. titlesFrozen' \in BOOLEAN
  BY DEF Life!ChangeStage, Life!TypeOK
<1>4. earned' \in [Achievements -> Life!Times \cup {None}] /\ pricedLate' \subseteq Achievements
  BY DEF Life!ChangeStage, Life!TypeOK, Life!KeptAfterEnd
<1>5. QED
  BY <1>1, <1>2, <1>3, <1>4 DEF Life!TypeOK, Life!Times, Life!ChangeStage

LEMMA NextTyped == Life!TypeOK /\ [Life!Next]_(Life!vars) => Life!TypeOK'
<1> SUFFICES ASSUME Life!TypeOK, [Life!Next]_(Life!vars) PROVE Life!TypeOK'
  OBVIOUS
<1>1. ASSUME NEW to \in Life!Stages, NEW startNow \in BOOLEAN, Life!AdminMoves(to, startNow) PROVE Life!TypeOK'
  BY <1>1, ChangeStageTyped DEF Life!AdminMoves, Life!TypeOK
<1>2. ASSUME NEW end \in Life!Times, Life!AdminFinishes(end) PROVE Life!TypeOK'
  BY <1>2, ChangeStageTyped DEF Life!AdminFinishes, Life!TypeOK, Life!Stages
<1>3. ASSUME NEW date \in Life!Times \cup {None}, Life!SetStartDate(date) PROVE Life!TypeOK'
  BY <1>3 DEF Life!SetStartDate, Life!TypeOK, Life!Times, Life!play
<1>4. ASSUME NEW s \in Servers, Life!RoundReads(s) PROVE Life!TypeOK'
  BY <1>4 DEF Life!RoundReads, Life!TypeOK, Life!Times, Life!play
<1>5. ASSUME NEW s \in Servers, Life!RoundStarts(s) PROVE Life!TypeOK'
  <2>1. foundDue' \in [Servers -> BOOLEAN] /\ UNCHANGED clock
    BY <1>5 DEF Life!RoundStarts, Life!TypeOK
  <2>2. CASE Life!RoundMayStart
    BY <1>5, <2>1, <2>2, ChangeStageTyped DEF Life!RoundStarts, Life!Stages
  <2>3. CASE ~Life!RoundMayStart
    BY <1>5, <2>1, <2>3 DEF Life!RoundStarts, Life!TypeOK, Life!Times, Life!play
  <2>4. QED
    BY <2>2, <2>3
<1>6. ASSUME NEW s \in Servers, Life!Restarts(s) PROVE Life!TypeOK'
  BY <1>6 DEF Life!Restarts, Life!TypeOK, Life!Times, Life!play
<1>7. ASSUME NEW a \in Achievements, Life!EarnByAction(a) PROVE Life!TypeOK'
  BY <1>7 DEF Life!EarnByAction, Life!Earn, Life!TypeOK, Life!Times
<1>8. ASSUME NEW a \in Achievements, NEW t \in Life!Times, Life!EarnFromRead(a, t) PROVE Life!TypeOK'
  BY <1>8 DEF Life!EarnFromRead, Life!Earn, Life!TypeOK, Life!Times
<1>9. ASSUME NEW a \in Achievements, Life!PostDrop(a) PROVE Life!TypeOK'
  BY <1>9 DEF Life!PostDrop, Life!TypeOK, Life!Times
<1>10. ASSUME NEW a \in Achievements, NEW t \in Life!Times, NEW more \in BOOLEAN, Life!FirstPriced(a, t, more)
       PROVE  Life!TypeOK'
  BY <1>10 DEF Life!FirstPriced, Life!Earn, Life!TypeOK, Life!Times
<1>11. CASE Life!Tick
  BY <1>11, StagesAssumption DEF Life!Tick, Life!TypeOK, Life!Times, Life!play
<1>12. CASE UNCHANGED Life!vars
  BY <1>12 DEF Life!vars, Life!TypeOK, Life!Times, Life!play
<1>13. QED
  BY <1>1, <1>2, <1>3, <1>4, <1>5, <1>6, <1>7, <1>8, <1>9, <1>10, <1>11, <1>12 DEF Life!Next

\* Every variable of a Bingo's life keeps its type, for every bound and set of servers.
THEOREM Typing == Life!Spec => []Life!TypeOK
<1>1. Life!Init => Life!TypeOK
  <2> SUFFICES ASSUME Life!Init PROVE Life!TypeOK
    OBVIOUS
  <2>1. stageLog \in Seq(Life!Transition)
    BY DEF Life!Init
  <2>2. clock \in Life!Times
    BY StagesAssumption DEF Life!Init, Life!Times
  <2>3. /\ earned \in [Achievements -> Life!Times \cup {None}]
        /\ earnedBy \in [Achievements -> {"action", "play", "drop"}]
        /\ {reached, unpriced} \subseteq [Achievements -> SUBSET Life!Times] /\ pricedLate \subseteq Achievements
    BY DEF Life!Init
  <2>4. stage \in Life!Stages
    BY DEF Life!Init, Life!Stages
  <2>5. titlesFrozen \in BOOLEAN /\ startsAt \in Life!Times \cup {None} /\ foundDue \in [Servers -> BOOLEAN]
    BY DEF Life!Init
  <2>6. QED
    BY <2>1, <2>2, <2>3, <2>4, <2>5 DEF Life!TypeOK
<1>2. QED
  BY <1>1, NextTyped, PTL DEF Life!Spec
-----------------------------------------------------------------------------
(* The order of the stage log. *)

\* A change of stage keeps the log one history, provided the time it is recorded at is neither ahead of the clock nor
\* before the last row: what EndAllowed asks of an end dated earlier.
LEMMA ChangeStageInOrder ==
    ASSUME Life!TypeOK, Life!StageLogInOrder, NEW to \in Life!Stages, NEW end \in Life!Times \cup {None},
           NEW by \in {"admin", "system"},
           to # stage, Life!ChangeStage(to, end, by), UNCHANGED clock,
           end # None => end <= clock /\ \A i \in DOMAIN stageLog : end >= stageLog[i].at
    PROVE  Life!StageLogInOrder'
<1> DEFINE at == IF end = None THEN clock ELSE end
           n == Len(stageLog)
<1>1. /\ stageLog' \in Seq(Life!Transition) /\ Len(stageLog') = n + 1 /\ DOMAIN stageLog' = 1..(n + 1)
      /\ \A i \in 1..n : stageLog'[i] = stageLog[i]
      /\ stageLog'[n + 1] = [from |-> stage, to |-> to, at |-> at, by |-> by]
      /\ stage' = to
  BY ChangeStageAppends
<1>2. n \in Nat /\ DOMAIN stageLog = 1..n /\ stageLog \in Seq(Life!Transition)
  BY DEF Life!TypeOK
<1>3. at \in Nat /\ at <= clock /\ \A i \in 1..n : stageLog[i].at <= at /\ stageLog[i].at \in Nat
  <2>1. \A i \in 1..n : stageLog[i].at \in Nat /\ stageLog[i].at <= clock
    <3> SUFFICES ASSUME NEW i \in 1..n PROVE stageLog[i].at \in Nat /\ stageLog[i].at <= clock
      OBVIOUS
    <3>1. stageLog[i] \in Life!Transition
      BY <1>2
    <3>2. stageLog[i].at \in Nat
      BY <3>1 DEF Life!Transition, Life!Times
    <3>3. stageLog[i].at <= clock
      BY <1>2 DEF Life!StageLogInOrder
    <3>4. QED
      BY <3>2, <3>3
  <2>2. clock \in Nat /\ (end # None => end \in Nat)
    BY DEF Life!TypeOK, Life!Times
  <2>3. QED
    BY <1>2, <2>1, <2>2
<1> HIDE DEF at, n
<1>4. \A i, j \in 1..(n + 1) : i <= j => stageLog'[i].at <= stageLog'[j].at
  <2> SUFFICES ASSUME NEW i \in 1..(n + 1), NEW j \in 1..(n + 1), i <= j PROVE stageLog'[i].at <= stageLog'[j].at
    OBVIOUS
  <2>1. stageLog'[n + 1].at = at
    BY <1>1
  <2>2. CASE j \in 1..n
    <3>1. i \in 1..n
      BY <1>2, <2>2
    <3>2. stageLog[i].at <= stageLog[j].at
      BY <1>2, <2>2, <3>1 DEF Life!StageLogInOrder
    <3>3. QED
      BY <1>1, <2>2, <3>1, <3>2
  <2>3. CASE j = n + 1 /\ i \in 1..n
    BY <1>1, <1>3, <2>1, <2>3
  <2>4. CASE j = n + 1 /\ i = n + 1
    BY <1>3, <2>1, <2>4
  <2>5. QED
    BY <1>2, <2>2, <2>3, <2>4
<1>5. \A i \in 1..(n + 1) : stageLog'[i].at <= clock'
  <2> SUFFICES ASSUME NEW i \in 1..(n + 1) PROVE stageLog'[i].at <= clock
    OBVIOUS
  <2>1. CASE i \in 1..n
    BY <1>1, <1>2, <2>1 DEF Life!StageLogInOrder
  <2>2. CASE i = n + 1
    BY <1>1, <1>3, <2>2
  <2>3. QED
    BY <1>2, <2>1, <2>2
<1>6. \A i \in 1..(n + 1) : i + 1 \in 1..(n + 1) => stageLog'[i].to = stageLog'[i + 1].from
  <2> SUFFICES ASSUME NEW i \in 1..n PROVE stageLog'[i].to = stageLog'[i + 1].from
    BY <1>2
  <2>1. CASE i < n
    BY <1>1, <1>2, <2>1 DEF Life!StageLogInOrder
  <2>2. CASE i = n
    <3>1. stageLog # <<>>
      BY <1>2, <2>2
    <3>2. stageLog[n].to = stage
      BY <3>1 DEF Life!StageLogInOrder, n
    <3>3. QED
      BY <1>1, <1>2, <2>2, <3>2
  <2>3. QED
    BY <1>2, <2>1, <2>2
<1>7. stage' = IF stageLog' = <<>> THEN "planning" ELSE stageLog'[Len(stageLog')].to
  <2>1. stageLog' # <<>>
    BY <1>1, <1>2
  <2>2. QED
    BY <1>1, <2>1
<1>8. titlesFrozen' <=> stage' = "complete"
  <2>1. CASE to = "complete"
    BY <1>1, <2>1 DEF Life!ChangeStage
  <2>2. CASE to # "complete" /\ stage = "complete"
    BY <1>1, <2>2 DEF Life!ChangeStage
  <2>3. CASE to # "complete" /\ stage # "complete"
    <3>1. titlesFrozen' = titlesFrozen
      BY <2>3 DEF Life!ChangeStage
    <3>2. ~titlesFrozen
      BY <2>3 DEF Life!StageLogInOrder
    <3>3. QED
      BY <1>1, <2>3, <3>1, <3>2
  <2>4. QED
    BY <2>1, <2>2, <2>3
<1>9. QED
  BY <1>1, <1>4, <1>5, <1>6, <1>7, <1>8 DEF Life!StageLogInOrder

LEMMA NextInOrder == Life!TypeOK /\ Life!StageLogInOrder /\ [Life!Next]_(Life!vars) => Life!StageLogInOrder'
<1> SUFFICES ASSUME Life!TypeOK, Life!StageLogInOrder, [Life!Next]_(Life!vars) PROVE Life!StageLogInOrder'
  OBVIOUS
<1>1. ASSUME NEW to \in Life!Stages, NEW startNow \in BOOLEAN, Life!AdminMoves(to, startNow) PROVE Life!StageLogInOrder'
  BY <1>1, ChangeStageInOrder DEF Life!AdminMoves
<1>2. ASSUME NEW end \in Life!Times, Life!AdminFinishes(end) PROVE Life!StageLogInOrder'
  BY <1>2, ChangeStageInOrder DEF Life!AdminFinishes, Life!EndAllowed, Life!Stages
<1>3. ASSUME NEW s \in Servers, Life!RoundStarts(s) PROVE Life!StageLogInOrder'
  <2>1. CASE Life!RoundMayStart
    BY <1>3, <2>1, ChangeStageInOrder DEF Life!RoundStarts, Life!RoundMayStart, Life!Stages
  <2>2. CASE ~Life!RoundMayStart
    BY <1>3, <2>2 DEF Life!RoundStarts, Life!StageLogInOrder
  <2>3. QED
    BY <2>1, <2>2
<1>4. CASE Life!Tick
  <2>1. clock \in Nat /\ clock' = clock + 1 /\ UNCHANGED <<stageLog, stage, titlesFrozen>>
    BY <1>4 DEF Life!Tick, Life!TypeOK, Life!Times
  <2>2. \A i \in DOMAIN stageLog : stageLog[i].at \in Nat
    <3> SUFFICES ASSUME NEW i \in DOMAIN stageLog PROVE stageLog[i].at \in Nat
      OBVIOUS
    <3>1. stageLog[i] \in Life!Transition
      BY DEF Life!TypeOK
    <3>2. QED
      BY <3>1 DEF Life!Transition, Life!Times
  <2>3. QED
    BY <2>1, <2>2 DEF Life!StageLogInOrder
<1>5. CASE UNCHANGED <<clock, stageLog, stage, titlesFrozen>>
  BY <1>5 DEF Life!StageLogInOrder
<1>6. QED
  BY <1>1, <1>2, <1>3, <1>4, <1>5 DEF Life!Next, Life!vars, Life!SetStartDate, Life!RoundReads, Life!Restarts,
     Life!EarnByAction, Life!EarnFromRead, Life!PostDrop, Life!FirstPriced

\* The stage log is one history in time order that ends at the stage the Bingo is in, an end dated earlier included.
THEOREM LogOrder == Life!Spec => []StageLogInOrder
<1>1. Life!Init => Life!StageLogInOrder
  BY DEF Life!Init, Life!StageLogInOrder
<1>2. QED
  BY <1>1, NextInOrder, Typing, PTL DEF Life!Spec, StageLogInOrder

-----------------------------------------------------------------------------
(* Starting. *)

\* A Bingo that went Live from a stage before Live is not ahead of its start date.
THEOREM LiveStarted == Life!Spec => []LiveOnceStarted
<1>1. Life!Init => Life!LiveOnceStarted
  BY DEF Life!Init, Life!LiveOnceStarted
<1>2. Life!TypeOK /\ Life!LiveOnceStarted /\ [Life!Next]_(Life!vars) => Life!LiveOnceStarted'
  <2> SUFFICES ASSUME Life!TypeOK, Life!LiveOnceStarted, [Life!Next]_(Life!vars) PROVE Life!LiveOnceStarted'
    OBVIOUS
  <2>1. ASSUME NEW to \in Life!Stages, NEW end \in Life!Times \cup {None}, NEW by \in {"admin", "system"},
               Life!ChangeStage(to, end, by), UNCHANGED clock
        PROVE  Life!LiveOnceStarted'
    <3>1. stageLog'[Len(stageLog')].from = stage /\ stage' = to
      <4>1. Len(stageLog) \in Nat
        BY DEF Life!TypeOK
      <4>2. /\ Len(stageLog') = Len(stageLog) + 1 /\ stage' = to
            /\ stageLog'[Len(stageLog) + 1] = [from |-> stage, to |-> to, at |-> IF end = None THEN clock ELSE end,
                                               by |-> by]
        BY <2>1, ChangeStageAppends
      <4>3. QED
        BY <4>1, <4>2
    <3>2. to = "live" /\ stage \in Life!BeforeLive => ~Life!StartIsAhead'
      BY <2>1 DEF Life!ChangeStage, Life!StartsEarly, Life!StartIsAhead, Life!TypeOK, Life!Times
    <3>3. QED
      BY <3>1, <3>2 DEF Life!LiveOnceStarted
  <2>2. ASSUME NEW date \in Life!Times \cup {None}, Life!SetStartDate(date) PROVE Life!LiveOnceStarted'
    BY <2>2, StagesAssumption DEF Life!SetStartDate, Life!StartDateAllowed, Life!LiveOnceStarted,
       Life!StartIsAhead, Life!TypeOK, Life!Times
  <2>3. CASE Life!Tick
    BY <2>3 DEF Life!Tick, Life!LiveOnceStarted, Life!StartIsAhead, Life!TypeOK, Life!Times
  <2>4. CASE UNCHANGED <<clock, stage, startsAt, stageLog>>
    BY <2>4 DEF Life!LiveOnceStarted, Life!StartIsAhead
  <2>5. ASSUME NEW to \in Life!Stages, NEW startNow \in BOOLEAN, Life!AdminMoves(to, startNow)
        PROVE  Life!LiveOnceStarted'
    BY <2>5, <2>1 DEF Life!AdminMoves
  <2>6. ASSUME NEW end \in Life!Times, Life!AdminFinishes(end) PROVE Life!LiveOnceStarted'
    BY <2>6, <2>1 DEF Life!AdminFinishes, Life!Stages
  <2>7. ASSUME NEW s \in Servers, Life!RoundStarts(s) PROVE Life!LiveOnceStarted'
    BY <2>7, <2>1, <2>4 DEF Life!RoundStarts, Life!Stages
  <2>8. QED
    BY <2>2, <2>3, <2>4, <2>5, <2>6, <2>7 DEF Life!Next, Life!vars, Life!RoundReads, Life!Restarts,
       Life!EarnByAction, Life!EarnFromRead, Life!PostDrop, Life!FirstPriced
<1>3. QED
  BY <1>1, <1>2, Typing, PTL DEF Life!Spec, LiveOnceStarted
-----------------------------------------------------------------------------
(* The end. *)

\* An Achievement was reached by the time that it was recorded, and a drop posted by now.
ReachedByRecording ==
    /\ \A a \in Achievements : earned[a] # None => Life!ReachedBy(a, earned[a])
    /\ \A a \in Achievements : \A t \in unpriced[a] : t <= clock

\* The end of a finished Bingo is the time of the last row: the log is in order, and the last row is the finish.
LEMMA EndIsLastRow == Life!TypeOK /\ Life!StageLogInOrder /\ stage = "complete"
    => Life!EndedAt = stageLog[Len(stageLog)].at
<1> SUFFICES ASSUME Life!TypeOK, Life!StageLogInOrder, stage = "complete"
             PROVE  Life!EndedAt = stageLog[Len(stageLog)].at
  OBVIOUS
<1> DEFINE n == Len(stageLog)
<1>1. n \in Nat /\ DOMAIN stageLog = 1..n /\ stageLog \in Seq(Life!Transition)
  BY DEF Life!TypeOK
<1>2. stageLog # <<>> /\ stageLog[n].to = "complete"
  BY DEF Life!StageLogInOrder
<1>3. n \in 1..n
  BY <1>1, <1>2
<1>4. stageLog[n].at \in Life!MovedAt("complete")
  BY <1>1, <1>2, <1>3 DEF Life!MovedAt
<1>5. ASSUME NEW u \in Life!MovedAt("complete") PROVE u <= stageLog[n].at /\ u \in Nat
  <2>1. PICK i \in 1..n : u = stageLog[i].at
    BY <1>1, <1>5 DEF Life!MovedAt
  <2>2. stageLog[i] \in Life!Transition
    BY <1>1, <2>1
  <2>3. u \in Nat
    BY <2>1, <2>2 DEF Life!Transition, Life!Times
  <2>4. u <= stageLog[n].at
    BY <1>1, <1>3, <2>1 DEF Life!StageLogInOrder
  <2>5. QED
    BY <2>3, <2>4
<1>6. Life!EndedAt \in Life!MovedAt("complete") /\ \A u \in Life!MovedAt("complete") : u <= Life!EndedAt
  BY <1>4, <1>5 DEF Life!EndedAt
<1>7. Life!EndedAt <= stageLog[n].at /\ stageLog[n].at <= Life!EndedAt /\ Life!EndedAt \in Nat /\ stageLog[n].at \in Nat
  BY <1>4, <1>5, <1>6
<1>8. QED
  BY <1>1, <1>2, <1>3, <1>7

\* A finish keeps what was reached by the end that it is given, and dates the end so.
LEMMA ChangeStageTakesBack ==
    ASSUME Life!TypeOK, Life!TypeOK', Life!StageLogInOrder', ReachedByRecording, UNCHANGED clock,
           NEW to \in Life!Stages, NEW end \in Life!Times \cup {None}, NEW by \in {"admin", "system"},
              Life!ChangeStage(to, end, by)
    PROVE  ReachedByRecording' /\ Life!NothingEarnedAfterEnd'
<1> DEFINE at == IF end = None THEN clock ELSE end
<1>1. at \in Nat /\ UNCHANGED <<reached, unpriced>>
  BY DEF Life!TypeOK, Life!Times, Life!ChangeStage
<1>2. ASSUME NEW a \in Achievements, earned'[a] # None
      PROVE  (\E t \in reached'[a] : t <= earned'[a]) /\ (to = "complete" => Life!ReachedBy(a, at))
  <2>1. earned'[a] = earned[a] /\ (to = "complete" => ~(earned[a] > at /\ ~Life!ReachedBy(a, at)))
    BY <1>2 DEF Life!ChangeStage, Life!KeptAfterEnd
  <2>2. earned[a] \in Nat /\ reached[a] \subseteq Nat
    BY <1>2, <2>1 DEF Life!TypeOK, Life!Times
  <2>3. PICK t \in reached[a] : t <= earned[a]
    BY <1>2, <2>1 DEF ReachedByRecording, Life!ReachedBy
  <2>4. earned[a] <= at => Life!ReachedBy(a, at)
    BY <1>1, <2>2, <2>3 DEF Life!ReachedBy
  <2>5. QED
    BY <1>1, <2>1, <2>2, <2>3, <2>4 DEF Life!ReachedBy
<1>3. ReachedByRecording'
  BY <1>1, <1>2 DEF ReachedByRecording, Life!ReachedBy
<1>4. ASSUME stage' = "complete" PROVE Life!EndedAt' = at /\ to = "complete"
  <2>1. /\ Len(stageLog') = Len(stageLog) + 1 /\ stage' = to
        /\ stageLog'[Len(stageLog) + 1] = [from |-> stage, to |-> to, at |-> at, by |-> by]
    BY ChangeStageAppends
  <2>2. (Life!TypeOK /\ Life!StageLogInOrder /\ stage = "complete" => Life!EndedAt = stageLog[Len(stageLog)].at)'
    BY EndIsLastRow, PTL
  <2>3. QED
    BY <1>4, <2>1, <2>2
<1>5. ASSUME stage' = "complete", NEW a \in Achievements, earned'[a] # None PROVE Life!ReachedBy(a, Life!EndedAt)'
  <2>1. Life!ReachedBy(a, at)
    BY <1>2, <1>4, <1>5
  <2>2. QED
    BY <1>1, <1>4, <1>5, <2>1 DEF Life!ReachedBy
<1>6. QED
  BY <1>3, <1>5 DEF Life!NothingEarnedAfterEnd

\* Recording one that was reached at t keeps what is kept, if t is by the end of a Finished Bingo or observed.
LEMMA RecordingKeeps ==
    ASSUME Life!TypeOK, ReachedByRecording, Life!NothingEarnedAfterEnd, UNCHANGED <<clock, stage, stageLog>>,
           NEW a \in Achievements, NEW t \in Life!Times, t <= clock, Life!Earn(a),
           pricedLate \subseteq pricedLate', reached'[a] \in {{t}, reached[a] \cup {t}},
           reached' = [reached EXCEPT ![a] = reached'[a]], earned[a] # None => reached[a] \subseteq reached'[a],
           \A b \in Achievements : unpriced'[b] \subseteq unpriced[b],
           stage = "complete" => t <= Life!EndedAt \/ earned[a] # None \/ a \in pricedLate'
    PROVE  ReachedByRecording' /\ Life!NothingEarnedAfterEnd'
<1>1. \A b \in Achievements : earned'[b] = IF b = a /\ earned[a] = None THEN clock ELSE earned[b]
  BY DEF Life!TypeOK, Life!Earn
<1>2. t \in reached'[a] /\ \A b \in Achievements \ {a} : reached'[b] = reached[b]
  BY DEF Life!TypeOK
<1>3. \A b \in Achievements : earned[b] # None => reached[b] \subseteq reached'[b]
  BY <1>2
<1>4. ReachedByRecording'
  BY <1>1, <1>2, <1>3 DEF ReachedByRecording, Life!ReachedBy
<1>5. Life!EndedAt' = Life!EndedAt
  BY DEF Life!EndedAt, Life!MovedAt
<1>6. ASSUME stage' = "complete", NEW b \in Achievements, b \notin pricedLate', earned'[b] # None
      PROVE  Life!ReachedBy(b, Life!EndedAt)'
  <2>1. CASE earned[b] # None
    <3>1. Life!ReachedBy(b, Life!EndedAt)
      BY <1>6, <2>1 DEF Life!NothingEarnedAfterEnd
    <3>2. QED
      BY <1>3, <1>5, <2>1, <3>1 DEF Life!ReachedBy
  <2>2. CASE earned[b] = None
    BY <1>1, <1>2, <1>5, <1>6, <2>2 DEF Life!ReachedBy
  <2>3. QED
    BY <2>1, <2>2
<1>7. QED
  BY <1>4, <1>6 DEF Life!NothingEarnedAfterEnd

LEMMA NextTakesBack ==
    Life!TypeOK /\ Life!StageLogInOrder /\ ReachedByRecording /\ Life!NothingEarnedAfterEnd /\ [Life!Next]_(Life!vars)
        => ReachedByRecording' /\ Life!NothingEarnedAfterEnd'
<1> SUFFICES ASSUME Life!TypeOK, Life!StageLogInOrder, ReachedByRecording, Life!NothingEarnedAfterEnd,
                    [Life!Next]_(Life!vars)
             PROVE  ReachedByRecording' /\ Life!NothingEarnedAfterEnd'
  OBVIOUS
<1>1. Life!TypeOK' /\ Life!StageLogInOrder'
  BY NextTyped, NextInOrder
<1>2. ASSUME NEW to \in Life!Stages, NEW startNow \in BOOLEAN, Life!AdminMoves(to, startNow)
      PROVE  ReachedByRecording' /\ Life!NothingEarnedAfterEnd'
  BY <1>1, <1>2, ChangeStageTakesBack DEF Life!AdminMoves
<1>3. ASSUME NEW end \in Life!Times, Life!AdminFinishes(end) PROVE ReachedByRecording' /\ Life!NothingEarnedAfterEnd'
  BY <1>1, <1>3, ChangeStageTakesBack DEF Life!AdminFinishes, Life!Stages
<1>4. CASE UNCHANGED <<stage, stageLog, earned, reached, pricedLate>> /\ clock <= clock' /\ clock' \in Nat
           /\ \A a \in Achievements : unpriced'[a] \subseteq unpriced[a] \cup {clock}
  <2>1. ReachedByRecording'
    <3>1. clock \in Nat /\ \A a \in Achievements : unpriced[a] \subseteq Nat
      BY DEF Life!TypeOK, Life!Times
    <3>2. QED
      BY <1>4, <3>1 DEF ReachedByRecording, Life!ReachedBy
  <2>2. Life!NothingEarnedAfterEnd'
    <3>1. Life!EndedAt' = Life!EndedAt
      BY <1>4 DEF Life!EndedAt, Life!MovedAt
    <3>2. QED
      BY <1>4, <3>1 DEF Life!NothingEarnedAfterEnd, Life!ReachedBy
  <2>3. QED
    BY <2>1, <2>2
<1>5. clock \in Nat
  BY DEF Life!TypeOK, Life!Times
<1>6. ASSUME NEW s \in Servers, Life!RoundStarts(s) PROVE ReachedByRecording' /\ Life!NothingEarnedAfterEnd'
  BY <1>1, <1>4, <1>5, <1>6, ChangeStageTakesBack DEF Life!RoundStarts, Life!Stages, Life!play
<1>7. ASSUME NEW a \in Achievements, Life!EarnByAction(a) PROVE ReachedByRecording' /\ Life!NothingEarnedAfterEnd'
  <2>1. clock \in Life!Times /\ clock <= clock /\ reached'[a] = {clock}
    BY <1>7 DEF Life!TypeOK, Life!Times, Life!EarnByAction
  <2>2. QED
    BY <1>7, <2>1, RecordingKeeps DEF Life!EarnByAction
<1>8. ASSUME NEW a \in Achievements, NEW t \in Life!Times, Life!EarnFromRead(a, t)
      PROVE  ReachedByRecording' /\ Life!NothingEarnedAfterEnd'
  <2>1. reached'[a] = {t}
    BY <1>8 DEF Life!TypeOK, Life!EarnFromRead
  <2>2. QED
    BY <1>8, <2>1, RecordingKeeps DEF Life!EarnFromRead
<1>9. ASSUME NEW a \in Achievements, NEW t \in Life!Times, NEW more \in BOOLEAN, Life!FirstPriced(a, t, more)
      PROVE  ReachedByRecording' /\ Life!NothingEarnedAfterEnd'
  <2>1. t <= clock /\ reached'[a] = reached[a] \cup {t} /\ \A b \in Achievements : unpriced'[b] \subseteq unpriced[b]
    BY <1>9 DEF Life!TypeOK, Life!FirstPriced, ReachedByRecording
  <2>2. QED
    BY <1>9, <2>1, RecordingKeeps DEF Life!FirstPriced
<1>10. ASSUME NEW a \in Achievements, Life!PostDrop(a) PROVE ReachedByRecording' /\ Life!NothingEarnedAfterEnd'
  BY <1>4, <1>5, <1>10 DEF Life!PostDrop, Life!TypeOK
<1>11. CASE Life!Tick
  BY <1>4, <1>5, <1>11 DEF Life!Tick, Life!play
<1>12. QED
  BY <1>2, <1>3, <1>4, <1>5, <1>6, <1>7, <1>8, <1>9, <1>10, <1>11
     DEF Life!Next, Life!vars, Life!SetStartDate, Life!RoundReads, Life!Restarts, Life!play

\* While a Bingo is Finished nobody holds an Achievement they had not reached by its end, an end dated earlier, reads of
\* play and values of drops that come in late included; except a Big spender for a drop first valued after the finish.
THEOREM NothingAfterEnd == Life!Spec => []NothingEarnedAfterEnd
<1>1. Life!Init => ReachedByRecording /\ Life!NothingEarnedAfterEnd
  BY DEF Life!Init, ReachedByRecording, Life!NothingEarnedAfterEnd
<1>2. QED
  BY <1>1, NextTakesBack, Typing, LogOrder, PTL DEF Life!Spec, StageLogInOrder, NothingEarnedAfterEnd
=============================================================================

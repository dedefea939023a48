------------------------------ MODULE WomReads ------------------------------
(***************************************************************************)
(* Reading each Player's Wise Old Man snapshots during a Bingo, and        *)
(* storing them (womReadService): the queue that reads Players one at a    *)
(* time and holds off after a 429, the rounds that fill it, the update at  *)
(* start + 6h, a Site admin's re-read, and a server that restarts and      *)
(* loses the queue, which is in memory only.                               *)
(*                                                                         *)
(* One server and one Bingo, which has a competition and no start date: it *)
(* starts when it goes Live. The wait before each request (pace) is the    *)
(* time between Begin and what answers it. The pages of one read are one   *)
(* answer: any that fails fails the read, and an end date in the request   *)
(* keeps what WOM takes meanwhile out of it. Rows that an older version    *)
(* stored without each boss's EHB, and their reads from the start, are     *)
(* left out.                                                               *)
(***************************************************************************)
EXTENDS Integers, SequencesExt

CONSTANTS
    Players,        \* the members of the Bingo's Teams
    Accounts,       \* RSNs
    None,
    Lookback,       \* BASELINE_LOOKBACK_MS, WOM_BULK_UPDATE_DELAY_MS and FINAL_READ_GRACE_MS, in ticks of the clock
    UpdateDelay,
    Grace,
    MaxTime,        \* bound: the last tick
    MaxUpsets       \* bound: stage changes, other RSNs, re-reads and restarts, all together

Times == 0..MaxTime
ReadRows == [rsn : Accounts, through : Times \cup {None}]

\* What is assumed of them.
Assumption ==
    /\ {Lookback, UpdateDelay, Grace, MaxTime, MaxUpsets} \subseteq Nat
    /\ None \notin Nat /\ None \notin ReadRows

VARIABLES
    clock,
    stage,          \* bingos.stage
    moved,          \* when it last changed
    wentLive,       \* lastWentLiveAt
    ended,          \* when it last moved to Finished
    rsn,            \* signups.rsn
    wom,            \* the snapshots that Wise Old Man has, by account
    reads,          \* womReads: the account read, and readThrough
    stored,         \* womSnapshots: the account each was taken of (no column, known here only), and takenAt
    claimed,        \* bingos.womBulkUpdateSentAt is set
    pending,        \* WomReadQueue.pending, in its order
    running,        \* WomReadQueue.running, and what it asks Wise Old Man
    limited,        \* rateLimitedUntil is ahead
    upsets

vars == <<clock, stage, moved, wentLive, ended, rsn, wom, reads, stored, claimed, pending, running, limited, upsets>>

bingo == <<stage, moved, wentLive, ended, rsn>>
rows == <<reads, stored, claimed>>
queue == <<pending, running>>

Stages == {"reveal", "live", "complete"}
Jobs == [player : Players, kind : {"read", "update", "reread"}]

TypeOK ==
    /\ clock \in Times /\ moved \in Times /\ claimed \in BOOLEAN /\ limited \in BOOLEAN /\ upsets \in 0..MaxUpsets
    /\ stage \in Stages
    /\ wentLive \in Times \cup {None} /\ ended \in Times \cup {None}
    /\ rsn \in [Players -> Accounts]
    /\ wom \in [Accounts -> SUBSET Times]
    /\ reads \in [Players -> ReadRows \cup {None}]
    /\ stored \in [Players -> SUBSET [rsn : Accounts, at : Times]]
    /\ pending \in Seq(Jobs)
    /\ running # None => running.job \in Jobs

Init ==
    /\ clock = 0 /\ stage = "reveal" /\ moved = 0 /\ wentLive = None /\ ended = None
    /\ rsn \in [Players -> Accounts]
    /\ \A p, q \in Players : p # q => rsn[p] # rsn[q]
    /\ wom = [a \in Accounts |-> {}]
    /\ reads = [p \in Players |-> None]
    /\ stored = [p \in Players |-> {}]
    /\ claimed = FALSE
    /\ pending = <<>> /\ running = None /\ limited = FALSE
    /\ upsets = 0

Upset == upsets < MaxUpsets /\ upsets' = upsets + 1

-----------------------------------------------------------------------------
(* Filling the queue. *)

\* add, one after the other: not what waits already, nor what is being read.
Added(jobs, onto) ==
    onto \o SelectSeq(jobs, LAMBDA j : j \notin ToSet(onto) /\ ~(running # None /\ running.job = j))

JobsOf(players, kind) == SetToSeq([player : players, kind : {kind}])

\* Read through the Bingo's end.
ReadThrough(p) == reads[p] # None /\ reads[p].through # None /\ reads[p].through >= ended

\* Mutation: the hourly round of a Live Bingo only, the final read being queued by the finish.
DueWhileLive == IF stage = "live" THEN Players ELSE {}

\* queueDueReads: everyone while the Bingo is Live, and after it, for a time, who lacks the final read.
Due ==
    CASE stage = "live" -> Players
      [] stage = "complete" /\ clock - ended <= Grace -> {p \in Players : ~ReadThrough(p)}
      [] OTHER -> {}

Round ==
    /\ pending' = Added(JobsOf(Due, "read"), pending)
    /\ UNCHANGED <<clock, bingo, wom, rows, running, limited, upsets>>

\* claimDueWomUpdates
UpdateIsDue == stage = "live" /\ ~claimed /\ clock >= wentLive + UpdateDelay

UpdateRound ==
    /\ UpdateIsDue
    /\ claimed' = TRUE
    /\ pending' = Added(JobsOf(Players, "update"), pending)
    /\ UNCHANGED <<clock, bingo, wom, reads, stored, running, limited, upsets>>

\* advanceStage, and of what follows it queueBingoReads. An Admin may date a finish earlier, not before the last change.
MoveStage(to, at) ==
    /\ Upset
    /\ to # stage
    /\ at = clock \/ (to = "complete" /\ moved <= at /\ at < clock)
    /\ stage' = to
    /\ moved' = at
    /\ wentLive' = IF to = "live" THEN at ELSE wentLive
    /\ ended' = IF to = "complete" THEN at ELSE ended
    /\ pending' = IF to = "reveal" THEN pending ELSE Added(JobsOf(Players, "read"), pending)
    /\ UNCHANGED <<clock, rsn, wom, rows, running, limited>>

\* rereadBingo
Reread ==
    /\ Upset
    /\ stage = "complete"
    /\ pending' = Added(JobsOf({p \in Players : reads[p] # None}, "reread"), pending)
    /\ UNCHANGED <<clock, bingo, wom, rows, running, limited>>

\* The server stops and starts again (startWomReads): what was queued and what was being asked is gone.
Restart ==
    /\ Upset
    /\ claimed' = (claimed \/ UpdateIsDue)
    /\ pending' = (IF UpdateIsDue THEN JobsOf(Players, "update") ELSE <<>>) \o JobsOf(Due, "read")
    /\ running' = None
    /\ limited' = FALSE
    /\ UNCHANGED <<clock, bingo, wom, reads, stored>>

-----------------------------------------------------------------------------
(* drain: one job at a time. *)

Take ==
    /\ running = None
    /\ pending # <<>>
    /\ running' = [job |-> Head(pending), asks |-> None]
    /\ pending' = Tail(pending)
    /\ UNCHANGED <<clock, bingo, wom, rows, limited, upsets>>

Player == running.job.player

\* Mutation: what is stored of another account stays.
HadOfAnyAccount(p) == <<reads[p], stored[p]>>

\* What readPlayer goes on from: a different account now drops what belongs to the old one.
Had(p) == IF reads[p] # None /\ reads[p].rsn # rsn[p] THEN <<None, {}>> ELSE <<reads[p], stored[p]>>

Latest(snapshots) == CHOOSE t \in {s.at : s \in snapshots} : \A s \in snapshots : s.at <= t

\* From the last stored snapshot itself, so that nothing between reads is missed; a re-read from before the start.
From(row, snapshots) ==
    IF running.job.kind # "reread" /\ snapshots # {} THEN Latest(snapshots)
    ELSE IF running.job.kind # "reread" /\ row # None /\ row.through # None THEN row.through
    ELSE wentLive - Lookback

To == IF stage = "complete" THEN ended ELSE clock

\* A job's request is made.
Asks(what) == [job |-> running.job, asks |-> what]

\* readPlayer up to its request. Both of a job that is skipped and one that asks, the other account's rows are dropped.
BeginRead ==
    LET row == Had(Player)[1]
        snapshots == Had(Player)[2]
        from == From(row, snapshots)
        again == running.job.kind = "reread"
        done == stage = "complete" /\ row # None /\ row.through # None /\ row.through >= ended
        skips == (IF again THEN stage # "complete" ELSE done) \/ from >= To
    IN  /\ reads' = [reads EXCEPT ![Player] = row]
        /\ stored' = [stored EXCEPT ![Player] = snapshots]
        /\ running' = IF skips THEN None
                      ELSE Asks([rsn |-> rsn[Player], from |-> from, to |-> To])

\* A job begins when no 429 holds the queue off.
Begin ==
    /\ running # None /\ running.asks = None
    /\ ~limited
    /\ IF running.job.kind = "update"
       THEN /\ running' = IF stage = "live" THEN Asks([rsn |-> rsn[Player]]) ELSE None
            /\ UNCHANGED <<reads, stored>>
       ELSE IF stage \in {"live", "complete"} /\ wentLive # None
       THEN BeginRead
       ELSE running' = None /\ UNCHANGED <<reads, stored>>
    /\ UNCHANGED <<clock, bingo, wom, claimed, pending, limited, upsets>>

Asking == running # None /\ running.asks # None

\* Wise Old Man has these of what is asked.
Answered == {[rsn |-> running.asks.rsn, at |-> t] : t \in {u \in wom[running.asks.rsn] : running.asks.from <= u /\ u <= running.asks.to}}

Answer(p) ==
    /\ Asking /\ Player = p /\ ~limited
    /\ IF running.job.kind = "update"
       THEN /\ wom' = [wom EXCEPT ![running.asks.rsn] = @ \cup {clock}]
            /\ UNCHANGED <<reads, stored>>
       ELSE /\ stored' = [stored EXCEPT ![p] = @ \cup Answered]
            /\ reads' = [reads EXCEPT ![p] = [rsn |-> running.asks.rsn, through |-> running.asks.to]]
            /\ UNCHANGED wom
    /\ running' = None
    /\ UNCHANGED <<clock, bingo, claimed, pending, limited, upsets>>

\* The row after a read that failed: the error alone, which is not modelled, or a new row with it.
ReadInVain(p) == IF reads[p] # None THEN reads[p] ELSE [rsn |-> running.asks.rsn, through |-> None]

\* Unreachable, or nothing is known of the RSN. An update that fails is not tried again.
Fail ==
    /\ Asking /\ ~limited
    /\ reads' = IF running.job.kind = "update" THEN reads ELSE [reads EXCEPT ![Player] = ReadInVain(Player)]
    /\ running' = None
    /\ UNCHANGED <<clock, bingo, wom, stored, claimed, pending, limited, upsets>>

\* Back to the front, to retry once the hold-off passes.
AfterLimit == <<running.job>> \o pending

\* A 429, or a request that is not made because of one: others share the client, and its limit.
Limit ==
    /\ Asking
    /\ limited' = TRUE
    /\ pending' = AfterLimit
    /\ running' = None
    /\ UNCHANGED <<clock, bingo, wom, rows, upsets>>

-----------------------------------------------------------------------------
(* Around it. *)

LimitEnds ==
    /\ limited' = FALSE
    /\ UNCHANGED <<clock, bingo, wom, rows, queue, upsets>>

\* An Admin sets the account a Player plays on: a Borrowed one, or back. Nobody else may be on it.
ChangeRsn(p, a) ==
    /\ Upset
    /\ stage # "complete"
    /\ \A q \in Players : rsn[q] # a
    /\ rsn' = [rsn EXCEPT ![p] = a]
    /\ UNCHANGED <<clock, stage, moved, wentLive, ended, wom, rows, queue, limited>>

\* Time goes by, and Wise Old Man takes snapshots, as somebody has it update an account.
Tick(taken) ==
    /\ clock < MaxTime
    /\ clock' = clock + 1
    /\ wom' = [a \in Accounts |-> IF a \in taken THEN wom[a] \cup {clock + 1} ELSE wom[a]]
    /\ UNCHANGED <<bingo, rows, queue, limited, upsets>>

Next ==
    \/ Round \/ UpdateRound \/ Reread \/ Restart
    \/ \E to \in Stages, at \in Times : MoveStage(to, at)
    \/ Take \/ Begin \/ Fail \/ Limit
    \/ \E p \in Players : Answer(p)
    \/ LimitEnds
    \/ \E p \in Players, a \in Accounts : ChangeRsn(p, a)
    \/ \E taken \in SUBSET Accounts : Tick(taken)

Spec == Init /\ [][Next]_vars

(***************************************************************************)
(* A round runs every hour and at boot; the queue goes on to its next job, *)
(* hold-offs end, and Wise Old Man answers a read that is tried again and  *)
(* again. Restarts and changes are bounded, not assumed away.              *)
(***************************************************************************)
FairReads ==
    /\ WF_vars(Round) /\ WF_vars(Take) /\ WF_vars(Begin) /\ WF_vars(LimitEnds)
    /\ \A p \in Players : SF_vars(Answer(p))

FairSpec == Spec /\ FairReads

-----------------------------------------------------------------------------
(* Properties. *)

\* "so nothing between reads is missed" and "a different account now: what's stored belongs to the old one": what is stored
\* of a Player is of the one account their row names, and has all that Wise Old Man took of it from a day before the start
\* to where it was read, whatever failed, was put off, lost in a restart or changed while a read was under way. Of an
\* earlier start a re-read may leave something out.
TimelineWhole ==
    \A p \in Players :
        /\ stored[p] # {} => reads[p] # None
        /\ \A s \in stored[p] : s.rsn = reads[p].rsn
        /\ reads[p] # None /\ reads[p].through # None => \A t \in wom[reads[p].rsn] :
            wentLive - Lookback <= t /\ t < reads[p].through => [rsn |-> reads[p].rsn, at |-> t] \in stored[p]

\* "Once a Bingo is Finished, one last read runs up to its end": for every Player, also one who was being read when it
\* was Finished (that read counts as queued already), unless the Bingo is moved on or the time for it is over.
FinalReads ==
    \A p \in Players :
        stage = "complete" /\ wentLive # None ~> stage # "complete" \/ ReadThrough(p) \/ clock - ended > Grace

-----------------------------------------------------------------------------
(* What the documentation says and the code does not keep. *)

\* CONTEXT.md "Borrowed account": "Wise Old Man counts that account from the start (set while Live, the account they
\* played on before stops counting)". Once the Bingo is Finished, nothing stays stored of another account.
OldAccountStops ==
    \A p \in Players : stage = "complete" ~> stage # "complete" \/ \A s \in stored[p] : s.rsn = rsn[p]
=============================================================================

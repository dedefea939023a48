----------------------------- MODULE Lifecycle -----------------------------
(***************************************************************************)
(* One Bingo's stage, start date and stage log: the Admin's stage changes  *)
(* (bingoService.advanceStage), the start date of the settings form        *)
(* (bingoService.updateBingoSettings), the round that makes a Bingo Live   *)
(* at its start date (bingoStartService.startDueBingos), run by every      *)
(* server that is up, and the Achievements a finish takes back.            *)
(*                                                                         *)
(* One tick of the clock is a minute: the settings form sends whole        *)
(* minutes, and a start date moved by less than one counts as not moved.   *)
(***************************************************************************)
EXTENDS Naturals, Sequences

CONSTANTS
    Servers,        \* the API processes: two of them while a deploy swaps containers
    Achievements,   \* the (Player, Achievement) pairs that can be earned
    None,           \* a null date, and an Achievement not earned
    MaxTime,        \* bound: the last minute of the model
    MaxChanges      \* bound: how many times an Admin changes the stage

ASSUME BoundsAssumption == MaxTime \in Nat /\ MaxChanges \in Nat
ASSUME NoneAssumption == None \notin Nat

VARIABLES
    clock,          \* now, in minutes
    stage,          \* bingos.stage
    startsAt,       \* bingos.startsAt
    log,            \* the stageTransitions rows, in insertion order
    titlesFrozen,   \* whether the Bingo has its own bingoTitleSettings row
    earnedBy,       \* what each Achievement is earned by: an action, Wise Old Man play, or a drop's value (Big spender)
    earned,         \* achievementEarned: when each was recorded, or None
    reached,        \* when each was reached: its action or play, or the posts of the drops valued at its goal
    unpriced,       \* the posts of drops worth the goal that have a Claim without a Drop value
    foundDue,       \* a server's round has read this Bingo as due and not yet started it
    pricedLate      \* observed: recorded for a drop that got a first Drop value since the Bingo was Finished

play == <<earnedBy, earned, reached, unpriced, pricedLate>>
vars == <<clock, stage, startsAt, log, titlesFrozen, foundDue, play>>

Stages == {"planning", "signup", "captains", "draft", "reveal", "live", "complete"}
BeforeLive == Stages \ {"live", "complete"}
Times == 0..MaxTime

Transition == [from : Stages, to : Stages, at : Times, by : {"admin", "system"}]

TypeOK ==
    /\ clock \in Times
    /\ stage \in Stages
    /\ startsAt \in Times \cup {None}
    /\ log \in Seq(Transition)
    /\ titlesFrozen \in BOOLEAN
    /\ earnedBy \in [Achievements -> {"action", "play", "drop"}]
    /\ earned \in [Achievements -> Times \cup {None}]
    /\ {reached, unpriced} \subseteq [Achievements -> SUBSET Times]
    /\ foundDue \in [Servers -> BOOLEAN]
    /\ pricedLate \subseteq Achievements

Init ==
    /\ clock = 0
    /\ stage = "planning"
    /\ startsAt = None
    /\ log = <<>>
    /\ titlesFrozen = FALSE
    /\ earnedBy \in [Achievements -> {"action", "play", "drop"}]
    /\ earned = [a \in Achievements |-> None]
    /\ reached = [a \in Achievements |-> {}]
    /\ unpriced = [a \in Achievements |-> {}]
    /\ foundDue = [s \in Servers |-> FALSE]
    /\ pricedLate = {}

-----------------------------------------------------------------------------
(* The start and the end, as the code reads them from the row and the log. *)

StartIsAhead == startsAt # None /\ startsAt > clock

\* The times the Bingo moved to a stage. lastWentLiveAt and endedAt read the latest.
MovedAt(to) == {log[i].at : i \in {j \in DOMAIN log : log[j].to = to}}

\* t is no earlier than effectiveStartsAt: the start date, or without one the last time the Bingo went Live.
FromStart(t) == IF startsAt # None THEN t >= startsAt ELSE \A at \in MovedAt("live") : t >= at

HasStart == startsAt # None \/ MovedAt("live") # {}

\* endedAt of a finished Bingo.
EndedAt == CHOOSE t \in MovedAt("complete") : \A u \in MovedAt("complete") : u <= t

-----------------------------------------------------------------------------
(* advanceStage.  Its checks that a draft can begin (Teams led by pairs,   *)
(* Cut review) only ever refuse the move to the Draft, and an Admin may    *)
(* not ask for it: the move is left to the Admin's choice here.            *)

\* Mutation: the check made at Board revealed only.
StartsEarlyAtReveal(to) == to = "live" /\ stage = "reveal" /\ StartIsAhead

\* Going Live ahead of the start date: allowed only as Start now. From Finished it is never looked at.
StartsEarly(to) == to = "live" /\ stage \in BeforeLive /\ StartIsAhead

\* Mutation: an end not compared with the last stage change.
EndAllowedIgnoringLog(end) == end <= clock /\ FromStart(end)

\* An end the Admin gives: not ahead, not before the start, not before the last stage change.
EndAllowed(end) ==
    /\ end <= clock
    /\ FromStart(end)
    /\ \A i \in DOMAIN log : end >= log[i].at

\* Mutation: a finish that takes nothing back.
KeptAfterEndAll(e, end) == e

ReachedBy(a, end) == \E t \in reached[a] : t <= end

\* revokeEarnedAfterEnd: recorded after the end, and not reached by then all the same.
KeptAfterEnd(e, end) ==
    [a \in Achievements |-> IF e[a] # None /\ e[a] > end /\ ~ReachedBy(a, end) THEN None ELSE e[a]]

\* end is None except for a finish that the Admin dates earlier.
ChangeStage(to, end, by) ==
    LET at == IF end = None THEN clock ELSE end IN
    /\ stage' = to
    /\ startsAt' = IF StartsEarly(to) THEN clock ELSE startsAt
    /\ titlesFrozen' = IF to = "complete" THEN TRUE ELSE IF stage = "complete" THEN FALSE ELSE titlesFrozen
    /\ log' = Append(log, [from |-> stage, to |-> to, at |-> at, by |-> by])
    /\ earned' = IF to = "complete" THEN KeptAfterEnd(earned, at) ELSE earned
    /\ pricedLate' = {}
    /\ UNCHANGED <<earnedBy, reached, unpriced>>

\* POST /stage by an Admin: any other stage, in either direction.
AdminMoves(to, startNow) ==
    /\ Len(log) < MaxChanges
    /\ to # stage
    /\ StartsEarly(to) => startNow
    /\ ChangeStage(to, None, "admin")
    /\ UNCHANGED <<clock, foundDue>>

\* POST /stage to Finished with endedAt.
AdminFinishes(end) ==
    /\ Len(log) < MaxChanges
    /\ stage # "complete"
    /\ EndAllowed(end)
    /\ ChangeStage("complete", end, "admin")
    /\ UNCHANGED <<clock, foundDue>>

-----------------------------------------------------------------------------
(* The settings form's start date. *)

StartDateAllowed(date) ==
    date # None =>
        /\ stage \in {"live", "complete"} => date <= clock
        /\ stage = "reveal" => date > clock

SetStartDate(date) ==
    /\ date # startsAt
    /\ StartDateAllowed(date)
    /\ startsAt' = date
    /\ UNCHANGED <<clock, stage, log, titlesFrozen, foundDue, play>>

-----------------------------------------------------------------------------
(* startDueBingos.  The list of due Bingos and the log are read before the *)
(* transaction that makes one Live, so another server can act in between.  *)

\* Not already Live since its start date: one moved back to Board revealed stays there.
NotStartedSince == \A at \in MovedAt("live") : at < startsAt

Due ==
    /\ stage = "reveal"
    /\ startsAt # None
    /\ startsAt <= clock
    /\ NotStartedSince

RoundReads(s) ==
    /\ ~foundDue[s]
    /\ Due
    /\ foundDue' = [foundDue EXCEPT ![s] = TRUE]
    /\ UNCHANGED <<clock, stage, startsAt, log, titlesFrozen, play>>

\* Mutation: a date compared the wrong way, so that the round is refused.
RoundMayStartLater == stage = "reveal" /\ StartIsAhead

\* What advanceStage still refuses the round: the stage moved, or the start date moved ahead.
RoundMayStart == stage = "reveal" /\ ~StartsEarly("live")

RoundStarts(s) ==
    /\ foundDue[s]
    /\ foundDue' = [foundDue EXCEPT ![s] = FALSE]
    /\ IF RoundMayStart
       THEN ChangeStage("live", None, "system")
       ELSE UNCHANGED <<stage, startsAt, log, titlesFrozen, play>>
    /\ UNCHANGED clock

\* A server stops between the two; its next round starts over.
Restarts(s) ==
    /\ foundDue[s]
    /\ foundDue' = [foundDue EXCEPT ![s] = FALSE]
    /\ UNCHANGED <<clock, stage, startsAt, log, titlesFrozen, play>>

-----------------------------------------------------------------------------
(* Achievements: earned by an action at Board revealed or Live; from Wise  *)
(* Old Man play, which a read notices later, after a finish too; or by the *)
(* value of a drop, which its post may have had to do without.             *)

\* tryEarn: recorded now, once.
Earn(a) == earned' = [earned EXCEPT ![a] = IF earned[a] = None THEN clock ELSE earned[a]]

EarnByAction(a) ==
    /\ earnedBy[a] = "action"
    /\ stage \in {"reveal", "live"}
    /\ earned[a] = None
    /\ Earn(a)
    /\ reached' = [reached EXCEPT ![a] = {clock}]
    /\ UNCHANGED <<clock, stage, startsAt, log, titlesFrozen, foundDue, earnedBy, unpriced, pricedLate>>

\* womWindow: the last snapshot by the end, and one taken after the start.
EarnFromRead(a, t) ==
    /\ earnedBy[a] = "play"
    /\ stage \in {"live", "complete"}
    /\ earned[a] = None
    /\ HasStart
    /\ t <= clock
    /\ FromStart(t)
    /\ stage = "complete" => t <= EndedAt
    /\ Earn(a)
    /\ reached' = [reached EXCEPT ![a] = {t}]
    /\ UNCHANGED <<clock, stage, startsAt, log, titlesFrozen, foundDue, earnedBy, unpriced, pricedLate>>

\* createSubmission of a drop worth the goal of Big spender: none of its Claims is valued yet.
PostDrop(a) ==
    /\ earnedBy[a] = "drop"
    /\ stage = "live"
    /\ HasStart
    /\ FromStart(clock)
    /\ unpriced' = [unpriced EXCEPT ![a] = @ \cup {clock}]
    /\ UNCHANGED <<clock, stage, startsAt, log, titlesFrozen, foundDue, earnedBy, earned, reached, pricedLate>>

\* recordSubmissionsFirstPriced, at the post or by a later fillMissingGpValues: a Claim of the drop gets its first Drop
\* value, which brings or finds it at the goal, and others may still be without one. It looks at no stage and at no end.
FirstPriced(a, t, more) ==
    /\ t \in unpriced[a]
    /\ unpriced' = IF more THEN unpriced ELSE [unpriced EXCEPT ![a] = @ \ {t}]
    /\ reached' = [reached EXCEPT ![a] = @ \cup {t}]
    /\ Earn(a)
    /\ pricedLate' = IF stage = "complete" /\ earned[a] = None THEN pricedLate \cup {a} ELSE pricedLate
    /\ UNCHANGED <<clock, stage, startsAt, log, titlesFrozen, foundDue, earnedBy>>

Tick ==
    /\ clock < MaxTime
    /\ clock' = clock + 1
    /\ UNCHANGED <<stage, startsAt, log, titlesFrozen, foundDue, play>>

Next ==
    \/ \E to \in Stages, startNow \in BOOLEAN : AdminMoves(to, startNow)
    \/ \E end \in Times : AdminFinishes(end)
    \/ \E date \in Times \cup {None} : SetStartDate(date)
    \/ \E s \in Servers : RoundReads(s) \/ RoundStarts(s) \/ Restarts(s)
    \/ \E a \in Achievements : EarnByAction(a) \/ PostDrop(a)
    \/ \E a \in Achievements, t \in Times : EarnFromRead(a, t)
    \/ \E a \in Achievements, t \in Times, more \in BOOLEAN : FirstPriced(a, t, more)
    \/ Tick

Spec == Init /\ [][Next]_vars

(***************************************************************************)
(* A round runs every five seconds on every server (START_ROUND_MS), and   *)
(* once at boot, so a due Bingo keeps being read; and a server is not      *)
(* stopped in the middle of every round it ever runs.                      *)
(***************************************************************************)
FairRounds == \A s \in Servers : WF_vars(RoundReads(s)) /\ SF_vars(RoundStarts(s))

FairSpec == Spec /\ FairRounds

-----------------------------------------------------------------------------
(* Safety. *)

\* The stage log reads as one history: each row starts where the row before it ended, the last one at the stage the
\* Bingo is in, in time order, none of them ahead of the clock; Titles are frozen exactly while it is Finished. An end
\* dated earlier (endedAt) is what could break it.
StageLogInOrder ==
    /\ \A i, j \in DOMAIN log : i <= j => log[i].at <= log[j].at
    /\ \A i \in DOMAIN log : log[i].at <= clock
    /\ \A i \in DOMAIN log : i + 1 \in DOMAIN log => log[i].to = log[i + 1].from
    /\ stage = IF log = <<>> THEN "planning" ELSE log[Len(log)].to
    /\ titlesFrozen <=> stage = "complete"

\* CONTEXT.md "Stage", Live always means started: a Bingo that went Live from any stage before Live is not ahead of its
\* start date, whatever was set, moved or raced since. (From Finished it can be: advanceStage does not look then.)
LiveOnceStarted ==
    stage = "live" /\ log # <<>> /\ log[Len(log)].from \in BeforeLive => ~StartIsAhead

\* CONTEXT.md "Stage": one earned after the end is taken back unless reached by then. While the Bingo is Finished nobody
\* holds an Achievement they had not reached by its end, whatever end was given and however late play was read and drops
\* were valued before the finish; except a Big spender for a drop first valued after it, which nothing takes back.
NothingEarnedAfterEnd ==
    stage = "complete" =>
        \A a \in Achievements \ pricedLate : earned[a] # None => ReachedBy(a, EndedAt)

\* A Bingo due to start does not stay due: it goes Live, or an Admin moved its stage or its date.
DueStarts == Due ~> ~Due
=============================================================================

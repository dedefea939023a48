# Tectonic Bingo: specifications

TLA+ specifications of Tectonic Bingo, the platform a clan runs its Old School RuneScape bingos on. The modules model what
the server does, and what an open page does with what it is sent; TLC checks them on small instances; TLAPS proves
every safety property the runs check for every instance, and that the live updates implement what a page promises. Names
of modules, actions and variables follow the code; the capitalised words are those of `src/CONTEXT.md`.

- [How the system works](#how-the-system-works)
- [The inventory](#the-inventory)
- [The modules and the code](#the-modules-and-the-code)
- [What the runs check](#what-the-runs-check)
- [What is proved](#what-is-proved)
- [Where code and words part](#where-code-and-words-part)
- [What is not modelled](#what-is-not-modelled)
- [The plan](#the-plan)
- [Running it](#running-it)

## How the system works

One Node process (Express, better-sqlite3) holds everything; during a deploy two of them share the database file for a
while. SQLite is called synchronously and every service operation is one `db.transaction`, so an operation runs whole: two
requests never interleave inside one. What does interleave, and what the specifications are about, is:

| where | what is stale or concurrent |
|---|---|
| an `await` in a route | what the request read before it: the stage before an upload or a clan lookup, the rules before a screenshot is stored |
| a form or screen a person opened | the Publish screen of another Admin's draft, the review form of another Moderator's submission |
| timers | the start round (5 s), the DM round, Discord's "try again later", caches that expire |
| a second server | both run every timer, read the same rows, and each knows only its own tabs |
| outside services | Discord, Cloud Vision and the OCR service fail, answer late, answer nobody, or are restarted |
| sockets and pages | an event held back, merged, sent to fewer tabs or lost with its socket; a fetch overtaken by another, or by a click |
| long sequences of legal calls | stages go in both directions at any time, so any operation can follow almost any other |

Database times have a resolution of one second almost everywhere, so events of the same second are ties: the models count
in those seconds and let several things happen in each.

## The inventory

The full list of parts, with the source files of each and a status, is under `components` in `PROJECT.json`. The parts with
logic of their own:

**Bingo lifecycle** (`bingoService`, `bingoStart`, `bingoStartService`). State: the stage, the start date, the append-only
stage log, whether Titles are frozen, what Achievements are earned. Operations: an Admin moves the stage (either
direction, any distance) or finishes with an end dated earlier; the settings form sets the start date; a round on each
server makes a due Bingo Live. Hard: the round reads outside the transaction that acts; a path through the stages that gets
round a check; an end that goes in the log before rows already there. Right when: the log is one ordered history, Live
means started, the system starts only what it should and does so, and nothing earned after the end stays.

**Scoring engine** (`engine`, `exclusivity`, `graphService`, `exclusivityService`). No state: functions from a board (a graph
of nodes: MANUAL, ITEM, SUM, ALL, ANY, COUNT, with points and submit gates) and the approved Claims to what is complete,
since when, for how many points, and what may be submitted. Hard: which Claim tips a sum, which of two Claims on one
Exclusive Item counts, items that hang under several pages. Right when: each is what its definition says it is.

**Draft board and Publish** (`boardDraftService`, `boardService`, `graphService`). State: the Published board's rows, the
draft copy and its revision, open Publish screens. Operations: edit, discard, preview, publish. Hard: two Admins, and
teams that claim and prove on the Published board meanwhile. Right when: what goes out is what was previewed, and nothing
teams posted for is lost or changes its meaning.

**Submissions, review and scores** (`submissionService`, `submissionEdit`, `scoringService`). State: submissions, claims rows,
and a score stored per Team. Operations: post (around an upload), approve, reject, edit from a form, re-score on Publish. Hard:
stored scores that fall behind; reviews in another order than posts; Exclusive Items claimed twice before either is
reviewed; two Moderators on one form.

**Signups, Duo pairing and Teams** (`signupService`, `pairingService`, `teamService`). State: active Signups, pairings and
requests, Teams with their Captain, memberships with roles. Many routes change it, at different
stages. Hard: no
index keeps a player to one Team; who leads is stored twice; six ways onto a Team, three ways out of the Bingo.

**Draft** (`draftService`). State: the order, the picks, started, the cut mode. Computed anew before every pick: the pool, who
is cut, each Team's share, whose turn it is. Hard: everything of the roster can change between two picks, picks can be
taken back, pairs take two places, and there is no pick timer: a Team that can take nothing stalls everybody.

**Superlatives** (`superlativeService`). State: the categories and their order, the votes, each with the Team it was cast in, One Superlative
per Player. Operations: keep the categories, vote, clear a vote; the winners are computed. Hard: people come onto Teams and leave them
in several ways while the votes stand, at any stage; with one each, who wins a category depends on the others. Right when: a Team's winners
are on it, and nobody loses to someone with fewer votes for any other reason than one of their own.

**Screenshot reading** (`ocr`, `ocrText`, `ocrScheduler`, `ocrClient`, `ocrApp`, `ocrEngine`, `ocrGoogle`). State: two limiters with
priorities, a cache of readings and of readings under way, a cooldown. Hard: slots that leak, callers that are never
answered, order of success and failure.

**Discord team sync** (`discordTeamService`). State: a queue of jobs per Bingo, the rows that say what the sync made and last
sent. Hard: a job is dozens of calls, between any two of which Teams change, a call fails, its answer is lost, Discord says
to wait, the server stops, or a person deletes something in Discord.

**Notifications** (`notificationDispatch`, `notificationService`, `notificationDm`, `notificationPresence`). State: a cursor in
the audit log, the Inbox, the queue of folding windows, settings; in each server the tabs it sees and its DM round. Hard: two
servers read the same queue; a round waits for Discord between the rows it read.

**Avoidable cuts and the Cut review** (`cutPlanner`, `cutReviewService`). State: the fingerprint of the roster that was reviewed.
Operations: count what every plan would leave cut, apply one (pairings, splits, a Team more or less) in one transaction, refuse the
move into the Draft until it is done. Hard: anything may change between the review and the move, and the count is made by other
code than the cuts. Right when: the Draft begins with as many cut as was said, or with as few as can be.

**Wise Old Man competition** (`womCompetitionService`). State: the competition's id, whether the last sync failed. Operations: make it
after the Draft; compare and edit it after every change. Hard: nobody waits for a sync, nothing queues them, requests fail after they
were carried out. Right when: with no sync running and no error shown it is as the Bingo is.

**Wise Old Man reads** (`womReadService`, `womService`). State: the queue in memory, the hold-off after a 429; in the database which
account each Player was read under and how far, and the snapshots. Operations: an hourly round, the update at start + 6h, a read for
every stage change, a Site admin's re-read, an Admin's change of account. Hard: a read waits for its turn, for the pace and for an answer
while the stage, the end's date and the account change; the queue dies with the server. Right when: what is stored of a Player is one
account's, without gaps, and is read through the end.

**Live updates** (`broadcastCoalescing`, `ws`, `broadcastChange`; in the client `WebSocketContext`, `bingoScope`, `queries`,
`reactionsCache`). State: the windows of held events, who is connected and what each watches; in a tab its cached data and the fetches
under way. Hard: merging must not lose a listener or a name; a watch list that arrives late; a socket lost between two events; a fetch
that read before the change and lands after it. Right when: no page stays behind a change it was to hear of, or goes back to older data.

**Statistics cache** (`statsCache`). State: a copy per Bingo. Hard: it is worked out between a change and its broadcast. Right when:
nobody told of a change is handed a copy without it.

**MCP server's sign-in** (`mcp/oauthProvider`, `mcp/connections`, `mcp/access`). State: apps, codes, connections with their pair of
tokens, who has access. Hard: secrets presented again; access taken and given back around connections that lapsed. Right when: a secret
is exchanged once, and what works is something its user can see and end.

How they interact: a Publish and a review both end in the scoring functions, so Review contains Engine. The Draft is a set
of operations on the roster and changes with it, so Draft contains Roster. A finish takes Achievements back inside the
stage change. Changes to Teams, the stage and settings ask the Discord sync for a run and do not wait for it; every
operation writes an audit entry, which Notifications read; neither ever calls back, which is why each can be modelled with
the rest of the system as arbitrary changes. The Cut review's plans are operations on the roster and its move into the Draft is
Draft's, so CutReview contains Draft; who may vote and be voted for is who is on the Team, so Superlatives contains it too. Every change is broadcast, which empties the statistics cache first and then tells the tabs.

The hazards these parts are exposed to are listed in `PROJECT.json`, each at the line where it bites, with the properties
that cover it.

## The modules and the code

`map` in `PROJECT.json` names the lines each definition stands for. In short:

| module | models | built on |
|---|---|---|
| `Lifecycle` | stage changes, start date, start rounds, end | |
| `Engine` | the scoring functions | |
| `EngineReference` | any board with any list of approved Claims, and definitions of what the engine is to compute | `Engine` |
| `MakeBoard` | the boards TLC scores | |
| `BoardDraft` | the two copies of the board | |
| `Review` | submissions, reviews, stored scores | `Engine` |
| `Roster` | signups, pairs, Teams | |
| `Draft` | the order and the picks | `Roster` |
| `CutReview` | the Cut review and the move into the Draft | `Draft` |
| `Superlatives` | categories, votes, winners | `Draft` |
| `Limiter`, `OcrReader` | the limiter; the reader | `Limiter` |
| `DiscordSync` | the sync of a Bingo's Teams | |
| `WomCompetition` | the competition and its syncs | |
| `WomReads` | the queue of reads, and what they store | |
| `StatsCache` | the kept copies | |
| `McpAuth` | codes, tokens, connections, access | |
| `Notifications` | Inbox, folding windows, DMs | |
| `Coalescing` | held events: rules, merging, windows (no state) | |
| `LivePages` | what a page promises: the abstract specification | |
| `LiveUpdates` | server, sockets and tabs, which implement it | `Coalescing`, `LivePages` |
| `Reactions` | reactions in a tab's cached list | |
| `MCReview` | `Review` and `EngineReference` side by side | both, `MakeBoard` |
| `MCBingo` | `Lifecycle` and `Notifications` side by side, for safety | the two |
| `MCProgress` | `Lifecycle`, `OcrReader` and `WomReads` side by side, with fairness | the three |
| `MCDraft` | `CutReview` and `Superlatives` side by side | both |
| `MCServices` | OCR, Discord, both parts of Wise Old Man, statistics and MCP side by side | the six |
| `MC...` for the rest | starts and bounds for TLC | the module named |
| `LifecycleProofs` | theorems about `Lifecycle` | `MCBingo` |
| `BoardDraftProofs`, `McpAuthProofs`, `NotificationsProofs`, `LiveUpdatesProofs` | theorems | the module named |
| `ReviewProofs` | theorems about `Review` and `Engine` | `MCReview` |
| `DraftProofs` | theorems about `Roster`, `Draft`, `CutReview`, `Superlatives` | the last two |
| `ServicesProofs` | theorems about the services but MCP | `MCServices` |

A definition that starts with the comment *Mutation* is no part of a model: it is a bug that was put in place of the
definition after it, to see that the property it names is one the code could break.

### Lifecycle

One action per operation: `AdminMoves` (POST /stage), `AdminFinishes` (with `endedAt`), `SetStartDate` (PATCH /settings),
`RoundReads` and `RoundStarts` (the two halves of `startDueBingos`: the query and the log, then `advanceStage` with its
`fromStage`), `Restarts`, and the Achievements below. All changes of stage go through `ChangeStage`, which is
`advanceStage`'s transaction: the start date pulled in by Start now, Titles, the log row, `revokeEarnedAfterEnd`. Left out: the checks
that only refuse the move into the Draft (an Admin who does not ask stands for it; Roster has the check itself).

An Achievement is earned in one of three ways (`earnedBy`), which differ in when it is recorded (`earned`) and when it was reached
(`reached`). By an action, at Board revealed or Live, recorded as it is reached (`EarnByAction`). By Wise Old Man play, which a read
notices later, after a finish too, and then only play before the end, as in `womWindow` (`EarnFromRead`). Or by the value of a drop, Big
spender: a post that is worth the goal may find no Drop value (`PostDrop`), and whenever one of its Claims first gets one
`recordSubmissionsFirstPriced` records it at that moment, at whatever stage (`FirstPriced`); `revokeEarnedAfterEnd` goes by when the drop
was posted. `pricedLate` remembers what was recorded so after a finish. Left out: values set again later, which earn nothing;
deleted Submissions; drops that never come up to the goal.

### Engine

`CompletedAt` is `evaluateGraph`, as a recursive function over the acyclic graph, with the time each node was completed (`CompletedOf`, of one
node by its children's); `Total` adds up rows, and `RunningTo` are those that a SUM has counted when it comes to one; `Awarded` withholds points behind a gate; `Counted` is `keepFirstScope`; `Conflicts` is `exclusivityConflicts`; `GateBlocked`
is `submitGateBlock`; `Score` is what `scoreTeam` stores. A board is a record of functions on its nodes, and `IsBoard` says what every
write keeps of one: no nodes are all under each other. It also says that what a SUM or a COUNT asks for is at least 1, which only the
editor sees to (`RequirementTreeEditor.tsx`); a SUM of nothing would be complete without a date, which the model has no value for.
A Claim's quantity is any whole number: an edit refuses one below 1, but a POST stores what it is sent. Two things are simpler than in the code: a
fraction is left out, and Claims of one second are taken row by row, where the code takes them child by child, which could only matter to the date
of a SUM one of whose Claims subtracts.
`EngineReference` has the boards as a parameter: `CompleteWith` says when a node is complete without any times, and the others likewise
know no order of evaluation.

### BoardDraft

A board is what each node asks for (`Meanings`) and one value for the rest of its rows (`Extras`): points, labels, Lines,
tags, rules. `EditDraft(board)` is `editDraft`: the copy made when there is none, the two checks against Claims and Proofs, and
`settleDraft`, which drops a draft that is level again. Its edits are of three kinds, by what they may do to the nodes:
`EditTiles` (they come and go), `EditTasks` (what they ask for too) and `EditRest` (neither: Lines, Categories, points). `OpenScreen`, `Publish` and `Discard`
are the three routes; `Applied` is `applyDraft` for one node, which keeps the row of a claimed one. `Claim`, `DropClaim`,
`Prove` and `DropProof` are what teams and Moderators do to the nodes meanwhile, an edit that keeps a Claim on a node that
has left the board included.

### Review

A post is two steps with the upload between them: `PostBegins` reads the stage and the rules, `PostLands` (or `PostRefused`)
checks what is checked after it and inserts, so what is read before may be old. `Approve`, `Reject`, `OpenForm`, `SaveEdit` and
`CloseForm` are a Moderator's; a form holds the `updatedAt` and the values it was opened with. `Publish` puts one of two
boards in the other's place as `applyDraft` allows, and re-scores every Team. `SaveEdit(list, node, status)` saves a form that lists Claims or names
what a proof is for. `open` is whether the stage and the start date let
posts in. `Rescore` is `rebuildTeamState` of one Team, `RescoreAll` of all of them. Warnings an editor may override are overridden. What else a form edits (the submitted time, credit and notes) is left out but for whether any of it changed.

### Roster and Draft

Roster has an action for each way a Signup, a pairing, a request, a Team or a membership changes. A sign-up is two steps,
`Ask` and `SignUp`, around the lookup of the clan member, so it may land at another stage than it was decided at. `earlier` is
the age of Signups (who is cut depends on it). `remade` remembers the Teams whose leads an Admin took apart.
Draft adds the order, its two-second reveal (`locked`, one bit), the cut mode and the picks. `MakePick` has every check of
`makePick`, the cuts computed for the moment of the pick included; `RosterStep` lets every action of Roster happen between two
picks. Only duo Bingos are run: who leads plays no part in the order or the shares, so what a solo Bingo
does between two picks is what a duo one does while nobody undrafted is paired.

### CutReview

`PlannedCuts` is `planCutChanges` as a set of numbers: for every number of Teams it may propose, pairings and splits, what `scoreArrangement`
counts (`CutCount`). Which players a plan prefers does not change the count and is left out. `ApplyCutReview` is `applyCutReview`,
every change of a plan in one step, ending with the fingerprint; `told` is what the Admin was told. The planner knows of no members
but the leads of a Team it removes; members added before the Draft come back too, and then what `applyCutReview` itself counts
(`Foretold`) is what is told. `DraftStep` is any step of Draft, the move into the Draft held back by `ReviewSatisfied`. Nothing in
`applyCutReview` looks at the stage; it is offered until the Draft and modelled so.

### Superlatives

A vote is a row: category, Team, voter, nominee. `CreateCategory`, `DeleteCategory`, `ReorderCategories` (by a list that may be out of date),
`SetVote` and `ClearVote` are the routes, `SetOneEach` the switch in the settings form. `VotersChange` is any step of Roster with what it does
to votes: whoever is removed from a Team takes theirs along (`VotesAbout`), and a Team whose votes are left cannot be deleted.
`VotersDrafted` is any step of the Draft, to which a Live Bingo can be moved back; taking back a pick leaves votes, which `unmade`
remembers. `Winners` is `computeWinners`: `Tied`, or `OneEach` (`awardOneEach`), a recursive function over its rounds, each of them `OneRound`. Two categories with equal
places come in the order of their rows.

### OcrReader

The production setup: the API keeps and shares readings, Cloud Vision comes first behind a limiter, the OCR service second
behind its own. A reading is named after the request it was started for and is at one place at a time (`at`). One event
and the promise callbacks that follow it are one action: no other event runs between them. A request may time out whenever
it is under way (`GiveUp`), and the service notices a closed connection later (`HangUp`); it may be restarted (`Restart`), and what
it had queued is gone.

### DiscordSync

`queue` is `enqueue`'s chain of promises and `Joins` the rule by which a sync asked for joins one that waits. A job reads the
Teams once (`ReadTeams`) and then makes one call at a time, the next being computed from what it wants and the rows
(`ToDo`, in the order of `Rank`). `Answered` is a call that succeeds with what is written of it, `Fails` one that does not, or that
Discord did although its answer was lost; what `syncRoleMembers` writes in its `finally` is `WrittenOnFailure`. A rate limit
leaves a timer. `guild` is what is in Discord.

### WomCompetition

A sync is a record in `calls` that goes from await to await: `BeginCreate`, `CreateLands`, `Created`, or `BeginSync`, `Look`, `Compare`,
`Edit`. It reads the Bingo's row before its first await and the Teams after it, and `Edited` sends only what differed from what it
saw. `Fails` ends one anywhere, the edit made or not. `Elsewhere` is someone's change on Wise Old Man itself. `apart` remembers that a
change has had no sync to itself since: two syncs crossed, or the change (a pick of a Draft that was gone back to, one made while
the competition was being made) starts none.

### WomReads

`pending` is the queue in its order, `running` the job at hand and, once its request is made, what it asks (`asks`). `Round`,
`UpdateRound`, `MoveStage`, `Reread` and `Restart` fill the queue; `Restart` empties it first. A job is `Take`, `Begin` (which reads
the Bingo, drops what is stored of another account and works out from where to where to read) and then `Answer`, `Fail` or `Limit`, with
anything in between: `Answer` stores what was asked for under the account it was asked for. Time passes at `Tick`, when Wise Old Man
may take a snapshot of any account. `wom` is what it has. Stored snapshots name the account here, which the table's rows do not:
`TimelineWhole` could not be stated otherwise. One server: during a deploy the other one's reads could store a second account's
snapshots, which nothing prevents.

### StatsCache

What statistics say is the number of changes they are made from. A change is told in the same step (`Change`), when an Admin's response
has ended (`AdminWrite`, `Finish`, in any order), or never (`QuietChange`, a Wise Old Man read: that is what the time limit is for).

### McpAuth

One action per endpoint: `Register` (with the pruning it does first), `AskConsent`, `Authorize`, `Exchange`, `Refresh`, `Call`,
`AppRevokes`, `UserRevokes`, and an Owner's four switches, which end connections when access goes. Secrets are numbers; an app may
present any it has ever been sent, and one that no row holds changes nothing, so retries and races need no actions of their own. `begot`
remembers what each secret was exchanged for.

### Live updates

`Coalescing` is `createCoalescer` and `mergeOutgoing` as functions on a table of windows. In `LiveUpdates`, `Change` is a change with its
broadcast, `Fire` a window's timer, `Connect`, `Lose`, `HearWatch` a socket's life on the server, `Stop` and `Start` a deploy; `HearOpened`,
`HearEvent`, `RefetchAfterReconnect`, `FetchRead`, `FetchLand`, `Visit` and `Leave` are a tab. What a tab shows of a Bingo is one
query, which is as of one of its changes. `owed` is the history the properties are about: the last change a tab is to hear of. A
change is owed to a tab that is connected, has been told what it watches and shows the Bingo; one that happens while it is
disconnected is owed from the next connection. What happens before the first watch list has arrived or during a first load is not
owed: the code makes no promise there. A change of signups that also asks for the statistics again is sent at once by the code and
held here.

`LivePages` is the abstract specification: data, what each page shows of it and what it is owed; a page shows something at most as new
as there is and never older than before, and catches up.

`Reactions` is the exception to "fetch it again": a click changes the cached list at once, cancels a fetch under way, and events put
single submissions into it.

### Notifications

`Happens` is any operation whose audit entry is news to a user. `Drain` is the transaction that stores and moves the
cursor; `Deliver` the delivery of one Notification after it, during which its server does nothing else (`Free`). The folding
window is `Open`, `JoinsWindow`, `OpensWindow`; the DM round is `StartRound` and one `TakeRow` per row with the wait for Discord in
between (`sending`). An entry that is news to several users is told to each on their own, so one user is enough for one
entry. Both servers have tabs, rounds and restarts of their own.

## What the runs check

Eight runs pass. Four are counterexamples, described under *Where code and words part*. `CHECK_DEADLOCK` is off in all of them:
each system may rightly stop (a Draft that is over, a log that has reached its bound, nobody asking anything). `bingo`,
`progress`, `review`, `draft` and `services` run components, or parts of one, side by side: a behaviour is one component's and the others stay as they
began, so each is explored as it would be alone.

| run | properties | what it shows | states |
|---|---|---|---|
| `bingo` | `StageLogInOrder`, `LiveOnceStarted`, `NothingEarnedAfterEnd`; `OneDm`, `NothingMissed` | two servers' rounds against an Admin who moves the stage and the date, and Achievements recorded late; each Notification in one DM at most, and in one unless there is a reason | 2 790 000 |
| `progress` | `DueStarts`; `EveryoneAnswered`; `FinalReads` | a due Bingo starts; everyone who asks for a reading gets an answer; Players are read through the end | 78 000 |
| `board_draft` | `ProofsStayOnBoard`, `PublishedIsPreviewed`, `ClaimedRowsKept` | two Admins against each other and the teams | 1 000 000 |
| `review` | `ScoresCurrent`, `PostsKeepOnePlace`, `ApprovalsOnlyAdd`, `StaleEditOnlySameSecond`; `CompletedWhenFirstTrue`, `OnePlaceScores`, `OpenRoute` | posts, reviews, stale forms and Publishes in every order; the scoring functions agree with definitions that know no order of evaluation | 284 000 |
| `roster` | `OneTeam`, `PairsSpokenFor`, `LeadsAgree`, `DuoTeamsLedByPairs` | every operation at every stage, Bingo moved back and forth | 660 000 |
| `draft` | `PicksInOrder`, `DraftedStayPut`, `DuosDraftedTogether`, `SharesHold`, `ClockCanPick`, `CutsAsReviewed`; `WinnersFair` | the snake, the shares and the pairs under changes between picks; the Draft begins with the cuts that were reviewed; Superlatives go to members, to those with the most votes | 228 000 |
| `services` | `ReadOnce`, `LeftAlone`; `InPlace`, `NothingForgotten`; `KeptInSync`; `TimelineWhole`; `KeptCurrent`; `ExchangedOnce`, `ConnectionsInHand` | one reading per image and the cooldown; Discord as the Teams are; the competition as the Bingo is; one account's snapshots, without gaps; statistics not behind; sign-in | 1 634 000 |
| `live` | `NoneLost`, `PagesKeepUp` | no change a page was to hear of is lost; the pages implement `LivePages`, liveness included | 795 000 |

The types of the modules are proved (`Typing`, `McpTyped`, `DiscordTyped` and the invariants of the other proofs), so no run spends itself on them. That a draft is
never level with the Published board (`DraftDiffers`) is proved too (`DraftHasChanges`) and in no run.

### The bounds, and why they are enough

- **bingo**, the stages: two servers, one Achievement of any of the three kinds (they do not depend on each other), three instants, three stage
  changes by an Admin (the system's own come on top). Three changes reach Live, leave it and come back; three instants put a date before, at and after
  a change, an end between two, and a drop posted, valued and finished over in any order.
- **bingo**, the notifications: three entries of a kind that folds and one that lapses, two instants, one change of a setting, a tab, a restart or a
  refusal at any point; the user has or has not a tab in view on either server and can or cannot be reached from the start. Two entries make
  a window and the third joins it late.
- **progress**: the stages as above, but no Achievement, which no round looks at. Three requests for two images, one slot each: every way to wait occurs (they come up in order, `InOrder`, being interchangeable). One Player to
  read, one tick for every span of time, three changes, re-reads and restarts together: a final read refused, failed, put off, lost or dated.
- **board_draft**: two nodes, two things a node can ask for, two values of the rest, two Admins, three revisions: a screen can be one or two
  revisions behind, a node go and come back.
- **review**: one Team (Teams share nothing but the board), two submissions, two boards with another rule, another gate, another
  requirement and other proofs, one upload under way while the other submission is reviewed and edited, two seconds. Two Claims are what a rule is about.
  A Claim that subtracts is among what is posted (`BelowOne`): in a Bingo that stays live, beside no proof, and with no form open during an upload. A form is
  open only in a live Bingo, the stage being nothing to an edit.
- **review**, scoring: three boards that have every kind of node, an item under two pages, gates, rules per Tile and per part, groups and
  items alone; every list of up to three Claims, each subtracting one, adding nothing or adding one, in two seconds. Three Claims are what it takes for one to be
  dropped for another that is itself dropped or not, and for a total to be reached, left and reached again.
- **roster**: four clan members, two Teams, one sign-up under way: a Team's two leads, and two who can be paired, added, take over.
- **draft**: two Teams led by pairs and room for a third. In the Draft: four players left, paired in every way, with one change at any point, and
  with two when none is paired; or six players, no change, to the end. Six are three rounds: the snake turns twice, and pairs and
  singles can be short in different numbers. Before the Draft: four players with one pair and two changes, six with one or three pairs and
  one. A plan splits one pair and makes one at most, and one that changes something is one of the changes; behaviours with a review are followed
  until the Draft is started (`UntilStarted`), which is what the review is for.
- **draft**, voting: two Teams of three, drafted; one category to begin with and a second row, two votes at once, one change to the Teams: a
  vote by and one for whoever leaves. **Polls**: one Team, every poll of three categories in which three voters vote for three others
  with One Superlative per Player. Three categories are all a Bingo may have; three votes make ties of two
  and of three, and every margin up to three.
- **services**: three requests for up to three images, two slots and one, a cooldown and a lifetime of one instant, a cache of one: a running,
  a waiting and a sharing request. Callers and images come up in order (`InOrder`: they are interchangeable). Discord starts with one Team in place; a
  second may come; three requests and two faults, each between any two calls: Teams depend on each other only through a player who
  moves. Wise Old Man: two names, two rosters, two syncs at once, three changes, two faults, three instants. Reads:
  one Player (they only wait for each other), two accounts, three changes, re-reads and restarts, three instants: an account is left and come back to
  while a read is under way. Statistics: two
  Bingos, three changes each, four instants, two Admins' responses under way. MCP: one user, two apps, four secrets, three instants: a code, its pair, and two renewals, each
  of which may be outlived.
- **live**: one tab, two Bingos to look at (watching one keeps the other's events away), events with names and events for single listeners, a
  second user whose events must not hide the first's; three changes (one goes out, one is held, one is merged), one fault, two visits.

Symmetry is declared over ids that no definition tells apart, in runs without liveness properties only.

### Fairness

- `Lifecycle`: on each server `WF(RoundReads)` and `SF(RoundStarts)`. The round runs every five seconds and once at boot on every
  server that is up, so a due Bingo keeps being read. A server stopped in the middle of a round starts over; strong fairness says it is not
  stopped in the middle of every round for ever. Nothing is assumed of Admins or the clock.
- `OcrReader`, in `MCProgress`: weak fairness of Cloud Vision's answer (or failure), of the API giving up on the service (every request has a
  timeout), of the service noticing a closed connection, and of the engine ending a reading it has started. Nothing is assumed
  of restarts, of further requests, or of the clock: a cooldown that never ends is among the behaviours.
- `WomReads`, in `MCProgress`: weak fairness of the hourly round, of the queue going on to its next job and of a hold-off's end, and strong fairness
  of the answer to a Player's read: Wise Old Man may fail and limit as often as it likes, but not every time for ever. Nothing is assumed of the
  clock, of changes or of restarts.
- `LiveUpdates`: weak fairness of each window's timer, of the next server's start, of a tab's tries to connect, of the arrival of what was sent on an
  open socket, of the delayed refetch and of each fetch. Nothing is assumed of changes, of lost sockets or of people. `LivePages`
  asks for weak fairness of a page's catching up, and that is what `PagesKeepUp` shows to follow. A fetch that fails is tried
  again by the client; that it might fail for ever is left out.
- The other modules state safety only. That a due DM is sent or a sync retried "eventually" depends on timers of the same kind.

## What is proved

Forty-nine theorems, for every value of the constants (any number of servers, players, Teams, boards, tabs, secrets, edits): every invariant
and action property that a passing run checks is one of them. What the theorems take for granted:

- the named `ASSUME`s of the modules, which give the constants their types, keep `None` apart from the values, and say what every board is
  (`IsBoard`, in `LayoutAssumption` and `ScoredBoardsAssumption`); those of the services are together in `ServicesAssumption`. TLC evaluates all of them in
  the runs. `WomCompetition`'s has the ends people set within the bound on time and the default of two weeks beyond it;
- in the theorem itself, for `Draft`, `CutReview` and `Superlatives`: that Teams, and where units or votes are counted Users, are finitely many; and for
  `DraftedStay`, `DuosStayTogether` and `CutsReviewed` that the Bingo is not moved on to Board revealed or Live (`BeforeReveal`): from there on Remove player takes
  drafted players off, and leads.

Where a run starts somewhere else than the module (`MCDiscordSync` with one Team in place, `MCDraft` in the middle of things), the theorem is
of the module's own specification, from an empty server or a new Bingo; its types say more there than TLC's bounds do.

- **`LifecycleProofs`**: `Typing`, `LogOrder` (`StageLogInOrder`), `LiveStarted` (`LiveOnceStarted`) and `NothingAfterEnd`
  (`NothingEarnedAfterEnd`). The invariant is the typing with the first two properties and `ReachedByRecording` (what was recorded had been reached
  by then, and no drop is posted ahead of the clock): an end dated earlier keeps the log in order because it is checked against every
  row there is; a Live Bingo is not ahead of its date because `ChangeStage` pulls the date in and the settings form refuses
  one ahead while Live. A finish takes back what was recorded since the end it writes, and the order of the log makes that row the one
  every later read is held against (`EndIsLastRow`). What a first value brings later is held against nothing, and only set apart (`pricedLate`).
- **`BoardDraftProofs`**: `Typing`, `DraftHasChanges`, `ProofsKept`, `PublishesPreview`, `ClaimsKeepRows`. The properties are not inductive by
  themselves; `Inv` adds that every Claim has a row, that no revision in use is ahead of those minted, and that a screen of the
  draft's own revision shows both boards as they are now (`ScreensCurrent`). From the last, a Publish puts out what its screen shows,
  because the only edit that keeps a revision is none.
- **`ReviewProofs`**, the engine: `ScoringTyped`, `CompletionsDated` (`CompletedWhenFirstTrue`), `ItemsScoreOnce` (`OnePlaceScores`), `OpenRoutesTaken` (`OpenRoute`), on
  any board and any list of approved Claims. That the recursions over a board define a function at all is `BottomUp`: of the parts of the board one
  is known on, take a largest; were it not all of the board, a node whose children it holds could be added, and there is one, as no nodes are all
  under each other. A node is completed by t exactly when it is complete with the reviews made by t (`DoneBy`), by the same descent. That takes totals that
  do not fall again, or a t after every review (`Settled`): with Claims below 1 a date can be another than the second the node was complete from, so
  `CompletionsDated` says of them only what is complete. Which
  Claims count is a recursion over the reviews, of which each looks at earlier ones only (`Older` is an order).
- **`ReviewProofs`**, the reviews: `Typing`, `ScoresStayCurrent`, `StaleEdits`, `PostsKeepPlaces` (`PostsKeepOnePlace`), `ApprovalsKeepWhatIsDone` (`ApprovalsOnlyAdd`). An approval, an edit for
  which `Rescores` holds and a Publish store a fresh score, and nothing else changes what a score is computed from: a rejection and a post touch no approved
  submission, and an edit that does not re-score leaves the approved rows identical, which needs that a submission never has two rows of one
  node (`NodesOnce`). `StaleEdits` rests on times: a change after the form was opened either moved `updatedAt`, and the save is refused, or fell in the second
  that the form was opened in. An approval adds Claims reviewed later than all others, which change nothing of what counts before them (`CountedStays`) or,
  with no Claim below 1, of when a node was completed (`CompletedStays`). With Claims below 1 among the earlier ones a later one that does not subtract still leaves what was
  complete so, and dated no later (`CompletedKept`); one that subtracts can take completion away, and is excepted.
- **`DraftProofs`**, the roster: `Typing`, `OnOneTeam`, `PairsHold`, `LeadsKept`, `PairsLead`. `Inv` is the conjunction of the properties with two facts
  about what is under way: an own sign-up is onto no Team, and nobody asks themselves. `OneTeam` is needed for `LeadsAgree` (whoever takes a role
  over has no other row), and both for `DuoTeamsLedByPairs` (whoever leads is on one Team only, and cannot leave the pairing).
- **`DraftProofs`**, the order and the picks: `DraftInOrder` (`PicksInOrder`), `DraftOnOneTeam` (`OneTeam`), `DraftedStay` (`DraftedStayPut`), `DuosStayTogether`
  (`DuosDraftedTogether`), `ClockPicks` (`ClockCanPick`). Every step of Roster may come between two picks, so the invariant takes in Roster's and
  adds `OrderInv`: once started, the order is a permutation of the Teams made, no Team comes or goes, and each pick is of the
  Team its number says. That picks are of people on Teams, and that pairs are made only of people on none, gives the next two (`DraftedInv`). `ClockPicks` needs
  no more than the order: a Team that is short of nothing that is left takes whatever is (`NothingLeftFor`).
- **`DraftProofs`**, the shares: `SharesAreHeld` (`SharesHold`). `SharesInv` says that the age of Signups is a strict order, that while only the Draft has changed the pool
  every number is one unit's (`SteadyInv`), and that no Team is over its share (`SharesKept`). A pick takes as many off the pool as it puts on a Team, so the
  shares stay what they were; the newest k of the units are k, so what is left is what the Teams are short of; and whose turn it is has had
  at most one turn in each full round (`ClockTurns`), so if anything is left it is short of something.
- **`DraftProofs`**, the Cut review: `CutsReviewed` (`CutsAsReviewed`). Before anything is drafted, markCuts leaves as many players cut as the planner counts for the
  pool as it is (`CutsAreCounted`). What a plan says it leaves is counted again once it is applied (`ToldIsCounted`), kind of change by kind of change: a pairing or a split, a Team
  more or less. A Team that goes gives back one pair because its leads are one and signed up, which is so as long as nobody has been taken off them
  (`PlanInv`). So the fingerprint of a review says how many are cut (`CutInv`), whenever it is compared.
- **`DraftProofs`**, the Superlatives: `WinnersAreFair` (`WinnersFair`). A vote stands only while both its ends are on the Team (`VotesInv`). Of the awards, what is fair
  after some rounds is fair after the next one (`FairSoFar`, `RoundIsFair`), a round gives one category away, and so after as many rounds as categories nothing is left.
- **`McpAuthProofs`**: `McpTyped`, `SecretsExchangedOnce` (`ExchangedOnce`), `HandsOnConnections` (`ConnectionsInHand`). Secrets are numbered as they
  are made; no two rows hold one; what was exchanged is in no row any more. For the second, a token's time is within its
  connection's, an app with a code or a connection stays registered, and whoever has no access has only ended connections, lapsed ones included.
- **`NotificationsProofs`**: `NotificationsTyped`, `ToldOnce` (`OneDm`), `OwedAreKept` (`NothingMissed`). One Notification is at one place at a time: not read yet or in a server's batch, in
  one window, in the DM under way, or told. What takes most care is what a round knows of windows it read before (`RoundsKnow`): of a window it takes off the queue it tells
  what it read then, and what has joined it since is `late`.
- **`ServicesProofs`**, screenshots: `ReadingsInHand`, `ImagesReadOnce` (`ReadOnce`), `CloudVisionLeftAlone` (`LeftAlone`). `OcrInv` is the typing, that each limiter holds what it should and no task
  twice, and that the table of readings under way names the reading that was started for that image; the typing says where a reading of each state is.
- **`ServicesProofs`**, statistics: `StatsKeptCurrent` (`KeptCurrent`). A copy that is kept has every change that was told, because being told of a change forgets the copy and no
  copy is made of less than there is.
- **`ServicesProofs`**, Wise Old Man: `TimelinesWhole` (`TimelineWhole`), `CompetitionTyped`, `CompetitionKeptInSync` (`KeptInSync`). What is stored goes without a gap to where the row says
  (`WholeSoFar`), and a read under way joins on to that even if the row changes before it lands (`JoinsOn`). For the competition: unless a sync crossed another, or a change that
  starts none, one sync runs at most and knows what there is (`Own`).
- **`ServicesProofs`**, Discord: `DiscordTyped`, `TeamsInPlace` (`InPlace`), `WrittenDown` (`NothingForgotten`). What the job at hand has done shows in what is written, in the order
  it works in (`OnPaper`). Unless an answer was lost: each row is of an object of its own, as written but for the members given and taken since, and there is no object
  without a row (`InGuild`); what is written is there unless somebody deleted it by hand (`AllStand`); and a change that has been asked for is waiting behind every removal, in
  the job that runs, under an error, or in place (`Promise`).
- **`LiveUpdatesProofs`**: `PagesImplemented`: every step is a step of `LivePages` or changes nothing of a page (the safety half of the
  refinement; the invariant is that a fetch under way has no less than its page). `ChangesReachPages` (`NoneLost`): by itself the
  property says nothing of what is under way, so the invariant (`AllCovered`) says that a page that is behind what it is owed has something
  that will make it fetch again: a fetch that has not read or has read enough, an event queued for it, one held in a window for a socket
  that will still want it whichever of its watch lists is heard first, the refetch after a reconnect, or no connection. Each step
  that takes one of these away puts another in its place.

The library's theorems on induction take a predicate as a parameter, which the provers cannot instantiate. Where an argument goes by induction over data, it is
turned round: of the counterexamples take a smallest (`SmallestOf`, `SmallestPart`, from `WFMin`), and show that there is a smaller one. `SharesSum` (how
many a set split into parts of equal size has), `RoundsExist`, `BestOf`, `BottomUp` and `Enumerable` (a finite set with an order can be written down in it) are proved this way.

Only model-checked are the liveness properties `DueStarts`, `EveryoneAnswered`, `FinalReads` and that half of
`PagesKeepUp`: the prover has no rules for fairness and `ENABLED`.

What proof attempts found in the models, and what was changed for it:

- `TimelineWhole` said that nothing is missing since *any* start. A Bingo that is Finished, put Live again more than a day later and Finished again reads, in a re-read that was waiting,
  only from a day before the new start; the time between the earlier end and that day is left out, as it should be. The property is now about the last start.
- Who wins with one Superlative each was one recursive expression, of whose parts nothing could be said; its rounds have a name now (`OneRound`).
- Where two guards of a `CASE` overlap, TLC takes the first that holds and the logic any: the overlapping ones have become `IF`, in the order of the code.
- The tables of `WomReads` and `DiscordSync` had types that were too loose to be of use: what a row can hold is now said (`ReadRows`, `TeamTables`, `Jobs`).
- How many players are cut after a review that removes a Team (`Foretold`) is off when a Remove from Team had left it with leads who are no pair, one of whom has a partner in the
  pool: the planner counts two singles where a pair forms (`cutPlanner.ts`, `poolsAfterTeamChange`). That needs a Bingo that was moved to Board revealed and back, hence `BeforeReveal`
  in `CutsReviewed`. What `applyCutReview` answers after applying is counted anew, and right.

## Where code and words part

Four are runs, with TLC's counterexample:

- `board_draft_readded` (`ClaimMeansItsNode`): a claimed node that one Publish took off the board is put back under its id by a later edit asking for
  another item. Neither check sees it, since each compares only nodes that are in both copies; the Claims on it count toward the new requirement, which
  is what `graphService.ts:346-349` means to rule out.
- `draft_clock_stuck` (`ClockAlwaysCanPick`): once Add member has put one half of a pair on a Team, the other half is counted as a single but cannot be
  picked. If nobody else is left, the Team on the clock has nothing to take (`draftService.ts:176` says it always has). `ClockCanPick` shows what does
  hold: as long as no pair is torn apart and nobody in the pool has a pick from before, someone can be picked.

- `reactions` (`ShowsServer`): a click that is refused asks for the Team's list again, but the next click on any submission cancels that fetch, and when
  it succeeds nothing asks again. The tab shows the refused reaction until something else fetches the list, although "A refused one goes back to
  what the server has" (`queries.ts`). With two members and no refusal the same can happen when another's event is passed over
  while an own click is pending and the own answer, which is older, lands last. The app does not fetch again when a window gets the focus
  (`main.tsx:23`), so nothing mends it by the way.
- `wom_old_account` (`OldAccountStops`): what was read under a Player's account before is dropped when their next read begins. A read under way while an
  Admin sets another account stores the old one's snapshots; if the Bingo is then Finished no later than that read went, and the server restarts before the
  final read it queued, the hourly round sees that the Player was read through the end, does not look at which account that was of, and queues
  nothing. The old account keeps counting, although it "stops counting" (`CONTEXT.md:116`) and "the Wise Old Man reads start again"
  (`signupService.ts:609`).

Others were met while modelling and are allowed for in the properties, each at the place named:

- A start round that read a Bingo as due starts it again although the other server put it Live meanwhile and an Admin moved it back
  (`bingoStartService.ts:38,55`): `fromStage` is all that is looked at.
- Live with a start date ahead can be reached by way of Finished (`bingoService.ts:411`), hence the "from a stage before Live" in `LiveOnceStarted`.
- `updatedAt` has seconds, so a review form opened in the second of a change is not found out of date (`StaleEditOnlySameSecond` is exactly this case).
- A drop that was posted after an end dated earlier (or before it, the Bingo finished meanwhile) and gets its first Drop value only after the finish earns its Player Big spender:
  `recordSubmissionsFirstPriced` (`achievementService.ts:335-367`, from `gpValueService.ts:131-136`) looks at neither the stage nor the end, and what the finish takes back it has taken
  back already. In time that is meant ("a drop posted in time but valued later", `CONTEXT.md:412`); after the end it is what "Nothing is earned once it's Finished" (`CONTEXT.md:410`)
  and "one earned after that end is taken back" rule out. `NothingEarnedAfterEnd` sets these apart (`pricedLate`).
- An edit refuses a Claim of less than 1 (`submissionEdit.ts:260`); a POST stores the quantity it is sent, whatever it is (`bingos.ts:453-466`, `submissionService.ts:142-168`). Approved, one
  of 0 dates an ITEM that a later Claim completes (`engine.ts:77-81`), and one below 0 takes away from totals. `CompletedWhenFirstTrue` and `ApprovalsOnlyAdd` say what holds then, and more
  of Claims of 1 and up.
- A post whose upload straddles a stage change, and a sign-up whose clan lookup does, are decided by the stage before (`PostBegins`, `Ask`).
- Withdrawing a Signup keeps a membership that Add member gave before the Draft, so someone withdrawn can be on a Team (`Withdraw`), although CONTEXT.md says a
  withdrawn signup is never a Player.
- A Player removed from a Team "loses their votes and the votes cast for them" (`CONTEXT.md:424`), and `removeTeamMember` sees to it. Taking a pick back
  does not (`draftService.ts:557`): when a Live Bingo is moved back to the Draft, the last pick is taken back, and the Bingo is Finished, the
  Team may give a Superlative to a Player who is on another Team or on none (`unmade` in `Superlatives`). `setVote` also keeps a changed
  vote at the Team it was first cast in.
- Someone waiting for a screenshot who shares a reading begun in the background waits in the background's turn (`AskShared`).
- The move into the Draft is held back "while any cut is Avoidable and no review has been applied since the roster last changed". A player who withdraws
  and signs up again leaves the fingerprint as it was, although somebody else may then be cut: as many as was said, but not who was shown.
- The update at start + 6h is claimed, "so a restart … neither repeats nor skips it" (`womCompetitionService.ts:408-411`), before its requests wait in a queue
  in memory: a restart before they are made skips them (`Restart` in `WomReads`).
- Nothing queues the syncs with Wise Old Man: two that cross can leave the older state (`apart` in `WomCompetition`), and leaving the Draft twice
  while the first competition is being made makes two.
- A sync that waits in front of Remove from Discord is joined by the one that turning the sync on again asks for: everything is removed, the sync is on, and
  no error says so (`discordTeamService.ts:379`; `unasked` in `DiscordSync`).
- A Notification that joins a window which a DM round has already read as due is not in its DM (`notificationDm.ts:259-270`; `late` in `Notifications`). A user
  who comes to the site while a DM's screenshot is being made still gets the DM. Presence is per server, so during a deploy someone with a tab on the other
  server gets one too. What was stored but not delivered when a server stopped stays in the Inbox only.

## What is not modelled

Inside the modelled parts, the module comments and the notes in `PROJECT.json` say what was left out: questions and answers, buy-ins and accounts of a
Signup; the Freeze Period and who may post for whom; the Codeword message, category and hand-made permissions in Discord; which entry is news to whom.
`BoardDraft` takes all the edits of `boardService` as one arbitrary change of the draft, which is why their lines are not mapped one by one.

Whole parts without a model: reads and reports (statistics, Wrapped, Titles, catch-up, search in the audit log), conversions (import, export, prices, matching of
text), plain records (feedback, ratings, settings), file input and output, cookies and passport, migrations, the test data generator, the client beyond `Reactions` and the live updates, and deployment scripts.
Permissions are a table of pure functions with tests; the models take every caller for one who may, so their properties hold whoever calls. tectonic-api, Wise Old Man,
Discord and Cloud Vision are outside services: what they do to the system is in the actions that wait for them.

## The plan

The order was: what decides a Bingo's result first (lifecycle, scoring, review, the board), then who takes part (roster, draft, cuts), then the parts that are
concurrent by themselves (reading, Discord, notifications, the competition, the live updates, the sign-in). Left:

1. **Models.** Achievements and their switches; phone links; write limits; the client's other
   optimistic changes (votes, ratings, answers), which have the shape of `Reactions`.
2. **Abstract specifications.** `Review` has the shape of one: a score that is a function of what is approved. A worker pool for `Limiter` (at most so many at a
   time, the urgent first) with `OcrReader`'s limiters as its implementation; a Bingo's Discord sync as one atomic step from Teams to Discord.
3. **Theorems.** That `Limiter` implements a worker pool, and the Discord sync one atomic step; that a scored board keeps its score when its nodes come in another
   order; what becomes of `CutsReviewed` after Board revealed, with the planner's count put right.
4. **Liveness** of the DM queue and of the sync's retries, with the timers' fairness.

## Running it

```
tlc -workers 2 -config MCLive.cfg MCLive              # any run of PROJECT.json: its cfg, its module
tlapm LiveUpdatesProofs.tla                           # prints only what it cannot prove
```

`MC*.cfg` belongs to the module of the same name; `BoardDraftReadded.cfg` runs `BoardDraft`, `DraftClockAlwaysCanPick.cfg` runs `MCDraft`,
`ReactionsShown.cfg` runs `Reactions` and `WomReadsOldAccount.cfg` runs `WomReads`. No run takes more than about three and a half minutes with two workers.

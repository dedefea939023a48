----------------------------- MODULE DiscordSync ----------------------------
(***************************************************************************)
(* The Discord team sync (discordTeamService): one Bingo's roles and       *)
(* channels in the clan's Discord server, kept up to date with its Teams.  *)
(*                                                                         *)
(* Jobs run one at a time; each call a job makes is one step, after which  *)
(* anything else may happen. A Team has one role and one channel. The      *)
(* category, the Codeword message and what the sync leaves alone are left  *)
(* out; every Player is in the server.                                     *)
(***************************************************************************)
EXTENDS Integers, Sequences, FiniteSets, FiniteSetsExt

CONSTANTS
    Teams,          \* the Teams there may be: their places in the draft order
    Players, Names,
    None, Gone,     \* of a Team: not made yet, deleted
    MaxObjects,     \* bound: how many roles and channels Discord makes
    MaxChanges,     \* bound: how many requests are made
    MaxFaults       \* bound: how many calls fail, servers stop and objects are deleted by hand

VARIABLES
    teams,          \* each Team's name and members
    enabled,        \* bingos.discordEnabled, at a stage past the Draft
    error,          \* bingos.discordSyncError # null
    rows,           \* discord_resources: what the sync knows it made, and what it last sent
    guild,          \* what there is in Discord, by id: None once deleted
    queue,          \* the jobs waiting (tails)
    job,            \* the job running, None for none
    timers,         \* how many rate-limited syncs wait to try again
    lost,           \* history: Discord did something that no row was written for
    unasked,        \* history: the last change has no sync of its own
    tampered,       \* history: something was deleted by hand since a Sync now
    changes, faults \* for the bounds

vars == <<teams, enabled, error, rows, guild, queue, job, timers, lost, unasked, tampered, changes, faults>>

Kinds == {"role", "channel"}
Places == Teams \X Kinds
Ids == 1..MaxObjects

Objects == [kind : Kinds, name : Names, role : {0} \cup Ids, members : SUBSET Players]
Rows == [id : Ids, name : Names, role : {0} \cup Ids, members : SUBSET Players]
TeamRows == [name : Names, members : SUBSET Players]
Tasks == [team : Teams, what : {"role", "add", "take", "channel", "dropChannel", "dropRole"}, who : Players \cup {None}]
Requests == [kind : {"sync", "remove"}, force : BOOLEAN]
TeamTables == [Teams -> TeamRows \cup {None, Gone}]

\* wants: the Teams a job read, None until it has; done: the calls that were answered.
Jobs ==
    [kind : {"sync", "remove"}, force : BOOLEAN, healing : BOOLEAN, wants : TeamTables \cup {None}, done : SUBSET Tasks]

Assumption == Cardinality(Teams) \in Nat /\ Teams = 1..Cardinality(Teams) /\ None \notin Rows \cup Objects \cup Jobs

TypeOK ==
    /\ teams \in TeamTables
    /\ enabled \in BOOLEAN /\ error \in BOOLEAN
    /\ rows \in [Places -> Rows \cup {None}]
    /\ guild \in Seq(Objects \cup {None})
    /\ queue \in Seq(Requests)
    /\ job \in Jobs \cup {None}
    /\ timers \in Nat
    /\ lost \in BOOLEAN /\ unasked \in BOOLEAN /\ tampered \in BOOLEAN

NoTeams == [t \in Teams |-> None]
Exist(ts) == {t \in Teams : ts[t] \notin {None, Gone}}

Init ==
    /\ teams = NoTeams
    /\ enabled = FALSE /\ error = FALSE
    /\ rows = [p \in Places |-> None]
    /\ guild = <<>>
    /\ queue = <<>> /\ job = None /\ timers = 0
    /\ lost = FALSE /\ unasked = FALSE /\ tampered = FALSE
    /\ changes = 0 /\ faults = 0

-----------------------------------------------------------------------------
(* Asking for a sync (syncDiscordTeams) or for everything to be removed.   *)

\* pendingSyncs names the last sync asked for, until it starts: the last one in the queue.
Waiting == {i \in DOMAIN queue : queue[i].kind = "sync"}

\* Mutation: the sync asked for last is joined until it ends.
JoinsUntilItEnds(force) == ~force /\ (Waiting # {} \/ (job # None /\ job.kind = "sync"))

\* A waiting sync covers this one.
Joins(force) == ~force /\ Waiting # {}

AskForSync(force) ==
    IF Joins(force)
    THEN /\ unasked' = \E i \in DOMAIN queue : queue[i].kind = "remove" /\ \A w \in Waiting : w < i
         /\ UNCHANGED queue
    ELSE /\ queue' = Append(queue, [kind |-> "sync", force |-> force])
         /\ unasked' = FALSE

\* The next job starts as soon as the one before has ended: nothing comes in between.
QueueMoves == job = None /\ queue # <<>>

Counted == ~QueueMoves /\ changes < MaxChanges /\ changes' = changes + 1

\* A route that changes a Team: made, renamed, deleted, someone joining or leaving it, or several of these at once.
ChangeTeam(t, to) ==
    /\ Counted
    /\ to # teams[t] /\ teams[t] # Gone
    /\ to # Gone => \A u \in Exist(teams) \ {t} : to.members \cap teams[u].members = {}
    /\ teams' = [teams EXCEPT ![t] = to]
    /\ AskForSync(FALSE)
    /\ UNCHANGED <<enabled, error, rows, guild, job, timers, lost, tampered, faults>>

\* The settings form asks for a sync when it turns the sync on.
SwitchInSettings(to) ==
    /\ Counted
    /\ enabled # to
    /\ enabled' = to
    /\ IF to THEN AskForSync(FALSE) ELSE UNCHANGED <<queue, unasked>>
    /\ UNCHANGED <<teams, error, rows, guild, job, timers, lost, tampered, faults>>

\* A stage change always does.
SwitchByStage(to) ==
    /\ Counted
    /\ enabled # to
    /\ enabled' = to
    /\ AskForSync(FALSE)
    /\ UNCHANGED <<teams, error, rows, guild, job, timers, lost, tampered, faults>>

SyncNow ==
    /\ Counted
    /\ AskForSync(TRUE)
    /\ UNCHANGED <<teams, enabled, error, rows, guild, job, timers, lost, tampered, faults>>

RemoveFromDiscord ==
    /\ Counted
    /\ enabled' = FALSE
    /\ queue' = Append(queue, [kind |-> "remove", force |-> FALSE])
    /\ UNCHANGED <<teams, error, rows, guild, job, timers, lost, unasked, tampered, faults>>

TimerFires ==
    /\ timers > 0 /\ ~QueueMoves
    /\ timers' = timers - 1
    /\ AskForSync(FALSE)
    /\ UNCHANGED <<teams, enabled, error, rows, guild, job, lost, tampered, changes, faults>>

-----------------------------------------------------------------------------
(* What a job has left to do (reconcile, removeNow). *)

Had(R, t) == IF R[<<t, "role">>] = None THEN {} ELSE R[<<t, "role">>].members

WantedBody(j, R, t, kind) ==
    [name |-> j.wants[t].name, role |-> IF kind = "role" THEN 0 ELSE R[<<t, "role">>].id]

Task(t, what, who) == [team |-> t, what |-> what, who |-> who]

\* ensure: made when there is none, edited when it differs from what was last sent, or always when forced.
Ensures(j, R, t) ==
    {Task(t, kind, None) : kind \in {k \in Kinds :
        \/ R[<<t, k>>] = None
        \/ j.force
        \/ [name |-> R[<<t, k>>].name, role |-> R[<<t, k>>].role] # WantedBody(j, R, t, k)}}

\* syncRoleMembers: the role for who doesn't have it yet, and from those it was given to who left.
Gives(j, R, t) ==
    {Task(t, "add", p) : p \in {q \in j.wants[t].members : q \notin Had(R, t) \/ j.force}}
    \cup {Task(t, "take", p) : p \in Had(R, t) \ j.wants[t].members}

\* What's no longer wanted.
Drops(j, R) ==
    {Task(p[1], IF p[2] = "role" THEN "dropRole" ELSE "dropChannel", None) :
        p \in {q \in Places : q[1] \notin Exist(j.wants) /\ R[q] # None}}

ToDo(j, R) ==
    ((UNION {Ensures(j, R, t) \cup Gives(j, R, t) : t \in Exist(j.wants)}) \cup Drops(j, R)) \ j.done

\* Teams in their draft order, a Team's role, its members and its channel; then what goes (orphanOrder).
Rank(task) ==
    CASE task.what = "role" -> 4 * task.team
      [] task.what = "add" -> 4 * task.team + 1
      [] task.what = "take" -> 4 * task.team + 2
      [] task.what = "channel" -> 4 * task.team + 3
      [] task.what = "dropChannel" -> 4 * Max(Teams) + 4
      [] task.what = "dropRole" -> 4 * Max(Teams) + 5

First(tasks) == {task \in tasks : \A other \in tasks : Rank(task) <= Rank(other)}

\* The calls the running job may make now.
Calls == IF job = None THEN {} ELSE IF job.wants = None THEN {} ELSE First(ToDo(job, rows))

-----------------------------------------------------------------------------
(* One call: what it does in Discord, and what is written of it. *)

Kind(task) == IF task.what \in {"channel", "dropChannel"} THEN "channel" ELSE "role"
RowOf(task) == rows[<<task.team, Kind(task)>>]
There(id) == id \in DOMAIN guild /\ guild[id] # None
Makes(task) == task.what \in Kinds /\ (RowOf(task) = None \/ ~There(RowOf(task).id))
NextId == Cardinality(DOMAIN guild) + 1

\* An object, or the row of it, edited as the Team wants.
Edited(j, task, it) ==
    LET body == WantedBody(j, rows, task.team, task.what) IN [it EXCEPT !.name = body.name, !.role = body.role]

\* The object a task's row names, once Discord has done it.
Changed(j, task, object) ==
    CASE task.what \in Kinds -> Edited(j, task, object)
      [] task.what = "add" -> [object EXCEPT !.members = @ \cup {task.who}]
      [] task.what = "take" -> [object EXCEPT !.members = @ \ {task.who}]
      [] task.what \in {"dropRole", "dropChannel"} -> None

\* What Discord has once it has done it: an object that was deleted by hand is made again.
InDiscord(j, task) ==
    IF Makes(task)
    THEN LET body == WantedBody(j, rows, task.team, task.what)
         IN  Append(guild, [kind |-> task.what, name |-> body.name, role |-> body.role, members |-> {}])
    ELSE [guild EXCEPT ![RowOf(task).id] = Changed(j, task, @)]

\* A role that was deleted by hand can't be given or taken: only an edit of it makes it again.
Possible(task) ==
    /\ task.what \in {"add", "take"} => There(RowOf(task).id)
    /\ Makes(task) => NextId \in Ids

\* The finally of syncRoleMembers: what was given and taken is written even when a later call fails.
KeepMembers(j, R, t) ==
    [R EXCEPT ![<<t, "role">>].members =
        (@ \cup {p \in Players : Task(t, "add", p) \in j.done}) \ {p \in Players : Task(t, "take", p) \in j.done}]

MembersLeft(j, R, t) == \E task \in ToDo(j, R) : task.team = t /\ task.what \in {"add", "take"}

\* What is written once the call is answered (recordResource, saveApplied, syncRoleMembers, deleteResource).
Written(j, task) ==
    LET at == <<task.team, Kind(task)>>
        body == WantedBody(j, rows, task.team, task.what)
        after == [j EXCEPT !.done = @ \cup {task}]
    IN  IF Makes(task)
        THEN [rows EXCEPT ![at] = [id |-> NextId, name |-> body.name, role |-> body.role, members |-> {}]]
        ELSE IF task.what \in Kinds THEN [rows EXCEPT ![at] = Edited(j, task, @)]
        ELSE IF task.what \in {"dropRole", "dropChannel"} THEN [rows EXCEPT ![at] = None]
        ELSE IF MembersLeft(after, rows, task.team) THEN rows
        ELSE KeepMembers(after, rows, task.team)

\* Mutation: a row is gone before Discord has deleted what it names.
ForgottenFirst(j, task) ==
    IF task.what \in {"add", "take"} THEN KeepMembers(j, rows, task.team)
    ELSE IF task.what \in {"dropRole", "dropChannel"} THEN [rows EXCEPT ![<<task.team, Kind(task)>>] = None] ELSE rows

\* What is written when it fails.
WrittenOnFailure(j, task) == IF task.what \in {"add", "take"} THEN KeepMembers(j, rows, task.team) ELSE rows

-----------------------------------------------------------------------------
(* The jobs. *)

\* A job that has nothing left to do ends there and then.
Continue(j, R) ==
    IF ToDo(j, R) # {} THEN job' = j /\ UNCHANGED <<error, tampered>>
    ELSE /\ job' = None
         /\ error' = FALSE
         /\ tampered' = (tampered /\ ~j.healing)

Fail(limited) ==
    /\ job' = None
    /\ error' = TRUE
    /\ timers' = timers + (IF limited /\ job.kind = "sync" THEN 1 ELSE 0)
    /\ UNCHANGED tampered

\* removeNow reads what there is to remove, all that a sync wanting no Team would; with nothing there it leaves the
\* error as it is.
StartRemoval(j) ==
    IF \A p \in Places : rows[p] = None THEN UNCHANGED <<job, error, tampered>>
    ELSE Continue([j EXCEPT !.wants = NoTeams], rows)

\* A sync that starts is no longer joined; it reads the Teams once Discord has said who the bot is.
StartJob ==
    /\ QueueMoves
    /\ queue' = Tail(queue)
    /\ LET next == Head(queue)
           started == [kind |-> next.kind, force |-> next.force, healing |-> next.force, wants |-> None, done |-> {}]
       IN  IF next.kind = "sync"
           THEN /\ job' = IF enabled THEN started ELSE None
                /\ UNCHANGED <<error, tampered>>
           ELSE StartRemoval(started)
    /\ UNCHANGED <<teams, enabled, rows, guild, timers, lost, unasked, changes, faults>>

ReadTeams ==
    /\ job # None
    /\ job.wants = None
    /\ Continue([job EXCEPT !.wants = teams], rows)
    /\ UNCHANGED <<teams, enabled, rows, guild, queue, timers, lost, unasked, changes, faults>>

Answered(task) ==
    /\ Possible(task)
    /\ guild' = InDiscord(job, task)
    /\ rows' = Written(job, task)
    /\ Continue([job EXCEPT !.done = @ \cup {task}], rows')
    /\ UNCHANGED <<teams, enabled, queue, timers, lost, unasked, changes, faults>>

\* Discord refuses, says to wait too long, or can't be reached; or it does it, and the answer never comes.
Fails(task, limited, didIt) ==
    /\ ~limited \/ ~didIt
    /\ IF Possible(task) THEN faults < MaxFaults /\ faults' = faults + 1 ELSE ~limited /\ ~didIt /\ UNCHANGED faults
    /\ guild' = IF didIt THEN InDiscord(job, task) ELSE guild
    /\ lost' = (lost \/ didIt)
    /\ rows' = WrittenOnFailure(job, task)
    /\ Fail(limited)
    /\ UNCHANGED <<teams, enabled, queue, unasked, changes>>

\* The first call, for the bot's id, fails.
FailsToStart(limited) ==
    /\ job # None /\ job.wants = None
    /\ faults < MaxFaults /\ faults' = faults + 1
    /\ Fail(limited)
    /\ UNCHANGED <<teams, enabled, rows, guild, queue, lost, unasked, changes>>

\* The server stops: what waits is forgotten, and a call under way may have been heard.
Restart ==
    /\ faults < MaxFaults /\ faults' = faults + 1
    /\ \/ guild' = guild
       \/ \E task \in Calls : Possible(task) /\ guild' = InDiscord(job, task)
    /\ lost' = (lost \/ job # None)
    /\ unasked' = (unasked \/ job # None \/ queue # <<>> \/ timers > 0)
    /\ queue' = <<>> /\ job' = None /\ timers' = 0
    /\ UNCHANGED <<teams, enabled, error, rows, tampered, changes>>

DeletedByHand(id) ==
    /\ faults < MaxFaults /\ faults' = faults + 1
    /\ There(id)
    /\ guild' = [guild EXCEPT ![id] = None]
    /\ tampered' = TRUE
    /\ job' = IF job = None THEN None ELSE [job EXCEPT !.healing = FALSE]
    /\ UNCHANGED <<teams, enabled, error, rows, queue, timers, lost, unasked, changes>>

Next ==
    \/ \E t \in Teams, to \in TeamRows \cup {Gone} : ChangeTeam(t, to)
    \/ \E to \in BOOLEAN : SwitchInSettings(to) \/ SwitchByStage(to)
    \/ SyncNow \/ RemoveFromDiscord \/ TimerFires
    \/ StartJob \/ ReadTeams
    \/ \E task \in Calls : Answered(task) \/ \E limited, didIt \in BOOLEAN : Fails(task, limited, didIt)
    \/ \E limited \in BOOLEAN : FailsToStart(limited)
    \/ Restart
    \/ \E id \in Ids : DeletedByHand(id)

Spec == Init /\ [][Next]_vars

-----------------------------------------------------------------------------
(* Safety. *)

AtRest == job = None /\ queue = <<>> /\ timers = 0

\* Everything there is to know says that Discord is up to date.
Settled == AtRest /\ enabled /\ ~error /\ ~tampered

HasItsPlace(t) ==
    /\ \A k \in Kinds : rows[<<t, k>>] # None /\ There(rows[<<t, k>>].id) /\ guild[rows[<<t, k>>].id].name = teams[t].name
    /\ guild[rows[<<t, "role">>].id].members = teams[t].members
    /\ guild[rows[<<t, "channel">>].id].role = rows[<<t, "role">>].id

\* Once every sync asked for has run and the last one succeeded, every Team there is has its role and its channel, which
\* that role can see, its members and nobody else have the role, and there is nothing of a Team that's gone: however
\* changes, failures, rate limits and hand deletions fell between a sync's calls. Not when an answer was lost, or the
\* last change has no sync of its own: a restart forgot it, or it joined one that waits in front of a removal.
InPlace ==
    Settled /\ ~unasked /\ ~lost =>
        /\ \A t \in Exist(teams) : HasItsPlace(t)
        /\ \A p \in Places : rows[p] # None => p[1] \in Exist(teams)

\* Whatever the sync made in Discord is written down as long as it is there, so that it can be edited and removed: after
\* every step, unless an answer was lost.
NothingForgotten == ~lost => \A id \in DOMAIN guild : There(id) => \E p \in Places : rows[p] # None /\ rows[p].id = id
=============================================================================

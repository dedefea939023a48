---------------------------- MODULE Notifications ---------------------------
(***************************************************************************)
(* Notifications: the audit log is read (drainAuditLog), each entry put in *)
(* its user's Inbox and delivered, as a Discord DM when no tab of theirs   *)
(* is open. DMs of one user and kind that fall in one window go out as one *)
(* (queueDm, runDmRound).                                                  *)
(*                                                                         *)
(* The servers (two during a deploy) share the database; each knows its    *)
(* own tabs and runs its own rounds. An entry is for one user here: one    *)
(* for several is told to each on their own. What is said, who may hear of *)
(* it, the kinds' switches and what has been read are left out.            *)
(***************************************************************************)
EXTENDS Integers, Sequences, FiniteSets, Functions

CONSTANTS
    Servers, Users,
    Kinds, Window,  \* the kinds, and the folding window of each
    Lapsing,        \* the kinds that can stop being true (stillTrue): a Pairing request, the clock
    Stale,          \* DM_STALE_MS
    None,
    MaxEntries, MaxTime, MaxChanges   \* bounds: the log, the clock, what users and Discord do of their own accord

ASSUME NotificationsAssumption ==
    /\ Lapsing \subseteq Kinds /\ Window \in [Kinds -> Nat] /\ Stale \in Nat
    /\ MaxEntries \in Nat /\ MaxTime \in Nat /\ MaxChanges \in Nat
    /\ None \notin [user : Users, ids : SUBSET (1..MaxEntries)]

VARIABLES
    now,
    log,            \* the audit log's entries; one is known by its number, and so is its Notification
    lapsed,         \* those no longer true
    cursor,         \* notification_cursor: the last entry read
    inbox,          \* notifications: those of the entries
    level,          \* notification_settings.level
    unreachable,    \* users with discordUnreachableSince: Discord refused them
    queue,          \* notification_dm_queue
    tabs,           \* each server's presence: "in view", "hidden" with permission to notify, or none of these
    batch,          \* each server: stored and still to be delivered
    round,          \* each server's DM round: its time, and the rows it read as due and has not come to
    sending,        \* each server: what the DM under way tells, its screenshot being made or Discord answering
    dms,            \* history: of each Notification, how many DMs have told it
    owed,           \* history: handed to the queue, not yet in a DM nor dropped for a reason
    late,           \* history: joined a window that a round had read as due
    changes         \* for the bound

database == <<log, lapsed, cursor, inbox, level, unreachable, queue>>
server == <<tabs, batch, round, sending>>
history == <<dms, owed, late>>
vars == <<now, database, server, history, changes>>

Ids == 1..MaxEntries
Levels == {"off", "app", "browser", "discord"}
\* What an entry tells, as notificationsFor reads it: whom, and a Notification of which kind.
Entries == [user : Users, kind : Kinds, at : Nat]
Rows == [id : Ids, user : Users, kind : Kinds, ids : SUBSET Ids, sendAt : Nat]
Idle == [asOf |-> 0, rows |-> <<>>]

TypeOK ==
    /\ now \in 0..MaxTime
    /\ log \in Seq(Entries) /\ Len(log) <= MaxEntries
    /\ lapsed \subseteq DOMAIN log /\ cursor \in 0..Len(log) /\ inbox \subseteq 1..cursor
    /\ level \in [Users -> Levels] /\ unreachable \subseteq Users
    /\ queue \subseteq Rows
    /\ tabs \in [Servers -> [Users -> {"in view", "hidden", "none"}]]
    /\ batch \in [Servers -> Seq(Ids)]
    /\ round \in [Servers -> [asOf : Nat, rows : Seq(Rows)]]
    /\ sending \in [Servers -> [user : Users, ids : SUBSET Ids] \cup {None}]
    /\ dms \in [Ids -> Nat] /\ owed \subseteq Ids /\ late \subseteq Ids
    /\ changes \in 0..MaxChanges

Init ==
    /\ now = 0
    /\ log = <<>> /\ lapsed = {} /\ cursor = 0 /\ inbox = {}
    /\ level = [u \in Users |-> "off"] /\ unreachable = {} /\ queue = {}
    /\ tabs = [s \in Servers |-> [u \in Users |-> "none"]]
    /\ batch = [s \in Servers |-> <<>>]
    /\ round = [s \in Servers |-> Idle]
    /\ sending = [s \in Servers |-> None]
    /\ dms = [n \in Ids |-> 0] /\ owed = {} /\ late = {}
    /\ changes = 0

\* deliver is one loop with nothing awaited: its server does nothing else until it has come to the end of it.
Free(s) == batch[s] = <<>>

\* The elements of S, each before those it comes before.
InOrder(S, Before(_, _)) ==
    CHOOSE q \in [1..Cardinality(S) -> S] : \A i, j \in 1..Cardinality(S) : i < j => Before(q[i], q[j])

Counted == changes < MaxChanges /\ changes' = changes + 1

-----------------------------------------------------------------------------
(* What happens. *)

Tick ==
    /\ now < MaxTime
    /\ now' = now + 1
    /\ UNCHANGED <<database, server, history, changes>>

\* A request, or the round that starts a Bingo, writes an entry that is news to a user.
Happens(u, k) ==
    /\ Len(log) < MaxEntries
    /\ log' = Append(log, [user |-> u, kind |-> k, at |-> now])
    /\ UNCHANGED <<now, lapsed, cursor, inbox, level, unreachable, queue, server, history, changes>>

\* The request is answered, the pick made.
Lapses(n) ==
    /\ n \in DOMAIN log \ lapsed /\ log[n].kind \in Lapsing
    /\ lapsed' = lapsed \cup {n}
    /\ UNCHANGED <<now, log, cursor, inbox, level, unreachable, queue, server, history, changes>>

SetLevel(u, to) ==
    /\ Counted
    /\ to # level[u]
    /\ level' = [level EXCEPT ![u] = to]
    /\ UNCHANGED <<now, log, lapsed, cursor, inbox, unreachable, queue, server, history>>

ClearInbox(u) ==
    /\ Counted
    /\ \E n \in inbox : log[n].user = u
    /\ inbox' = {n \in inbox : log[n].user # u}
    /\ UNCHANGED <<now, log, lapsed, cursor, level, unreachable, queue, server, history>>

\* sendTestDm makes the user reachable before it tries; Discord's refusal undoes that.
TryAgain(u) ==
    /\ Counted
    /\ u \in unreachable
    /\ unreachable' = unreachable \ {u}
    /\ UNCHANGED <<now, log, lapsed, cursor, inbox, level, queue, server, history>>

-----------------------------------------------------------------------------
(* Reading the log (drainAuditLog): as a request ends, and every round. *)

Unread == (cursor + 1)..Len(log)
OptedIn(ns) == {n \in ns : level[log[n].user] # "off"}

\* storeNotifications
Stored == InOrder(OptedIn(Unread), <)

\* Stored and the cursor moved in one transaction; delivery follows.
Drain(s) ==
    /\ Free(s)
    /\ Unread # {}
    /\ inbox' = inbox \cup Range(Stored)
    /\ batch' = [batch EXCEPT ![s] = Stored]
    /\ cursor' = Len(log)
    /\ UNCHANGED <<now, log, lapsed, level, unreachable, queue, tabs, round, sending, history, changes>>

-----------------------------------------------------------------------------
(* Delivery, of one Notification: a tab tells it, or it is put in the queue. *)

ToldByATab(s, u) ==
    \/ tabs[s][u] = "in view"
    \/ tabs[s][u] = "hidden" /\ level[u] \in {"browser", "discord"}

GoesToDiscord(s, u) == ~ToldByATab(s, u) /\ level[u] = "discord" /\ u \notin unreachable

SameGroup(n) == {r \in queue : r.user = log[n].user /\ r.kind = log[n].kind}

\* The newest window of its user and kind, if it was open when it happened.
Open(n) == {r \in SameGroup(n) : r.sendAt > log[n].at /\ \A other \in SameGroup(n) : other.sendAt <= r.sendAt}

InARound(row) == \E s \in Servers : \E i \in DOMAIN round[s].rows : round[s].rows[i].id = row.id

\* Mutation: the window holds the last one only.
KeepsLast(n) ==
    \E r \in Open(n) :
        /\ queue' = (queue \ {r}) \cup {[r EXCEPT !.ids = {n}]}
        /\ UNCHANGED late

JoinsWindow(n) ==
    \E r \in Open(n) :
        /\ queue' = (queue \ {r}) \cup {[r EXCEPT !.ids = @ \cup {n}]}
        /\ late' = IF InARound(r) THEN late \cup {n} ELSE late

OpensWindow(n) ==
    /\ Open(n) = {}
    /\ queue' = queue \cup {[id |-> n, user |-> log[n].user, kind |-> log[n].kind, ids |-> {n},
                             sendAt |-> log[n].at + Window[log[n].kind]]}
    /\ UNCHANGED late

Deliver(s) ==
    /\ ~Free(s)
    /\ LET n == Head(batch[s]) IN
        IF GoesToDiscord(s, log[n].user)
        THEN (JoinsWindow(n) \/ OpensWindow(n)) /\ owed' = owed \cup {n}
        ELSE UNCHANGED <<queue, owed, late>>
    /\ batch' = [batch EXCEPT ![s] = Tail(@)]
    /\ UNCHANGED <<now, log, lapsed, cursor, inbox, level, unreachable, tabs, round, sending, dms, changes>>

-----------------------------------------------------------------------------
(* Tabs (ws, installPresenceListener). *)

Dropped(u) == {r \in queue : r.user = u}

\* A tab in view drops the DMs that wait (cancelPendingDms).
Presence(s, u, to) ==
    /\ Counted
    /\ Free(s)
    /\ to # tabs[s][u]
    /\ tabs' = [tabs EXCEPT ![s][u] = to]
    /\ IF to = "in view"
       THEN /\ queue' = queue \ Dropped(u)
            /\ owed' = owed \ UNION {r.ids : r \in Dropped(u)}
       ELSE UNCHANGED <<queue, owed>>
    /\ UNCHANGED <<now, log, lapsed, cursor, inbox, level, unreachable, batch, round, sending, dms, late>>

-----------------------------------------------------------------------------
(* The DM round (runDmRound), one at a time on each server. *)

Due == {r \in queue : r.sendAt <= now}

StartRound(s) ==
    /\ Free(s)
    /\ round[s] = Idle /\ sending[s] = None
    /\ Due # {}
    /\ round' = [round EXCEPT ![s] =
         [asOf |-> now, rows |-> InOrder(Due, LAMBDA a, b : a.sendAt < b.sendAt \/ (a.sendAt = b.sendAt /\ a.id < b.id))]]
    /\ UNCHANGED <<now, database, tabs, batch, sending, history, changes>>

\* Mutation: a row is sent whether or not it is still in the queue.
HereAnyway(row) == {row}

\* The row as it is in the queue now, if it still is.
Here(row) == {r \in queue : r.id = row.id}

Live(row) == {n \in row.ids \cap inbox : n \notin lapsed}

WorthSending(s, row) ==
    /\ round[s].asOf - row.sendAt <= Stale
    /\ level[row.user] = "discord" /\ row.user \notin unreachable
    /\ tabs[s][row.user] # "in view"
    /\ Live(row) # {}

\* The next row is taken off the queue, unless it is gone already, and its DM begun or dropped.
TakeRow(s) ==
    /\ Free(s)
    /\ sending[s] = None
    /\ round[s] # Idle
    /\ round' = IF Len(round[s].rows) = 1 THEN [round EXCEPT ![s] = Idle] ELSE [round EXCEPT ![s].rows = Tail(@)]
    /\ LET row == Head(round[s].rows) IN
        IF Here(row) = {} THEN UNCHANGED <<queue, sending, owed>>
        ELSE /\ queue' = queue \ Here(row)
             /\ LET goes == WorthSending(s, row) IN
                /\ sending' = [sending EXCEPT ![s] = IF goes THEN [user |-> row.user, ids |-> Live(row)] ELSE None]
                /\ owed' = owed \ (IF goes THEN row.ids \ Live(row) ELSE row.ids)
    /\ UNCHANGED <<now, log, lapsed, cursor, inbox, level, unreachable, tabs, batch, dms, late, changes>>

Told(ids) == [n \in Ids |-> IF n \in ids THEN dms[n] + 1 ELSE dms[n]]

\* Discord answers.
Sent(s) ==
    /\ sending[s] # None /\ Free(s)
    /\ dms' = Told(sending[s].ids)
    /\ owed' = owed \ sending[s].ids
    /\ sending' = [sending EXCEPT ![s] = None]
    /\ UNCHANGED <<now, database, tabs, batch, round, late, changes>>

\* It refuses the user (DISCORD_CANNOT_DM), or fails for another reason: a DM is never tried again.
NotSent(s, refused) ==
    /\ Counted
    /\ sending[s] # None /\ Free(s)
    /\ unreachable' = IF refused THEN unreachable \cup {sending[s].user} ELSE unreachable
    /\ owed' = owed \ sending[s].ids
    /\ sending' = [sending EXCEPT ![s] = None]
    /\ UNCHANGED <<now, log, lapsed, cursor, inbox, level, queue, tabs, batch, round, dms, late>>

\* The server stops and another takes its place: what it had stored is not delivered, its round is over, the DM under
\* way may have gone, and its tabs have yet to find it again.
Restart(s) ==
    /\ Counted
    /\ LET ids == IF sending[s] = None THEN {} ELSE sending[s].ids IN
        /\ \/ UNCHANGED dms
           \/ ids # {} /\ dms' = Told(ids)
        /\ owed' = owed \ ids
    /\ batch' = [batch EXCEPT ![s] = <<>>]
    /\ round' = [round EXCEPT ![s] = Idle]
    /\ sending' = [sending EXCEPT ![s] = None]
    /\ tabs' = [tabs EXCEPT ![s] = [u \in Users |-> "none"]]
    /\ UNCHANGED <<now, database, late>>

Next ==
    \/ Tick
    \/ \E u \in Users, k \in Kinds : Happens(u, k)
    \/ \E n \in DOMAIN log : Lapses(n)
    \/ \E u \in Users : ClearInbox(u) \/ TryAgain(u) \/ \E to \in Levels : SetLevel(u, to)
    \/ \E s \in Servers :
        \/ Drain(s) \/ Deliver(s) \/ StartRound(s) \/ TakeRow(s) \/ Sent(s) \/ Restart(s)
        \/ \E refused \in BOOLEAN : NotSent(s, refused)
        \/ \E u \in Users, to \in {"in view", "hidden", "none"} : Presence(s, u, to)

Spec == Init /\ [][Next]_vars

-----------------------------------------------------------------------------
(* Safety. *)

\* No Notification is in two DMs, whichever rounds of the two servers read it as due, and whatever stops in between.
OneDm == \A n \in Ids : dms[n] <= 1

\* A Notification handed to the queue is in a window that waits, or in the DM under way, until it has been sent or was
\* dropped for a reason (the user came to the site, turned DMs off or can't be reached, it is no longer true, too old or
\* cleared, Discord failed or the server stopped). Not one that joined a window which a round had already read as due:
\* its DM tells what the window held then.
Waits(n) ==
    \/ \E r \in queue : n \in r.ids
    \/ \E s \in Servers : sending[s] # None /\ n \in sending[s].ids
NothingMissed == \A n \in owed \ late : Waits(n)
=============================================================================

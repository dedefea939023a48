---------------------------- MODULE LiveUpdates -----------------------------
(***************************************************************************)
(* Live updates: what changes a Bingo is broadcast to the open pages that  *)
(* watch it (ws, broadcastCoalescing), which fetch again what they show    *)
(* (WebSocketContext).                                                     *)
(*                                                                         *)
(* A Bingo's data is the number of changes made to it, and what a tab      *)
(* shows of it is one query. A user has one tab at most: a tab is named    *)
(* after its user. A socket is a queue each way, lost with it; a tab that  *)
(* is gone without closing is one whose queue isn't read until then.       *)
(***************************************************************************)
EXTENDS Coalescing, Naturals, Sequences

CONSTANTS
    Tabs,           \* the users with a tab
    Asked,          \* a fetch the server hasn't read for yet
    Occurring,      \* the events that occur
    MaxChanges,     \* bound: changes in all
    MaxFaults,      \* bound: sockets lost and servers stopped
    MaxVisits       \* bound: Bingos opened by a tab

ASSUME TabsAssumption == Tabs \subseteq Users
ASSUME NoneAssumption ==
    /\ None \notin Bingos \cup Users \cup Teams \cup {Asked}
    /\ \A S \in SUBSET Bingos : S # None
    /\ \A event \in Events : event # None /\ [held |-> event] # None /\ Empty # None
ASSUME FetchAssumption == None \notin Nat /\ Asked \notin Nat

\* Ratings are for a Team's leads as they then are, a change of roles names whose they are, the rest is for everyone.
\* Reactions carry what they changed, and Achievements pop up: nobody fetches a page on those.
ASSUME OccurringAssumption ==
    \A e \in Occurring :
        /\ e \in Events
        /\ e.type \notin {"submission_reactions_changed", "achievements_changed"}
        /\ e.bingo = None => e.type \in {"access_changed", "bug_report_changed"}
        /\ IF e.type = "draft_rating_changed" THEN e.about # None ELSE e.about = None /\ e.to = Everyone
        /\ e.type = "access_changed" => e.names # {}

VARIABLES
    data,           \* how many changes each Bingo has had
    up,             \* whether the server takes sockets (wss)
    windows,        \* the coalescer's
    open,           \* whether a tab's socket is open
    watching,       \* what the server was told a socket watches, None until it says
    toTab, toServer,
    hasConnected,
    lastWatch,      \* the last list a tab sent on its connection
    refetchDue,     \* refetchTimer is set
    seen,           \* what a tab shows of each Bingo: as of which change
    fetch,          \* a fetch under way: asked for, or what the server read for it
    owed,           \* history: the last change a tab's page is to hear of
    changes, faults, visits

server == <<data, up, windows>>
sockets == <<open, watching, toTab, toServer>>
page == <<hasConnected, lastWatch, refetchDue, seen, fetch>>
bounds == <<changes, faults, visits>>
vars == <<server, sockets, page, owed, bounds>>

Keys == {WindowKey(event) : event \in {e \in Occurring : IsHeld(e)}}

\* The first thing a tab hears on its socket (onopen).
Opened == None

TypeOK ==
    /\ data \in [Bingos -> Nat]
    /\ up \in BOOLEAN
    /\ windows \in [Keys -> Windows]
    /\ open \in [Tabs -> BOOLEAN]
    /\ watching \in [Tabs -> {None} \cup SUBSET Bingos]
    /\ toTab \in [Tabs -> Seq({Opened} \cup Events)]
    /\ toServer \in [Tabs -> Seq(SUBSET Bingos)]
    /\ hasConnected \in [Tabs -> BOOLEAN] /\ refetchDue \in [Tabs -> BOOLEAN]
    /\ lastWatch \in [Tabs -> {None} \cup SUBSET Bingos]
    /\ seen \in [Tabs -> [Bingos -> Nat \cup {None}]]
    /\ fetch \in [Tabs -> [Bingos -> Nat \cup {None, Asked}]]
    /\ owed \in [Tabs -> [Bingos -> Nat]]
    /\ {changes, faults, visits} \subseteq Nat

\* Every tab is on a Bingo's page it has not loaded yet, and has not connected.
Init ==
    /\ data = [b \in Bingos |-> 0]
    /\ up = TRUE
    /\ windows = [k \in Keys |-> None]
    /\ open = [t \in Tabs |-> FALSE]
    /\ watching = [t \in Tabs |-> None]
    /\ toTab = [t \in Tabs |-> <<>>] /\ toServer = toTab
    /\ hasConnected = open /\ refetchDue = open
    /\ lastWatch = watching
    /\ seen = [t \in Tabs |-> [b \in Bingos |-> None]]
    /\ fetch = seen
    /\ owed = [t \in Tabs |-> [b \in Bingos |-> 0]]
    /\ changes = 0 /\ faults = 0 /\ visits = 0

-----------------------------------------------------------------------------
(* Who hears what. *)

\* An event for no Bingo in particular is for every one.
BingosOf(event) == IF event.bingo = None THEN Bingos ELSE {event.bingo}

\* wants, of the sockets that are open
Wants(t, event) ==
    /\ open[t]
    /\ t \in event.to
    /\ event.bingo = None \/ watching[t] = None \/ event.bingo \in watching[t]

\* deliver
Delivered(event) == [t \in Tabs |-> IF Wants(t, event) THEN Append(toTab[t], event) ELSE toTab[t]]

\* invalidateForEvent: only those named fetch their permissions again.
Refetches(t, event) == event.type = "access_changed" => t \in event.names

Loaded(t) == {b \in Bingos : seen[t][b] # None}

-----------------------------------------------------------------------------
(* The server. *)

\* A tab that has been connected, whose list the server has, is to show the change in the end if it fetches on it.
Owing(t, event, b) ==
    /\ Wants(t, event)
    /\ b \in BingosOf(event)
    /\ Refetches(t, event)
    /\ hasConnected[t] /\ toServer[t] = <<>> /\ b \in Loaded(t)

\* broadcast, when each Bingo's data is `now`
Broadcast(event, now) ==
    /\ windows' = IF up THEN Pushed(windows, event) ELSE windows
    /\ toTab' = IF up /\ GoesOut(windows, event) THEN Delivered(event) ELSE toTab
    /\ owed' = [t \in Tabs |-> [b \in Bingos |-> IF up /\ Owing(t, event, b) THEN now[b] ELSE owed[t][b]]]

Changed(event) == [b \in Bingos |-> IF b \in BingosOf(event) THEN data[b] + 1 ELSE data[b]]

Change(event) ==
    /\ changes < MaxChanges
    /\ changes' = changes + 1
    /\ data' = Changed(event)
    /\ Broadcast(event, data')
    /\ UNCHANGED <<up, open, watching, toServer, page, faults, visits>>

\* A window's timer.
Fire(key) ==
    /\ windows[key] # None
    /\ windows' = Fired(windows, key)
    /\ toTab' = IF windows[key].held = None THEN toTab ELSE Delivered(windows[key].held)
    /\ UNCHANGED <<data, up, open, watching, toServer, page, owed, bounds>>

\* closeWebSocketServer: what is held is dropped with the sockets. Requests under way still finish.
Stop ==
    /\ up
    /\ faults < MaxFaults
    /\ faults' = faults + 1
    /\ up' = FALSE
    /\ windows' = [k \in Keys |-> None]
    /\ open' = [t \in Tabs |-> FALSE]
    /\ watching' = [t \in Tabs |-> None]
    /\ toTab' = [t \in Tabs |-> <<>>] /\ toServer' = toTab'
    /\ UNCHANGED <<data, page, owed, changes, visits>>

\* The next process.
Start ==
    /\ ~up
    /\ up' = TRUE
    /\ UNCHANGED <<data, windows, sockets, page, owed, bounds>>

-----------------------------------------------------------------------------
(* Sockets. *)

\* handleUpgrade. A tab that was connected before fetches everything again, so it is to show what there is by now.
Connect(t) ==
    /\ up /\ ~open[t]
    /\ open' = [open EXCEPT ![t] = TRUE]
    /\ toTab' = [toTab EXCEPT ![t] = <<Opened>>]
    /\ owed' = [owed EXCEPT ![t] = [b \in Bingos |-> IF hasConnected[t] /\ b \in Loaded(t) THEN data[b] ELSE @[b]]]
    /\ UNCHANGED <<server, watching, toServer, page, bounds>>

\* The connection is lost, sweepDeadSockets drops it, or its session is logged out.
Lose(t) ==
    /\ open[t]
    /\ faults < MaxFaults
    /\ faults' = faults + 1
    /\ open' = [open EXCEPT ![t] = FALSE]
    /\ watching' = [watching EXCEPT ![t] = None]
    /\ toTab' = [toTab EXCEPT ![t] = <<>>] /\ toServer' = [toServer EXCEPT ![t] = <<>>]
    /\ UNCHANGED <<server, page, owed, changes, visits>>

\* The server hears a watch message.
HearWatch(t) ==
    /\ toServer[t] # <<>>
    /\ watching' = [watching EXCEPT ![t] = Head(toServer[t])]
    /\ toServer' = [toServer EXCEPT ![t] = Tail(@)]
    /\ UNCHANGED <<server, open, toTab, page, owed, bounds>>

-----------------------------------------------------------------------------
(* The tab. *)

\* invalidateQueries: what is loaded is fetched again, instead of a fetch already under way; a first load goes on.
FetchAgain(t, which) == [b \in Bingos |-> IF b \in which /\ b \in Loaded(t) THEN Asked ELSE fetch[t][b]]

\* sendWatch. Nothing is sent while there is nothing to narrow to.
SendWatch(t, last, list) ==
    IF list = last \/ (last = None /\ list = {})
    THEN lastWatch' = [lastWatch EXCEPT ![t] = last] /\ UNCHANGED toServer
    ELSE /\ lastWatch' = [lastWatch EXCEPT ![t] = list]
         /\ toServer' = [toServer EXCEPT ![t] = Append(@, list)]

Ready(t) == open[t] /\ (toTab[t] = <<>> \/ Head(toTab[t]) # Opened)

\* The shells cached have changed to `list`.
ShellsChanged(t, list) ==
    IF Ready(t) THEN SendWatch(t, lastWatch[t], list) ELSE UNCHANGED <<lastWatch, toServer>>

\* Mutation: a reconnect is taken for the first connect.
HearOpenedFirst(t) ==
    /\ toTab[t] # <<>> /\ Head(toTab[t]) = Opened
    /\ toTab' = [toTab EXCEPT ![t] = Tail(@)]
    /\ hasConnected' = [hasConnected EXCEPT ![t] = TRUE]
    /\ SendWatch(t, None, Loaded(t))
    /\ UNCHANGED <<server, open, watching, refetchDue, seen, fetch, owed, bounds>>

\* onopen
HearOpened(t) ==
    /\ toTab[t] # <<>> /\ Head(toTab[t]) = Opened
    /\ toTab' = [toTab EXCEPT ![t] = Tail(@)]
    /\ refetchDue' = [refetchDue EXCEPT ![t] = @ \/ hasConnected[t]]
    /\ hasConnected' = [hasConnected EXCEPT ![t] = TRUE]
    /\ SendWatch(t, None, Loaded(t))
    /\ UNCHANGED <<server, open, watching, seen, fetch, owed, bounds>>

\* onmessage
HearEvent(t) ==
    /\ toTab[t] # <<>> /\ Head(toTab[t]) # Opened
    /\ toTab' = [toTab EXCEPT ![t] = Tail(@)]
    /\ LET event == Head(toTab[t])
       IN  fetch' = IF Refetches(t, event) THEN [fetch EXCEPT ![t] = FetchAgain(t, BingosOf(event))] ELSE fetch
    /\ UNCHANGED <<server, open, watching, toServer, hasConnected, lastWatch, refetchDue, seen, owed, bounds>>

\* refetchAfterReconnect
RefetchAfterReconnect(t) ==
    /\ refetchDue[t]
    /\ refetchDue' = [refetchDue EXCEPT ![t] = FALSE]
    /\ fetch' = [fetch EXCEPT ![t] = FetchAgain(t, Bingos)]
    /\ UNCHANGED <<server, sockets, hasConnected, lastWatch, seen, owed, bounds>>

\* The page of a Bingo that isn't cached.
Visit(t, b) ==
    /\ visits < MaxVisits
    /\ visits' = visits + 1
    /\ seen[t][b] = None /\ fetch[t][b] = None
    /\ fetch' = [fetch EXCEPT ![t][b] = Asked]
    /\ UNCHANGED <<server, sockets, hasConnected, lastWatch, refetchDue, seen, owed, changes, faults>>

FetchRead(t, b) ==
    /\ up
    /\ fetch[t][b] = Asked
    /\ fetch' = [fetch EXCEPT ![t][b] = data[b]]
    /\ UNCHANGED <<server, sockets, hasConnected, lastWatch, refetchDue, seen, owed, bounds>>

FetchLand(t, b) ==
    /\ fetch[t][b] \notin {None, Asked}
    /\ seen' = [seen EXCEPT ![t][b] = fetch[t][b]]
    /\ fetch' = [fetch EXCEPT ![t][b] = None]
    /\ ShellsChanged(t, Loaded(t) \cup {b})
    /\ UNCHANGED <<server, open, watching, toTab, hasConnected, refetchDue, owed, bounds>>

\* A page nobody has looked at for a while leaves the cache.
Leave(t, b) ==
    /\ seen[t][b] # None /\ fetch[t][b] = None
    /\ seen' = [seen EXCEPT ![t][b] = None]
    /\ owed' = [owed EXCEPT ![t][b] = 0]
    /\ ShellsChanged(t, Loaded(t) \ {b})
    /\ UNCHANGED <<server, open, watching, toTab, hasConnected, refetchDue, fetch, bounds>>

-----------------------------------------------------------------------------
Next ==
    \/ \E event \in Occurring : Change(event)
    \/ \E key \in Keys : Fire(key)
    \/ Stop \/ Start
    \/ \E t \in Tabs :
        \/ Connect(t) \/ Lose(t) \/ HearWatch(t)
        \/ HearOpened(t) \/ HearEvent(t) \/ RefetchAfterReconnect(t)
        \/ \E b \in Bingos : Visit(t, b) \/ FetchRead(t, b) \/ FetchLand(t, b) \/ Leave(t, b)

Spec == Init /\ [][Next]_vars

\* Timers fire, a tab tries to connect until it does, what is sent on an open socket arrives and fetches are answered;
\* the next process starts. Nobody has to change anything or to look.
Fairness ==
    /\ WF_vars(Start)
    /\ \A key \in Keys : WF_vars(Fire(key))
    /\ \A t \in Tabs :
        /\ WF_vars(Connect(t)) /\ WF_vars(HearWatch(t))
        /\ WF_vars(HearOpened(t)) /\ WF_vars(HearEvent(t))
        /\ WF_vars(RefetchAfterReconnect(t))
        /\ \A b \in Bingos : WF_vars(FetchRead(t, b)) /\ WF_vars(FetchLand(t, b))

FairSpec == Spec /\ Fairness

-----------------------------------------------------------------------------
(* Safety. *)

\* Nothing is under way that could still tell t of a change to b.
Quiet(t, b) ==
    /\ open[t] /\ toTab[t] = <<>>
    /\ ~refetchDue[t] /\ fetch[t][b] = None
    /\ \A key \in Keys : windows[key] # None /\ windows[key].held # None => b \notin BingosOf(windows[key].held)

\* createCoalescer, ws, WebSocketContext: holding and merging events, narrowing what a socket hears, dropping what is
\* held with the sockets and fetching again while a fetch is under way, a page that has settled shows every change it
\* was to hear of: none is lost on the way.
NoneLost ==
    \A t \in Tabs, b \in Bingos : seen[t][b] # None /\ Quiet(t, b) => seen[t][b] >= owed[t][b]

-----------------------------------------------------------------------------
(* What a page promises. *)

Pages == INSTANCE LivePages

\* The pages implement LivePages: one never goes back to older data, whichever fetches were overtaken, and what it is
\* owed it shows in the end.
PagesKeepUp == Pages!FairSpec
=============================================================================

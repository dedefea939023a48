-------------------------- MODULE LiveUpdatesProofs --------------------------
(***************************************************************************)
(* Live updates, proved for any tabs, Bingos and events and any number of  *)
(* changes and faults. A page that is owed a change is Covered: something  *)
(* that will make it fetch again is always on its way, held in a window,   *)
(* queued on a socket, or waiting for the next connection.                 *)
(***************************************************************************)
EXTENDS LiveUpdates, SequenceTheorems, TLAPS

-----------------------------------------------------------------------------
(* What a queue holds. *)

In(x, s) == \E i \in 1..Len(s) : s[i] = x

LEMMA Appended ==
    ASSUME NEW S, NEW s \in Seq(S), NEW e \in S
    PROVE  Append(s, e) \in Seq(S) /\ \A x : In(x, Append(s, e)) <=> In(x, s) \/ x = e
<1>1. /\ Append(s, e) \in Seq(S) /\ Len(Append(s, e)) = Len(s) + 1
      /\ \A i \in 1..Len(s) : Append(s, e)[i] = s[i]
      /\ Append(s, e)[Len(s) + 1] = e
  BY AppendProperties
<1>2. Len(s) \in Nat
  BY LenProperties
<1> QED BY <1>1, <1>2 DEF In

LEMMA Tailed ==
    ASSUME NEW S, NEW s \in Seq(S), s # <<>>
    PROVE  Head(s) \in S /\ Tail(s) \in Seq(S) /\ \A x : In(x, s) <=> x = Head(s) \/ In(x, Tail(s))
<1>1. /\ Head(s) \in S /\ Tail(s) \in Seq(S) /\ Len(Tail(s)) = Len(s) - 1
      /\ \A i \in 1..Len(Tail(s)) : Tail(s)[i] = s[i + 1]
  BY HeadTailProperties
<1>2. Len(s) \in Nat /\ Len(s) # 0 /\ Head(s) = s[1]
  BY LenProperties, EmptySeq
<1>3. ASSUME NEW x, NEW i \in 1..Len(s), s[i] = x, i # 1 PROVE In(x, Tail(s))
  <2>1. i - 1 \in 1..Len(Tail(s)) /\ Tail(s)[i - 1] = s[i]
    BY <1>1, <1>2, <1>3
  <2> QED BY <1>3, <2>1 DEF In
<1>4. ASSUME NEW x, NEW i \in 1..Len(Tail(s)), Tail(s)[i] = x PROVE In(x, s)
  <2>1. i + 1 \in 1..Len(s) /\ s[i + 1] = x
    BY <1>1, <1>2, <1>4
  <2> QED BY <2>1 DEF In
<1>5. In(Head(s), s)
  <2>1. 1 \in 1..Len(s)
    BY <1>2
  <2> QED BY <1>2, <2>1 DEF In
<1> QED BY <1>2, <1>3, <1>4, <1>5 DEF In

LEMMA EmptyQueue == ASSUME NEW x PROVE ~In(x, <<>>)
BY DEF In

LEMMA OneQueued == ASSUME NEW x, NEW y PROVE In(x, <<y>>) <=> x = y
BY DEF In

-----------------------------------------------------------------------------
(* Types. *)

Queued == {Opened} \cup Events

LEMMA EventTyped ==
    ASSUME NEW event \in Events
    PROVE  /\ event.bingo \in Bingos \cup {None} /\ event.names \subseteq Users /\ event.to \subseteq Users
           /\ event # None
           /\ BingosOf(event) \subseteq Bingos
<1>1. event.bingo \in Bingos \cup {None} /\ event.names \subseteq Users /\ event.to \subseteq Users
  BY DEF Events
<1>2. BingosOf(event) \subseteq Bingos
  BY <1>1 DEF BingosOf
<1>3. event # None
  BY NoneAssumption, Zenon
<1>4. QED
  BY <1>1, <1>2, <1>3

\* What two held events become names and is for whoever either of them named and was for.
LEMMA MergeTyped ==
    ASSUME NEW held, held \in Events, NEW next, next \in Events, WindowKey(held) = WindowKey(next),
           NEW merged, merged = Merge(held, next)
    PROVE  /\ merged \in Events /\ WindowKey(merged) = WindowKey(next)
           /\ held.to \subseteq merged.to /\ next.to \subseteq merged.to
           /\ held.type = next.type /\ held.bingo = next.bingo
           /\ next.type = "access_changed" => held.names \subseteq merged.names /\ next.names \subseteq merged.names
<1>1. merged.names = IF next.type \in AddedTypes THEN held.names \cup next.names ELSE next.names
  BY DEF Merge, Events
<1>2. /\ merged.bingo = next.bingo /\ merged.type = next.type /\ merged.about = next.about
      /\ merged.to = held.to \cup next.to
  BY DEF Merge, Events
<1>3. held.names \subseteq Users /\ next.names \subseteq Users /\ held.to \subseteq Users /\ next.to \subseteq Users
  BY DEF Events
<1>4. merged \in Events
  <2>1. (IF next.type \in AddedTypes THEN held.names \cup next.names ELSE next.names) \in SUBSET Users
    BY <1>3
  <2>2. held.to \cup next.to \in SUBSET Users
    BY <1>3
  <2> QED BY <2>1, <2>2 DEF Merge, Events
<1>5. held.bingo = next.bingo /\ held.type = next.type
  BY DEF WindowKey
<1>6. WindowKey(merged) = WindowKey(next)
  BY <1>2 DEF WindowKey
<1>7. "access_changed" \in AddedTypes
  BY DEF AddedTypes
<1> QED BY <1>1, <1>2, <1>4, <1>5, <1>6, <1>7

\* An open window that holds something.
Holds(k) == windows[k] # None /\ windows[k].held # None

\* A window holds events of its own kind.
KeysHold ==
    /\ windows \in [Keys -> Windows]
    /\ \A k \in Keys : Holds(k) => windows[k].held \in Events /\ WindowKey(windows[k].held) = k

LEMMA PushKeeps ==
    ASSUME KeysHold, NEW event \in Occurring, windows' = Pushed(windows, event)
    PROVE  /\ KeysHold'
           /\ \A k \in Keys : Holds(k) =>
                /\ Holds(k)' /\ windows[k].held.to \subseteq windows'[k].held.to
                /\ windows[k].held.type = "access_changed" => windows[k].held.names \subseteq windows'[k].held.names
           /\ ~GoesOut(windows, event) =>
                LET k == WindowKey(event) IN
                /\ k \in Keys /\ Holds(k)' /\ event.to \subseteq windows'[k].held.to
                /\ event.type = "access_changed" => event.names \subseteq windows'[k].held.names
<1> DEFINE key == WindowKey(event)
<1>1. event \in Events /\ event # None
  BY OccurringAssumption, NoneAssumption
<1>2. CASE ~IsHeld(event)
  <2>1. windows' = windows /\ GoesOut(windows, event)
    BY <1>2 DEF Pushed, GoesOut
  <2> QED BY <2>1 DEF KeysHold, Holds
<1>3. CASE IsHeld(event)
  <2>1. key \in Keys
    BY <1>3 DEF Keys
  <2>2. \A k \in Keys : k # key => windows'[k] = windows[k]
    BY <1>3 DEF Pushed, KeysHold
  <2>3. CASE windows[key] = None
    <3>1. windows' = [windows EXCEPT ![key] = Empty] /\ GoesOut(windows, event)
      BY <1>3, <2>3 DEF Pushed, GoesOut
    <3>2. Empty \in Windows /\ Empty.held = None
      BY DEF Windows, Empty
    <3>3. ~Holds(key) /\ ~Holds(key)'
      BY <2>1, <2>3, <3>1, <3>2 DEF Holds, KeysHold
    <3>4. windows' \in [Keys -> Windows]
      BY <3>1, <3>2 DEF KeysHold
    <3> HIDE DEF key
    <3> QED BY <2>2, <3>1, <3>3, <3>4 DEF KeysHold, Holds
  <2>4. CASE windows[key] # None
    <3> DEFINE new == IF windows[key].held = None THEN event ELSE Merge(windows[key].held, event)
    <3>1. windows' = [windows EXCEPT ![key] = [held |-> new]] /\ ~GoesOut(windows, event)
      BY <1>3, <2>4 DEF Pushed, GoesOut
    <3>2. /\ new \in Events /\ WindowKey(new) = key /\ event.to \subseteq new.to
          /\ event.type = "access_changed" => event.names \subseteq new.names
      <4>1. CASE windows[key].held = None
        BY <1>1, <4>1
      <4>2. CASE windows[key].held # None
        <5>1. windows[key].held \in Events /\ WindowKey(windows[key].held) = key
          BY <2>1, <2>4, <4>2 DEF KeysHold, Holds
        <5>2. PICK prior : prior = windows[key].held
          OBVIOUS
        <5>3. PICK made : made = Merge(prior, event)
          OBVIOUS
        <5>4. new = made
          BY <4>2, <5>2, <5>3
        <5>5. prior \in Events /\ WindowKey(prior) = WindowKey(event)
          BY <5>1, <5>2
        <5>6. /\ made \in Events /\ WindowKey(made) = WindowKey(event) /\ event.to \subseteq made.to
              /\ event.type = "access_changed" => event.names \subseteq made.names
          BY <1>1, <5>3, <5>5, MergeTyped
        <5> QED BY <5>4, <5>6
      <4> QED BY <4>1, <4>2
    <3>3. windows[key].held # None =>
            /\ windows[key].held.to \subseteq new.to
            /\ windows[key].held.type = "access_changed" => windows[key].held.names \subseteq new.names
      <4> SUFFICES ASSUME windows[key].held # None
                   PROVE  /\ windows[key].held.to \subseteq new.to
                          /\ windows[key].held.type = "access_changed" => windows[key].held.names \subseteq new.names
        OBVIOUS
      <4>1. windows[key].held \in Events /\ WindowKey(windows[key].held) = key
        BY <2>1, <2>4 DEF KeysHold, Holds
      <4>2. PICK prior : prior = windows[key].held
        OBVIOUS
      <4>3. PICK made : made = Merge(prior, event)
        OBVIOUS
      <4>4. new = made
        BY <4>2, <4>3
      <4>5. prior \in Events /\ WindowKey(prior) = WindowKey(event)
        BY <4>1, <4>2
      <4>6. /\ prior.to \subseteq made.to
            /\ prior.type = "access_changed" => prior.names \subseteq made.names
        <5>1. /\ prior.to \subseteq made.to /\ prior.type = event.type
              /\ event.type = "access_changed" => prior.names \subseteq made.names
          <6> HIDE DEF new, key
          <6> QED BY <1>1, <4>3, <4>5, MergeTyped
        <5> QED BY <5>1
      <4> QED BY <4>2, <4>4, <4>6
    <3>4. [held |-> new] \in Windows /\ [held |-> new] # None /\ new # None
      BY <3>2, NoneAssumption DEF Windows
    <3> HIDE DEF new
    <3>5. windows' \in [Keys -> Windows] /\ windows'[key] = [held |-> new]
      BY <2>1, <3>1, <3>4 DEF KeysHold
    <3>6. Holds(key)' /\ windows'[key].held = new
      BY <3>4, <3>5 DEF Holds
    <3> HIDE DEF key
    <3> QED BY <2>1, <2>2, <3>1, <3>2, <3>3, <3>5, <3>6 DEF KeysHold, Holds, key
  <2> QED BY <2>3, <2>4
<1> QED BY <1>2, <1>3

LEMMA FireKeeps ==
    ASSUME KeysHold, NEW key \in Keys, windows[key] # None, windows' = Fired(windows, key)
    PROVE  KeysHold' /\ \A k \in Keys : k # key => windows'[k] = windows[k]
<1>1. windows'[key] = IF windows[key].held = None THEN None ELSE Empty
  BY DEF Fired, KeysHold
<1>2. Empty \in Windows /\ None \in Windows /\ Empty.held = None
  BY DEF Windows, Empty
<1>3. \A k \in Keys : k # key => windows'[k] = windows[k]
  BY DEF Fired, KeysHold
<1>4. windows' \in [Keys -> Windows]
  BY <1>2 DEF Fired, KeysHold
<1> QED BY <1>1, <1>2, <1>3, <1>4 DEF KeysHold, Holds

-----------------------------------------------------------------------------
(* The state's kinds, and how much of its data a page can have. *)

Kinds ==
    /\ KeysHold
    /\ data \in [Bingos -> Nat] /\ owed \in [Tabs -> [Bingos -> Nat]]
    /\ seen \in [Tabs -> [Bingos -> Nat \cup {None}]]
    /\ fetch \in [Tabs -> [Bingos -> Nat \cup {None, Asked}]]
    /\ open \in [Tabs -> BOOLEAN] /\ hasConnected \in [Tabs -> BOOLEAN] /\ refetchDue \in [Tabs -> BOOLEAN]
    /\ watching \in [Tabs -> {None} \cup SUBSET Bingos]
    /\ toTab \in [Tabs -> Seq(Queued)] /\ toServer \in [Tabs -> Seq(SUBSET Bingos)]

\* What a page has, fetches or is owed is no more than there is; a fetch under way has no less than the page;
\* a page without data is owed nothing, nor is a tab that has never connected.
InBounds(t, b) ==
    /\ owed[t][b] <= data[b]
    /\ seen[t][b] = None => owed[t][b] = 0
    /\ seen[t][b] # None => seen[t][b] <= data[b]
    /\ fetch[t][b] \in Nat => fetch[t][b] <= data[b] /\ (seen[t][b] # None => seen[t][b] <= fetch[t][b])
    /\ owed[t][b] # 0 => hasConnected[t]

AllInBounds == \A t \in Tabs, b \in Bingos : InBounds(t, b)

LEMMA Sent ==
    ASSUME toServer \in [Tabs -> Seq(SUBSET Bingos)], NEW t \in Tabs, NEW last, NEW list \in SUBSET Bingos,
           SendWatch(t, last, list)
    PROVE  /\ toServer' \in [Tabs -> Seq(SUBSET Bingos)]
           /\ \A u \in Tabs : \A l : In(l, toServer'[u]) => In(l, toServer[u]) \/ (u = t /\ l = list)
<1>1. CASE toServer' = toServer
  BY <1>1
<1>2. CASE toServer' = [toServer EXCEPT ![t] = Append(@, list)]
  <2>1. /\ Append(toServer[t], list) \in Seq(SUBSET Bingos)
        /\ \A x : In(x, Append(toServer[t], list)) <=> In(x, toServer[t]) \/ x = list
    BY Appended
  <2> QED BY <1>2, <2>1
<1> QED BY <1>1, <1>2 DEF SendWatch

LEMMA ShellsSent ==
    ASSUME toServer \in [Tabs -> Seq(SUBSET Bingos)], NEW t \in Tabs, NEW list \in SUBSET Bingos,
           ShellsChanged(t, list)
    PROVE  /\ toServer' \in [Tabs -> Seq(SUBSET Bingos)]
           /\ \A u \in Tabs : \A l : In(l, toServer'[u]) => In(l, toServer[u]) \/ (u = t /\ l = list)
<1>1. CASE Ready(t)
  BY <1>1, Sent DEF ShellsChanged
<1>2. CASE ~Ready(t)
  BY <1>2 DEF ShellsChanged
<1> QED BY <1>1, <1>2

\* Who is sent an event has it queued, and what was queued still is.
LEMMA Delivers ==
    ASSUME toTab \in [Tabs -> Seq(Queued)], NEW event \in Events, toTab' = Delivered(event)
    PROVE  /\ toTab' \in [Tabs -> Seq(Queued)]
           /\ \A t \in Tabs : \A x : In(x, toTab[t]) => In(x, toTab'[t])
           /\ \A t \in Tabs : Wants(t, event) => In(event, toTab'[t])
<1>1. \A t \in Tabs : toTab'[t] = IF Wants(t, event) THEN Append(toTab[t], event) ELSE toTab[t]
  BY DEF Delivered
<1>2. \A t \in Tabs :
        /\ Append(toTab[t], event) \in Seq(Queued)
        /\ \A x : In(x, Append(toTab[t], event)) <=> In(x, toTab[t]) \/ x = event
  BY Appended DEF Queued
<1>3. toTab' \in [Tabs -> Seq(Queued)]
  BY <1>2 DEF Delivered
<1> QED BY <1>1, <1>2, <1>3

LEMMA KindsStep == ASSUME Kinds, [Next]_vars PROVE Kinds'
<1> USE DEF Kinds
<1>1. ASSUME NEW event \in Occurring, Change(event) PROVE Kinds'
  <2>1. event \in Events
    BY OccurringAssumption
  <2>2. data' \in [Bingos -> Nat]
    BY <1>1 DEF Change, Changed
  <2>3. KeysHold'
    BY <1>1, PushKeeps DEF Change, Broadcast, KeysHold, Holds
  <2>4. toTab' \in [Tabs -> Seq(Queued)]
    BY <1>1, <2>1, Delivers DEF Change, Broadcast
  <2>5. owed' \in [Tabs -> [Bingos -> Nat]]
    BY <1>1, <2>2 DEF Change, Broadcast
  <2> QED BY <1>1, <2>2, <2>3, <2>4, <2>5 DEF Change, page
<1>2. ASSUME NEW key \in Keys, Fire(key) PROVE Kinds'
  <2>1. KeysHold'
    BY <1>2, FireKeeps DEF Fire
  <2>2. toTab' \in [Tabs -> Seq(Queued)]
    <3>1. CASE windows[key].held = None
      BY <1>2, <3>1 DEF Fire
    <3>2. CASE windows[key].held # None
      <4>1. windows[key].held \in Events
        BY <1>2, <3>2 DEF Fire, KeysHold, Holds
      <4> QED BY <1>2, <3>2, <4>1, Delivers DEF Fire
    <3> QED BY <3>1, <3>2
  <2> QED BY <1>2, <2>1, <2>2 DEF Fire, page
<1>3. ASSUME Stop PROVE Kinds'
  <2>1. KeysHold'
    BY <1>3 DEF Stop, KeysHold, Holds, Windows
  <2>2. toTab' \in [Tabs -> Seq(Queued)] /\ toServer' \in [Tabs -> Seq(SUBSET Bingos)]
    BY <1>3, EmptySeq DEF Stop
  <2> QED BY <1>3, <2>1, <2>2 DEF Stop, page
<1>4. ASSUME Start PROVE Kinds'
  BY <1>4 DEF Start, sockets, page, KeysHold, Holds
<1>5. ASSUME NEW t \in Tabs, Connect(t) PROVE Kinds'
  <2>1. <<Opened>> \in Seq(Queued)
    BY DEF Queued
  <2>2. toTab' \in [Tabs -> Seq(Queued)]
    BY <1>5, <2>1 DEF Connect
  <2>3. owed' \in [Tabs -> [Bingos -> Nat]]
    BY <1>5 DEF Connect, server
  <2> QED BY <1>5, <2>2, <2>3 DEF Connect, server, page, KeysHold, Holds
<1>6. ASSUME NEW t \in Tabs, Lose(t) PROVE Kinds'
  BY <1>6, EmptySeq DEF Lose, server, page, KeysHold, Holds
<1>7. ASSUME NEW t \in Tabs, HearWatch(t) PROVE Kinds'
  <2>1. Head(toServer[t]) \in SUBSET Bingos /\ Tail(toServer[t]) \in Seq(SUBSET Bingos)
    BY <1>7, Tailed DEF HearWatch
  <2> QED BY <1>7, <2>1 DEF HearWatch, server, page, KeysHold, Holds
<1>8. ASSUME NEW t \in Tabs, HearOpened(t) PROVE Kinds'
  <2>1. Tail(toTab[t]) \in Seq(Queued)
    BY <1>8, Tailed DEF HearOpened
  <2>2. toServer' \in [Tabs -> Seq(SUBSET Bingos)]
    BY <1>8, Sent DEF HearOpened, Loaded
  <2> QED BY <1>8, <2>1, <2>2 DEF HearOpened, server, KeysHold, Holds
<1>9. ASSUME NEW t \in Tabs, HearEvent(t) PROVE Kinds'
  <2>1. Tail(toTab[t]) \in Seq(Queued)
    BY <1>9, Tailed DEF HearEvent
  <2>2. fetch' \in [Tabs -> [Bingos -> Nat \cup {None, Asked}]]
    BY <1>9 DEF HearEvent, FetchAgain
  <2> QED BY <1>9, <2>1, <2>2 DEF HearEvent, server, KeysHold, Holds
<1>10. ASSUME NEW t \in Tabs, RefetchAfterReconnect(t) PROVE Kinds'
  BY <1>10 DEF RefetchAfterReconnect, FetchAgain, server, sockets, KeysHold, Holds
<1>11. ASSUME NEW t \in Tabs, NEW b \in Bingos, Visit(t, b) PROVE Kinds'
  BY <1>11 DEF Visit, server, sockets, KeysHold, Holds
<1>12. ASSUME NEW t \in Tabs, NEW b \in Bingos, FetchRead(t, b) PROVE Kinds'
  BY <1>12 DEF FetchRead, server, sockets, KeysHold, Holds
<1>13. ASSUME NEW t \in Tabs, NEW b \in Bingos, FetchLand(t, b) PROVE Kinds'
  <2>1. toServer' \in [Tabs -> Seq(SUBSET Bingos)]
    BY <1>13, ShellsSent DEF FetchLand, Loaded
  <2>2. fetch[t][b] \in Nat
    BY <1>13 DEF FetchLand
  <2>3. seen' \in [Tabs -> [Bingos -> Nat \cup {None}]] /\ fetch' \in [Tabs -> [Bingos -> Nat \cup {None, Asked}]]
    BY <1>13, <2>2 DEF FetchLand
  <2> QED BY <1>13, <2>1, <2>3 DEF FetchLand, server, KeysHold, Holds
<1>14. ASSUME NEW t \in Tabs, NEW b \in Bingos, Leave(t, b) PROVE Kinds'
  <2>1. toServer' \in [Tabs -> Seq(SUBSET Bingos)]
    BY <1>14, ShellsSent DEF Leave, Loaded
  <2> QED BY <1>14, <2>1 DEF Leave, server, KeysHold, Holds
<1>15. CASE UNCHANGED vars
  BY <1>15 DEF vars, server, sockets, page, KeysHold, Holds
<1> QED BY <1>1, <1>2, <1>3, <1>4, <1>5, <1>6, <1>7, <1>8, <1>9, <1>10, <1>11, <1>12, <1>13, <1>14, <1>15 DEF Next

\* Asking again for what is loaded leaves a page in bounds.
LEMMA AskedInBounds ==
    ASSUME Kinds, AllInBounds, NEW t \in Tabs, NEW which,
           fetch' = [fetch EXCEPT ![t] = FetchAgain(t, which)],
           UNCHANGED <<data, seen, owed, hasConnected>>
    PROVE  AllInBounds'
<1>1. \A u \in Tabs, b \in Bingos : fetch'[u][b] = fetch[u][b] \/ fetch'[u][b] = Asked
  BY DEF Kinds, FetchAgain
<1> QED BY <1>1, FetchAssumption DEF AllInBounds, InBounds

LEMMA BoundsStep == ASSUME Kinds, AllInBounds, [Next]_vars PROVE AllInBounds'
<1>1. ASSUME NEW event \in Occurring, Change(event) PROVE AllInBounds'
  <2> SUFFICES ASSUME NEW t \in Tabs, NEW b \in Bingos PROVE InBounds(t, b)'
    BY DEF AllInBounds
  <2>1. InBounds(t, b) /\ data[b] \in Nat /\ owed[t][b] \in Nat /\ seen[t][b] \in Nat \cup {None}
    BY DEF AllInBounds, Kinds
  <2>2. data'[b] \in Nat /\ data'[b] >= data[b]
    BY <1>1, <2>1 DEF Change, Changed
  <2>3. seen' = seen /\ fetch' = fetch /\ hasConnected' = hasConnected
    BY <1>1 DEF Change, page
  <2>4. owed'[t][b] = owed[t][b] \/ (owed'[t][b] = data'[b] /\ hasConnected[t] /\ seen[t][b] # None)
    BY <1>1 DEF Change, Broadcast, Owing, Loaded
  <2> QED BY <2>1, <2>2, <2>3, <2>4 DEF InBounds
<1>2. ASSUME NEW t \in Tabs, Connect(t) PROVE AllInBounds'
  <2> SUFFICES ASSUME NEW u \in Tabs, NEW b \in Bingos PROVE InBounds(u, b)'
    BY DEF AllInBounds
  <2>1. InBounds(u, b) /\ data[b] \in Nat
    BY DEF AllInBounds, Kinds
  <2>2. UNCHANGED <<data, seen, fetch, hasConnected>>
    BY <1>2 DEF Connect, server, page
  <2>3. owed'[u][b] = owed[u][b] \/ (owed'[u][b] = data[b] /\ hasConnected[u] /\ seen[u][b] # None)
    BY <1>2 DEF Connect, Loaded, Kinds
  <2> QED BY <2>1, <2>2, <2>3 DEF InBounds
<1>3. ASSUME NEW t \in Tabs, HearOpened(t) PROVE AllInBounds'
  <2>1. \A u \in Tabs : hasConnected[u] => hasConnected'[u]
    BY <1>3 DEF HearOpened, Kinds
  <2>2. UNCHANGED <<data, seen, fetch, owed>>
    BY <1>3 DEF HearOpened, server
  <2> QED BY <2>1, <2>2 DEF AllInBounds, InBounds
<1>4. ASSUME NEW t \in Tabs, HearEvent(t) PROVE AllInBounds'
  <2>1. UNCHANGED <<data, seen, owed, hasConnected>>
    BY <1>4 DEF HearEvent, server
  <2>2. CASE Refetches(t, Head(toTab[t]))
    BY <1>4, <2>1, <2>2, AskedInBounds DEF HearEvent
  <2>3. CASE ~Refetches(t, Head(toTab[t]))
    BY <1>4, <2>1, <2>3 DEF HearEvent, AllInBounds, InBounds
  <2> QED BY <2>2, <2>3
<1>5. ASSUME NEW t \in Tabs, RefetchAfterReconnect(t) PROVE AllInBounds'
  <2>1. UNCHANGED <<data, seen, owed, hasConnected>>
    BY <1>5 DEF RefetchAfterReconnect, server
  <2> QED BY <1>5, <2>1, AskedInBounds DEF RefetchAfterReconnect
<1>6. ASSUME NEW t \in Tabs, NEW b \in Bingos, Visit(t, b) PROVE AllInBounds'
  <2>1. \A u \in Tabs, c \in Bingos : fetch'[u][c] = fetch[u][c] \/ fetch'[u][c] = Asked
    BY <1>6 DEF Visit, Kinds
  <2>2. UNCHANGED <<data, seen, owed, hasConnected>>
    BY <1>6 DEF Visit, server
  <2> QED BY <2>1, <2>2, FetchAssumption DEF AllInBounds, InBounds
<1>7. ASSUME NEW t \in Tabs, NEW b \in Bingos, FetchRead(t, b) PROVE AllInBounds'
  <2>1. \A u \in Tabs, c \in Bingos : fetch'[u][c] = fetch[u][c] \/ fetch'[u][c] = data[c]
    BY <1>7 DEF FetchRead, Kinds
  <2>2. UNCHANGED <<data, seen, owed, hasConnected>>
    BY <1>7 DEF FetchRead, server
  <2>3. \A c \in Bingos : data[c] \in Nat
    BY DEF Kinds
  <2> QED BY <2>1, <2>2, <2>3 DEF AllInBounds, InBounds
<1>8. ASSUME NEW t \in Tabs, NEW b \in Bingos, FetchLand(t, b) PROVE AllInBounds'
  <2> SUFFICES ASSUME NEW u \in Tabs, NEW c \in Bingos PROVE InBounds(u, c)'
    BY DEF AllInBounds
  <2>1. InBounds(u, c)
    BY DEF AllInBounds
  <2>2. UNCHANGED <<data, owed, hasConnected>>
    BY <1>8 DEF FetchLand, server
  <2>3. CASE <<u, c>> = <<t, b>>
    <3>1. fetch[t][b] \in Nat /\ seen'[t][b] = fetch[t][b] /\ fetch'[t][b] = None
      BY <1>8 DEF FetchLand, Kinds
    <3> QED BY <2>1, <2>2, <2>3, <3>1, FetchAssumption DEF InBounds
  <2>4. CASE <<u, c>> # <<t, b>>
    <3>1. seen'[u][c] = seen[u][c] /\ fetch'[u][c] = fetch[u][c]
      BY <1>8, <2>4 DEF FetchLand, Kinds
    <3> QED BY <2>1, <2>2, <3>1 DEF InBounds
  <2> QED BY <2>3, <2>4
<1>9. ASSUME NEW t \in Tabs, NEW b \in Bingos, Leave(t, b) PROVE AllInBounds'
  <2> SUFFICES ASSUME NEW u \in Tabs, NEW c \in Bingos PROVE InBounds(u, c)'
    BY DEF AllInBounds
  <2>1. InBounds(u, c) /\ data[c] \in Nat
    BY DEF AllInBounds, Kinds
  <2>2. UNCHANGED <<data, fetch, hasConnected>>
    BY <1>9 DEF Leave, server
  <2>3. CASE <<u, c>> = <<t, b>>
    <3>1. fetch[t][b] = None /\ seen'[t][b] = None /\ owed'[t][b] = 0
      BY <1>9 DEF Leave, Kinds
    <3> QED BY <2>1, <2>2, <2>3, <3>1, FetchAssumption DEF InBounds
  <2>4. CASE <<u, c>> # <<t, b>>
    <3>1. seen'[u][c] = seen[u][c] /\ owed'[u][c] = owed[u][c]
      BY <1>9, <2>4 DEF Leave, Kinds
    <3> QED BY <2>1, <2>2, <3>1 DEF InBounds
  <2> QED BY <2>3, <2>4
<1>10. CASE UNCHANGED <<data, seen, fetch, owed, hasConnected>>
  BY <1>10 DEF AllInBounds, InBounds
<1>11. \A key \in Keys : Fire(key) => UNCHANGED <<data, seen, fetch, owed, hasConnected>>
  BY DEF Fire, page
<1>12. Stop \/ Start => UNCHANGED <<data, seen, fetch, owed, hasConnected>>
  BY DEF Stop, Start, page
<1>13. \A t \in Tabs : Lose(t) \/ HearWatch(t) => UNCHANGED <<data, seen, fetch, owed, hasConnected>>
  BY DEF Lose, HearWatch, server, page
<1>14. UNCHANGED vars => UNCHANGED <<data, seen, fetch, owed, hasConnected>>
  BY DEF vars, server, page
<1> QED BY <1>1, <1>2, <1>3, <1>4, <1>5, <1>6, <1>7, <1>8, <1>9, <1>10, <1>11, <1>12, <1>13, <1>14 DEF Next

LEMMA Starts == Init => Kinds /\ AllInBounds
<1> SUFFICES ASSUME Init PROVE Kinds /\ AllInBounds
  OBVIOUS
<1>1. KeysHold
  BY DEF Init, KeysHold, Holds, Windows
<1>2. \A t \in Tabs : <<>> \in Seq(Queued) /\ <<>> \in Seq(SUBSET Bingos)
  BY EmptySeq
<1>3. toTab \in [Tabs -> Seq(Queued)] /\ toServer \in [Tabs -> Seq(SUBSET Bingos)]
  BY <1>2 DEF Init
<1>4. Kinds
  BY <1>1, <1>3 DEF Init, Kinds
<1>5. AllInBounds
  BY FetchAssumption DEF Init, AllInBounds, InBounds
<1> QED BY <1>4, <1>5

LEMMA AlwaysInBounds == Spec => [](Kinds /\ AllInBounds)
BY Starts, KindsStep, BoundsStep, PTL DEF Spec

-----------------------------------------------------------------------------
(* The pages implement what LivePages says of them. *)

LEMMA StepRefines == ASSUME Kinds, AllInBounds, [Next]_vars PROVE [Pages!Next]_Pages!vars
<1>1. ASSUME NEW event \in Occurring, Change(event) PROVE Pages!Next
  <2> DEFINE pages == {p \in Tabs \X Bingos : up /\ Owing(p[1], event, p[2])}
  <2>1. event \in Events
    BY OccurringAssumption
  <2>2. BingosOf(event) \in SUBSET Bingos
    BY <2>1, EventTyped
  <2>3. \A p \in pages : seen[p[1]][p[2]] # None
    BY DEF Owing, Loaded
  <2>4. data' = [b \in Bingos |-> IF b \in BingosOf(event) THEN data[b] + 1 ELSE data[b]]
    BY <1>1 DEF Change, Changed
  <2>5. \A t \in Tabs, b \in Bingos : <<t, b>> \in pages <=> up /\ Owing(t, event, b)
    OBVIOUS
  <2>6. owed' = [t \in Tabs |-> [b \in Bingos |-> IF up /\ Owing(t, event, b) THEN data'[b] ELSE owed[t][b]]]
    BY <1>1 DEF Change, Broadcast
  <2>7. pages \in SUBSET (Tabs \X Bingos)
    OBVIOUS
  <2>8. seen' = seen
    BY <1>1 DEF Change, page
  <2> HIDE DEF pages
  <2>9. owed' = [t \in Tabs |-> [b \in Bingos |-> IF <<t, b>> \in pages THEN data'[b] ELSE owed[t][b]]]
    BY <2>5, <2>6
  <2>10. Pages!Owe(BingosOf(event), pages)
    BY <2>3, <2>4, <2>8, <2>9 DEF Pages!Owe
  <2> QED BY <2>2, <2>7, <2>10 DEF Pages!Next
<1>2. ASSUME NEW t \in Tabs, Connect(t) PROVE Pages!Next
  <2> DEFINE pages == {p \in Tabs \X Bingos : p[1] = t /\ hasConnected[t] /\ p[2] \in Loaded(t)}
  <2>1. {} \in SUBSET Bingos /\ pages \in SUBSET (Tabs \X Bingos)
    OBVIOUS
  <2>2. \A p \in pages : seen[p[1]][p[2]] # None
    BY DEF Loaded
  <2>3. data' = data /\ seen' = seen
    BY <1>2 DEF Connect, server, page
  <2>4. \A u \in Tabs, b \in Bingos : <<u, b>> \in pages <=> u = t /\ hasConnected[t] /\ b \in Loaded(t)
    OBVIOUS
  <2> HIDE DEF pages
  <2>5. data' = [b \in Bingos |-> IF b \in {} THEN data[b] + 1 ELSE data[b]]
    BY <2>3 DEF Kinds
  <2>6. \A u \in Tabs, b \in Bingos : owed'[u][b] = IF <<u, b>> \in pages THEN data'[b] ELSE owed[u][b]
    BY <1>2, <2>3, <2>4 DEF Connect, Kinds
  <2>7. owed' \in [Tabs -> [Bingos -> Nat]]
    BY KindsStep DEF Kinds
  <2>8. owed' = [u \in Tabs |-> [b \in Bingos |-> IF <<u, b>> \in pages THEN data'[b] ELSE owed[u][b]]]
    BY <2>6, <2>7
  <2>9. Pages!Owe({}, pages)
    BY <2>2, <2>3, <2>5, <2>8 DEF Pages!Owe
  <2> QED BY <2>1, <2>9 DEF Pages!Next
<1>3. ASSUME NEW t \in Tabs, NEW b \in Bingos, FetchLand(t, b) PROVE Pages!Next
  <2>1. fetch[t][b] \in Nat
    BY <1>3 DEF FetchLand, Kinds
  <2>2. fetch[t][b] \in 0..data[b] /\ (seen[t][b] # None => fetch[t][b] >= seen[t][b])
    BY <2>1 DEF AllInBounds, InBounds, Kinds
  <2>3. Pages!Show(t, b)
    BY <1>3, <2>2 DEF Pages!Show, FetchLand, server
  <2> QED BY <2>3 DEF Pages!Next
<1>4. ASSUME NEW t \in Tabs, NEW b \in Bingos, Leave(t, b) PROVE Pages!Next
  <2>1. Pages!Drop(t, b)
    BY <1>4 DEF Pages!Drop, Leave, server
  <2> QED BY <2>1 DEF Pages!Next
<1>5. CASE UNCHANGED <<data, seen, owed>>
  BY <1>5 DEF Pages!vars
<1>6. \A key \in Keys : Fire(key) => UNCHANGED <<data, seen, owed>>
  BY DEF Fire, page
<1>7. Stop \/ Start => UNCHANGED <<data, seen, owed>>
  BY DEF Stop, Start, page
<1>8. \A t \in Tabs : Lose(t) \/ HearWatch(t) \/ HearOpened(t) \/ HearEvent(t) \/ RefetchAfterReconnect(t)
                      => UNCHANGED <<data, seen, owed>>
  BY DEF Lose, HearWatch, HearOpened, HearEvent, RefetchAfterReconnect, server, page
<1>9. \A t \in Tabs, b \in Bingos : Visit(t, b) \/ FetchRead(t, b) => UNCHANGED <<data, seen, owed>>
  BY DEF Visit, FetchRead, server
<1>10. UNCHANGED vars => UNCHANGED <<data, seen, owed>>
  BY DEF vars, server, page
<1> QED BY <1>1, <1>2, <1>3, <1>4, <1>5, <1>6, <1>7, <1>8, <1>9, <1>10 DEF Next

\* broadcastCoalescing, ws, WebSocketContext: whatever is held, merged, narrowed or lost on the way, a page shows data
\* the Bingo had, and never goes back to older data: the steps of the live updates are steps of LivePages.
THEOREM PagesImplemented == Spec => Pages!Spec
<1>1. Init => Pages!Init
  BY DEF Init, Pages!Init
<1> QED BY <1>1, AlwaysInBounds, StepRefines, PTL DEF Spec, Pages!Spec

-----------------------------------------------------------------------------
(* No change is lost on its way. *)

\* A queued event on which t fetches b again.
EventQueued(t, b) == \E e \in Events : In(e, toTab[t]) /\ b \in BingosOf(e) /\ Refetches(t, e)

\* A held one, for a socket that will still want it whichever of its watch messages are heard first.
EventHeld(t, b, k) ==
    /\ open[t] /\ Holds(k)
    /\ t \in windows[k].held.to /\ b \in BingosOf(windows[k].held) /\ Refetches(t, windows[k].held)
    /\ watching[t] = None \/ b \in watching[t]
    /\ \A l : In(l, toServer[t]) => b \in l

Covered(t, b) ==
    \/ owed[t][b] <= seen[t][b]
    \/ ~open[t] \/ In(Opened, toTab[t]) \/ refetchDue[t]
    \/ fetch[t][b] = Asked
    \/ fetch[t][b] \in Nat /\ owed[t][b] <= fetch[t][b]
    \/ EventQueued(t, b)
    \/ \E k \in Keys : EventHeld(t, b, k)

AllCovered == \A t \in Tabs, b \in Bingos : seen[t][b] # None => Covered(t, b)


\* What covers a page goes on covering it unless it is taken away.
LEMMA StaysCovered ==
    ASSUME NEW t \in Tabs, NEW b \in Bingos, Covered(t, b),
           owed'[t][b] = owed[t][b], seen'[t][b] = seen[t][b],
           fetch'[t][b] = fetch[t][b] \/ fetch'[t][b] = Asked,
           ~open[t] => ~open'[t], refetchDue[t] => refetchDue'[t],
           \A x : In(x, toTab[t]) => In(x, toTab'[t]) \/ ~(x = Opened \/ (b \in BingosOf(x) /\ Refetches(t, x))),
           \A k \in Keys : EventHeld(t, b, k) => EventHeld(t, b, k)'
    PROVE  Covered(t, b)'
<1>1. EventQueued(t, b) => EventQueued(t, b)'
  BY DEF EventQueued
<1>2. (\E k \in Keys : EventHeld(t, b, k)) => \E k \in Keys : EventHeld(t, b, k)'
  OBVIOUS
<1> QED BY <1>1, <1>2 DEF Covered

LEMMA StaysHeld ==
    ASSUME NEW t \in Tabs, NEW b \in Bingos, NEW k \in Keys, EventHeld(t, b, k),
           windows' = windows, open'[t] = open[t], watching'[t] = watching[t],
           \A l : In(l, toServer'[t]) => In(l, toServer[t]) \/ b \in l
    PROVE  EventHeld(t, b, k)'
BY DEF EventHeld, Holds

\* A step that leaves a tab, its sockets and the windows alone.
LEMMA ElsewhereCovered ==
    ASSUME NEW t \in Tabs, NEW b \in Bingos, Covered(t, b),
           owed'[t][b] = owed[t][b], seen'[t][b] = seen[t][b], fetch'[t][b] = fetch[t][b],
           open'[t] = open[t], refetchDue'[t] = refetchDue[t], toTab'[t] = toTab[t],
           windows' = windows, watching'[t] = watching[t],
           \A l : In(l, toServer'[t]) => In(l, toServer[t]) \/ b \in l
    PROVE  Covered(t, b)'
<1>1. \A k \in Keys : EventHeld(t, b, k) => EventHeld(t, b, k)'
  BY StaysHeld
<1> QED BY <1>1, StaysCovered

\* What a change owes is on its way.
LEMMA OwedIsCovered ==
    ASSUME Kinds, NEW event \in Occurring, up, Change(event), NEW t \in Tabs, NEW b \in Bingos, Owing(t, event, b)
    PROVE  EventQueued(t, b)' \/ \E k \in Keys : EventHeld(t, b, k)'
<1>1. event \in Events
  BY OccurringAssumption
<1>2. Wants(t, event) /\ b \in BingosOf(event) /\ Refetches(t, event) /\ toServer[t] = <<>>
  BY DEF Owing
<1>3. CASE GoesOut(windows, event)
  <2>1. toTab' = Delivered(event)
    BY <1>3 DEF Change, Broadcast
  <2>2. In(event, toTab'[t])
    BY <1>1, <1>2, <2>1, Delivers DEF Kinds
  <2> QED BY <1>1, <1>2, <2>2 DEF EventQueued
<1>4. CASE ~GoesOut(windows, event)
  <2> DEFINE k == WindowKey(event)
  <2>1. windows' = Pushed(windows, event) /\ UNCHANGED <<open, watching, toServer>>
    BY DEF Change, Broadcast
  <2>2. /\ k \in Keys /\ Holds(k)' /\ event.to \subseteq windows'[k].held.to
        /\ event.type = "access_changed" => event.names \subseteq windows'[k].held.names
    BY <1>4, <2>1, PushKeeps DEF Kinds
  <2>3. KeysHold'
    BY KindsStep DEF Kinds, Next
  <2>4. WindowKey(windows'[k].held) = WindowKey(event)
    BY <2>2, <2>3 DEF KeysHold
  <2>5. windows'[k].held.bingo = event.bingo /\ windows'[k].held.type = event.type
    BY <2>4 DEF WindowKey
  <2>6. event.bingo # None
    BY <1>4 DEF GoesOut, IsHeld
  <2>7. b = event.bingo /\ open[t] /\ t \in event.to /\ (watching[t] = None \/ b \in watching[t])
    BY <1>2, <2>6 DEF Wants, BingosOf
  <2>8. b \in BingosOf(windows'[k].held) /\ Refetches(t, windows'[k].held)
    BY <1>2, <2>2, <2>5 DEF BingosOf, Refetches
  <2>9. \A l : ~In(l, toServer[t])
    BY <1>2, EmptyQueue
  <2> HIDE DEF k
  <2>10. EventHeld(t, b, k)'
    BY <2>1, <2>2, <2>7, <2>8, <2>9 DEF EventHeld
  <2> QED BY <2>2, <2>10
<1> QED BY <1>3, <1>4

LEMMA ChangeCovers ==
    ASSUME Kinds, NEW event \in Occurring, Change(event), NEW t \in Tabs, NEW b \in Bingos, Covered(t, b)
    PROVE  Covered(t, b)'
<1>1. event \in Events
  BY OccurringAssumption
<1>2. CASE up /\ Owing(t, event, b)
  BY <1>2, OwedIsCovered DEF Covered
<1>3. CASE ~(up /\ Owing(t, event, b))
  <2>1. owed'[t][b] = owed[t][b] /\ UNCHANGED <<open, watching, toServer, seen, fetch, refetchDue>>
    BY <1>3 DEF Change, Broadcast, page
  <2>2. \A x : In(x, toTab[t]) => In(x, toTab'[t])
    <3>1. CASE toTab' = Delivered(event)
      BY <1>1, <3>1, Delivers DEF Kinds
    <3>2. CASE toTab' = toTab
      BY <3>2
    <3> QED BY <3>1, <3>2 DEF Change, Broadcast
  <2>3. ASSUME NEW k \in Keys, EventHeld(t, b, k) PROVE EventHeld(t, b, k)'
    <3>1. CASE windows' = windows
      BY <2>1, <2>3, <3>1, StaysHeld
    <3>2. CASE windows' = Pushed(windows, event)
      <4>1. /\ KeysHold' /\ Holds(k) /\ Holds(k)' /\ windows[k].held.to \subseteq windows'[k].held.to
            /\ windows[k].held.type = "access_changed" => windows[k].held.names \subseteq windows'[k].held.names
        BY <2>3, <3>2, PushKeeps DEF Kinds, EventHeld
      <4>2. WindowKey(windows[k].held) = WindowKey(windows'[k].held)
        BY <4>1 DEF Kinds, KeysHold
      <4>3. windows[k].held.bingo = windows'[k].held.bingo /\ windows[k].held.type = windows'[k].held.type
        BY <4>2 DEF WindowKey
      <4>4. b \in BingosOf(windows'[k].held) /\ Refetches(t, windows'[k].held)
        BY <2>3, <4>1, <4>3 DEF EventHeld, BingosOf, Refetches
      <4> QED BY <2>1, <2>3, <4>1, <4>4 DEF EventHeld
    <3> QED BY <3>1, <3>2 DEF Change, Broadcast
  <2> QED BY <2>1, <2>2, <2>3, StaysCovered
<1> QED BY <1>2, <1>3

\* What a window gives up, it sends.
LEMMA FireCovers ==
    ASSUME Kinds, NEW key \in Keys, Fire(key), NEW t \in Tabs, NEW b \in Bingos, Covered(t, b)
    PROVE  Covered(t, b)'
<1>1. UNCHANGED <<open, watching, toServer, seen, fetch, refetchDue, owed>>
  BY DEF Fire, page
<1>2. \A x : In(x, toTab[t]) => In(x, toTab'[t])
  <2>1. CASE windows[key].held = None
    BY <2>1 DEF Fire
  <2>2. CASE windows[key].held # None
    <3>1. windows[key].held \in Events /\ toTab' = Delivered(windows[key].held)
      BY <2>2 DEF Fire, Kinds, KeysHold, Holds
    <3> QED BY <3>1, Delivers DEF Kinds
  <2> QED BY <2>1, <2>2
<1>3. CASE EventHeld(t, b, key)
  <2>1. PICK e : e = windows[key].held
    OBVIOUS
  <2>2. e \in Events /\ toTab' = Delivered(e)
    BY <1>3, <2>1 DEF Fire, Kinds, KeysHold, EventHeld, Holds
  <2>3. Wants(t, e)
    BY <1>3, <2>1 DEF EventHeld, Wants, BingosOf
  <2>4. In(e, toTab'[t])
    BY <2>2, <2>3, Delivers DEF Kinds
  <2>5. b \in BingosOf(e) /\ Refetches(t, e)
    BY <1>3, <2>1 DEF EventHeld
  <2>6. EventQueued(t, b)'
    BY <2>2, <2>4, <2>5 DEF EventQueued
  <2> QED BY <2>6 DEF Covered
<1>4. CASE ~EventHeld(t, b, key)
  <2>1. ASSUME NEW k \in Keys, EventHeld(t, b, k) PROVE EventHeld(t, b, k)'
    <3>1. k # key /\ windows'[k] = windows[k]
      BY <1>4, <2>1, FireKeeps DEF Fire, Kinds
    <3> QED BY <1>1, <2>1, <3>1 DEF EventHeld, Holds
  <2> QED BY <1>1, <1>2, <2>1, StaysCovered
<1> QED BY <1>3, <1>4

\* A tab that hears it is connected again is to fetch everything again, and one that never was is owed nothing.
LEMMA OpenedCovers ==
    ASSUME Kinds, AllInBounds, NEW t \in Tabs, HearOpened(t), NEW b \in Bingos, seen[t][b] # None
    PROVE  Covered(t, b)'
<1>1. seen' = seen /\ owed' = owed /\ seen[t][b] \in Nat /\ owed[t][b] \in Nat
  BY DEF HearOpened, server, Kinds
<1>2. CASE hasConnected[t]
  <2>1. refetchDue'[t]
    BY <1>2 DEF HearOpened, Kinds
  <2> QED BY <2>1 DEF Covered
<1>3. CASE ~hasConnected[t]
  <2>1. owed[t][b] = 0
    BY <1>3 DEF AllInBounds, InBounds
  <2> QED BY <1>1, <2>1 DEF Covered
<1> QED BY <1>2, <1>3

LEMMA HeardCovers ==
    ASSUME Kinds, NEW t \in Tabs, HearEvent(t), NEW b \in Bingos, seen[t][b] # None, Covered(t, b)
    PROVE  Covered(t, b)'
<1> DEFINE event == Head(toTab[t])
<1>1. /\ UNCHANGED <<owed, seen, open, refetchDue, watching, toServer, windows>>
      /\ toTab'[t] = Tail(toTab[t])
      /\ event # Opened
  BY DEF HearEvent, server, Kinds
<1>2. CASE Refetches(t, event) /\ b \in BingosOf(event)
  <2>1. fetch'[t][b] = Asked
    BY <1>2 DEF HearEvent, FetchAgain, Loaded, Kinds
  <2> QED BY <2>1 DEF Covered
<1>3. CASE ~(Refetches(t, event) /\ b \in BingosOf(event))
  <2>1. fetch'[t][b] = fetch[t][b] \/ fetch'[t][b] = Asked
    BY DEF HearEvent, FetchAgain, Kinds
  <2>2. \A x : In(x, toTab[t]) => x = event \/ In(x, toTab'[t])
    BY <1>1, Tailed DEF HearEvent, Kinds
  <2>3. \A k \in Keys : EventHeld(t, b, k) => EventHeld(t, b, k)'
    BY <1>1, StaysHeld
  <2> HIDE DEF event
  <2>4. \A x : In(x, toTab[t]) => In(x, toTab'[t]) \/ ~(x = Opened \/ (b \in BingosOf(x) /\ Refetches(t, x)))
    BY <1>1, <1>3, <2>2
  <2> QED BY <1>1, <2>1, <2>3, <2>4, StaysCovered
<1> QED BY <1>2, <1>3

LEMMA WatchCovers ==
    ASSUME Kinds, NEW u \in Tabs, HearWatch(u), NEW t \in Tabs, NEW b \in Bingos, Covered(t, b)
    PROVE  Covered(t, b)'
<1>1. UNCHANGED <<owed, seen, fetch, open, refetchDue, windows, toTab>>
  BY DEF HearWatch, server, page
<1>2. CASE t # u
  <2>1. watching'[t] = watching[t] /\ toServer'[t] = toServer[t]
    BY <1>2 DEF HearWatch, Kinds
  <2> QED BY <1>1, <2>1, ElsewhereCovered
<1>3. CASE t = u
  <2>1. watching'[t] = Head(toServer[t]) /\ toServer'[t] = Tail(toServer[t])
    BY <1>3 DEF HearWatch, Kinds
  <2>2. \A x : In(x, toServer[t]) <=> x = Head(toServer[t]) \/ In(x, Tail(toServer[t]))
    BY <1>3, Tailed DEF HearWatch, Kinds
  <2>3. ASSUME NEW k \in Keys, EventHeld(t, b, k) PROVE EventHeld(t, b, k)'
    BY <1>1, <2>1, <2>2, <2>3 DEF EventHeld, Holds
  <2> QED BY <1>1, <2>3, StaysCovered
<1> QED BY <1>2, <1>3

\* Data that lands is what its page was to show, or what covers the page is not the fetch.
LEMMA LandCovers ==
    ASSUME Kinds, AllInBounds, NEW u \in Tabs, NEW c \in Bingos, FetchLand(u, c),
           NEW t \in Tabs, NEW b \in Bingos, seen'[t][b] # None, seen[t][b] # None => Covered(t, b)
    PROVE  Covered(t, b)'
<1>1. UNCHANGED <<owed, open, refetchDue, windows, watching, toTab>>
  BY DEF FetchLand, server
<1>2. \A l : In(l, toServer'[t]) => In(l, toServer[t]) \/ (u = t /\ l = Loaded(u) \cup {c})
  <2>1. PICK list : list = Loaded(u) \cup {c}
    OBVIOUS
  <2>2. list \in SUBSET Bingos /\ ShellsChanged(u, list)
    BY <2>1 DEF FetchLand, Loaded
  <2>3. toServer \in [Tabs -> Seq(SUBSET Bingos)]
    BY DEF Kinds
  <2>4. \A v \in Tabs : \A l : In(l, toServer'[v]) => In(l, toServer[v]) \/ (v = u /\ l = list)
    BY <2>2, <2>3, ShellsSent, Zenon
  <2> QED BY <2>1, <2>4
<1>3. CASE <<u, c>> = <<t, b>>
  <2>1. fetch[t][b] \in Nat /\ fetch[t][b] # Asked /\ seen'[t][b] = fetch[t][b] /\ owed[t][b] \in Nat
    BY <1>3 DEF FetchLand, Kinds
  <2>2. CASE seen[t][b] = None
    BY <1>1, <2>1, <2>2 DEF Covered, AllInBounds, InBounds
  <2>3. CASE seen[t][b] # None
    <3>1. Covered(t, b) /\ seen[t][b] \in Nat /\ seen[t][b] <= fetch[t][b]
      BY <2>1, <2>3 DEF AllInBounds, InBounds, Kinds
    <3>2. ASSUME NEW k \in Keys, EventHeld(t, b, k) PROVE EventHeld(t, b, k)'
      BY <1>1, <1>2, <1>3, <3>2, StaysHeld
    <3>3. EventQueued(t, b) => EventQueued(t, b)'
      BY <1>1 DEF EventQueued
    <3>4. owed[t][b] <= seen[t][b] => owed'[t][b] <= seen'[t][b]
      BY <1>1, <2>1, <3>1
    <3>5. (fetch[t][b] \in Nat /\ owed[t][b] <= fetch[t][b]) => owed'[t][b] <= seen'[t][b]
      BY <1>1, <2>1
    <3> QED BY <1>1, <2>1, <3>1, <3>2, <3>3, <3>4, <3>5 DEF Covered
  <2> QED BY <2>2, <2>3
<1>4. CASE <<u, c>> # <<t, b>>
  <2>1. seen'[t][b] = seen[t][b] /\ fetch'[t][b] = fetch[t][b]
    BY <1>4 DEF FetchLand, Kinds
  <2>2. \A l : In(l, toServer'[t]) => In(l, toServer[t]) \/ b \in l
    BY <1>2, <2>1 DEF Loaded
  <2> QED BY <1>1, <2>1, <2>2, ElsewhereCovered
<1> QED BY <1>3, <1>4

LEMMA LeaveCovers ==
    ASSUME Kinds, NEW u \in Tabs, NEW c \in Bingos, Leave(u, c),
           NEW t \in Tabs, NEW b \in Bingos, seen'[t][b] # None, seen[t][b] # None => Covered(t, b)
    PROVE  Covered(t, b)'
<1>1. UNCHANGED <<fetch, open, refetchDue, windows, watching, toTab>>
  BY DEF Leave, server
<1>2. <<u, c>> # <<t, b>>
  BY DEF Leave, Kinds
<1>3. seen'[t][b] = seen[t][b] /\ owed'[t][b] = owed[t][b]
  BY <1>2 DEF Leave, Kinds
<1>4. \A l : In(l, toServer'[t]) => In(l, toServer[t]) \/ (u = t /\ l = Loaded(u) \ {c})
  <2>1. PICK list : list = Loaded(u) \ {c}
    OBVIOUS
  <2>2. list \in SUBSET Bingos /\ ShellsChanged(u, list)
    BY <2>1 DEF Leave, Loaded
  <2>3. toServer \in [Tabs -> Seq(SUBSET Bingos)]
    BY DEF Kinds
  <2>4. \A v \in Tabs : \A l : In(l, toServer'[v]) => In(l, toServer[v]) \/ (v = u /\ l = list)
    BY <2>2, <2>3, ShellsSent, Zenon
  <2> QED BY <2>1, <2>4
<1>5. \A l : In(l, toServer'[t]) => In(l, toServer[t]) \/ b \in l
  BY <1>2, <1>3, <1>4 DEF Loaded
<1> QED BY <1>1, <1>3, <1>5, ElsewhereCovered

LEMMA CoveredStep == ASSUME Kinds, AllInBounds, AllCovered, [Next]_vars PROVE AllCovered'
<1> SUFFICES ASSUME NEW t \in Tabs, NEW b \in Bingos, seen'[t][b] # None PROVE Covered(t, b)'
  BY DEF AllCovered
<1>1. seen[t][b] # None => Covered(t, b)
  BY DEF AllCovered
<1>2. ASSUME NEW event \in Occurring, Change(event) PROVE Covered(t, b)'
  BY <1>1, <1>2, ChangeCovers DEF Change, page
<1>3. ASSUME NEW key \in Keys, Fire(key) PROVE Covered(t, b)'
  BY <1>1, <1>3, FireCovers DEF Fire, page
<1>4. ASSUME Stop PROVE Covered(t, b)'
  BY <1>4 DEF Stop, Covered
<1>5. ASSUME Start PROVE Covered(t, b)'
  BY <1>1, <1>5, ElsewhereCovered DEF Start, sockets, page
<1>6. ASSUME NEW u \in Tabs, Connect(u) PROVE Covered(t, b)'
  <2>1. CASE u = t
    <3>1. toTab'[t] = <<Opened>>
      BY <1>6, <2>1 DEF Connect, Kinds
    <3> QED BY <3>1, OneQueued DEF Covered
  <2>2. CASE u # t
    <3>1. /\ UNCHANGED <<seen, fetch, refetchDue, windows, watching, toServer>>
          /\ owed'[t] = owed[t] /\ open'[t] = open[t] /\ toTab'[t] = toTab[t]
      BY <1>6, <2>2 DEF Connect, server, page, Kinds
    <3> QED BY <1>1, <3>1, ElsewhereCovered
  <2> QED BY <2>1, <2>2
<1>7. ASSUME NEW u \in Tabs, Lose(u) PROVE Covered(t, b)'
  <2>1. CASE u = t
    BY <1>7, <2>1 DEF Lose, Covered, Kinds
  <2>2. CASE u # t
    <3>1. /\ UNCHANGED <<seen, fetch, refetchDue, windows, owed>>
          /\ watching'[t] = watching[t] /\ toServer'[t] = toServer[t] /\ open'[t] = open[t] /\ toTab'[t] = toTab[t]
      BY <1>7, <2>2 DEF Lose, server, page, Kinds
    <3> QED BY <1>1, <3>1, ElsewhereCovered
  <2> QED BY <2>1, <2>2
<1>8. ASSUME NEW u \in Tabs, HearWatch(u) PROVE Covered(t, b)'
  BY <1>1, <1>8, WatchCovers DEF HearWatch, page
<1>9. ASSUME NEW u \in Tabs, HearOpened(u) PROVE Covered(t, b)'
  <2>1. CASE u = t
    BY <1>9, <2>1, OpenedCovers DEF HearOpened
  <2>2. CASE u # t
    <3>1. /\ UNCHANGED <<seen, fetch, windows, owed, watching, open>>
          /\ refetchDue'[t] = refetchDue[t] /\ toTab'[t] = toTab[t]
      BY <1>9, <2>2 DEF HearOpened, server, Kinds
    <3>2. \A l : In(l, toServer'[t]) => In(l, toServer[t])
      BY <1>9, <2>2, Sent DEF HearOpened, Kinds, Loaded
    <3> QED BY <1>1, <3>1, <3>2, ElsewhereCovered
  <2> QED BY <2>1, <2>2
<1>10. ASSUME NEW u \in Tabs, HearEvent(u) PROVE Covered(t, b)'
  <2>1. CASE u = t
    BY <1>1, <1>10, <2>1, HeardCovers DEF HearEvent
  <2>2. CASE u # t
    <3>1. /\ UNCHANGED <<seen, windows, owed, watching, open, refetchDue, toServer>>
          /\ toTab'[t] = toTab[t] /\ fetch'[t] = fetch[t]
      BY <1>10, <2>2 DEF HearEvent, server, Kinds
    <3> QED BY <1>1, <3>1, ElsewhereCovered
  <2> QED BY <2>1, <2>2
<1>11. ASSUME NEW u \in Tabs, RefetchAfterReconnect(u) PROVE Covered(t, b)'
  <2>1. CASE u = t
    <3>1. fetch'[t][b] = Asked
      BY <1>11, <2>1 DEF RefetchAfterReconnect, FetchAgain, Loaded, Kinds
    <3> QED BY <3>1 DEF Covered
  <2>2. CASE u # t
    <3>1. /\ UNCHANGED <<seen, windows, owed, watching, open, toTab, toServer>>
          /\ refetchDue'[t] = refetchDue[t] /\ fetch'[t] = fetch[t]
      BY <1>11, <2>2 DEF RefetchAfterReconnect, server, sockets, Kinds
    <3> QED BY <1>1, <3>1, ElsewhereCovered
  <2> QED BY <2>1, <2>2
<1>12. ASSUME NEW u \in Tabs, NEW c \in Bingos, Visit(u, c) PROVE Covered(t, b)'
  <2>1. /\ UNCHANGED <<seen, windows, owed, watching, open, toTab, toServer, refetchDue>>
        /\ fetch'[t][b] = fetch[t][b] \/ fetch'[t][b] = Asked
    BY <1>12 DEF Visit, server, sockets, Kinds
  <2>2. \A k \in Keys : EventHeld(t, b, k) => EventHeld(t, b, k)'
    BY <2>1, StaysHeld
  <2> QED BY <1>1, <2>1, <2>2, StaysCovered
<1>13. ASSUME NEW u \in Tabs, NEW c \in Bingos, FetchRead(u, c) PROVE Covered(t, b)'
  <2>1. UNCHANGED <<seen, windows, owed, watching, open, toTab, toServer, refetchDue>>
    BY <1>13 DEF FetchRead, server, sockets
  <2>2. CASE fetch'[t][b] = fetch[t][b]
    BY <1>1, <2>1, <2>2, ElsewhereCovered
  <2>3. CASE fetch'[t][b] = data[b]
    BY <2>1, <2>3 DEF Covered, Kinds, AllInBounds, InBounds
  <2>4. fetch'[t][b] = fetch[t][b] \/ fetch'[t][b] = data[b]
    BY <1>13 DEF FetchRead, Kinds
  <2> QED BY <2>2, <2>3, <2>4
<1>14. ASSUME NEW u \in Tabs, NEW c \in Bingos, FetchLand(u, c) PROVE Covered(t, b)'
  BY <1>1, <1>14, LandCovers
<1>15. ASSUME NEW u \in Tabs, NEW c \in Bingos, Leave(u, c) PROVE Covered(t, b)'
  BY <1>1, <1>15, LeaveCovers
<1>16. CASE UNCHANGED vars
  BY <1>1, <1>16, ElsewhereCovered DEF vars, server, sockets, page
<1> QED BY <1>2, <1>3, <1>4, <1>5, <1>6, <1>7, <1>8, <1>9, <1>10, <1>11, <1>12, <1>13, <1>14, <1>15, <1>16 DEF Next

\* createCoalescer, ws, WebSocketContext: whatever is held, merged, narrowed or lost with a socket, a page that has
\* settled shows every change it was to hear of.
THEOREM ChangesReachPages == Spec => []NoneLost
<1>1. Init => AllCovered
  BY DEF Init, AllCovered
<1>2. ASSUME Kinds, AllCovered PROVE NoneLost
  <2> SUFFICES ASSUME NEW t \in Tabs, NEW b \in Bingos, seen[t][b] # None, Quiet(t, b)
               PROVE  seen[t][b] >= owed[t][b]
    BY DEF NoneLost
  <2>1. Covered(t, b) /\ seen[t][b] \in Nat /\ owed[t][b] \in Nat
    BY <1>2 DEF AllCovered, Kinds
  <2>2. ~EventQueued(t, b) /\ ~In(Opened, toTab[t])
    BY EmptyQueue DEF Quiet, EventQueued
  <2>3. \A k \in Keys : ~EventHeld(t, b, k)
    BY DEF Quiet, EventHeld, Holds
  <2>4. owed[t][b] <= seen[t][b]
    BY <2>1, <2>2, <2>3, NoneAssumption, FetchAssumption DEF Covered, Quiet
  <2> QED BY <2>1, <2>4
<1> QED BY <1>1, <1>2, Starts, KindsStep, BoundsStep, CoveredStep, PTL DEF Spec
=============================================================================

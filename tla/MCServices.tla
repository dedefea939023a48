----------------------------- MODULE MCServices -----------------------------
(* For TLC, the services that run beside a Bingo: reading screenshots       *)
(* (OcrReader), the Discord team sync, the Wise Old Man competition and the *)
(* reads of Players' snapshots, the stats that are kept, and the MCP        *)
(* server's sign-in. They share no state but what they read of the Bingo,   *)
(* so each behaviour is one service's and the others stay as they began.    *)
EXTENDS McpAuth, FiniteSets

CONSTANTS
    Callers, Images, CloudSlots, LocalSlots, Cooldown, Ttl, MaxEntries, MaxOcrTime,
    DiscordTeams, Players, Names, Gone, MaxObjects, MaxChanges, MaxFaults,
    Titles, Rosters, Nobody, TwoWeeks, MaxWomTime, MaxCalls,
    Bingos, KeptFor, MaxStatsTime, MaxUntold,
    Readers, Accounts, Lookback, UpdateDelay, Grace, MaxReadTime, MaxUpsets

VARIABLES
    running,        \* the service this behaviour is of
    ocrNow, wants, waitsFor, kept, inFlight, at, startedAt, skipUntil, failedAt, cloud, local,
    teams, enabled, error, rows, guild, queue, job, timers, lost, unasked, tampered, discordChanges, discordFaults,
    womNow, name, end, roster, drafting, competition, failed, wom, calls, apart, womChanges, womFaults,
    statsNow, listening, data, untold, keptStats, told,
    readClock, stage, moved, wentLive, ended, rsn, snapshots, reads, stored, claimed, pending, reading, limited, upsets

Ocr == INSTANCE OcrReader WITH now <- ocrNow, MaxTime <- MaxOcrTime
Discord == INSTANCE MCDiscordSync WITH Teams <- DiscordTeams, changes <- discordChanges, faults <- discordFaults
Wom == INSTANCE WomCompetition WITH Names <- Titles, now <- womNow, changes <- womChanges, faults <- womFaults, MaxTime <- MaxWomTime
Stats == INSTANCE StatsCache WITH now <- statsNow, kept <- keptStats, MaxTime <- MaxStatsTime
Reads == INSTANCE WomReads
    WITH Players <- Readers, clock <- readClock, wom <- snapshots, running <- reading, MaxTime <- MaxReadTime

ASSUME ServicesAssumption ==
    /\ Ocr!Assumption /\ Discord!Assumption /\ Wom!Assumption /\ Stats!Assumption /\ Reads!Assumption
    /\ {MaxObjects, MaxStatsTime, MaxUntold, MaxTime, MaxSecrets} \subseteq Nat

discordVars == <<teams, enabled, error, rows, guild, queue, job, timers, lost, unasked, tampered, discordChanges, discordFaults>>
womVars == <<womNow, name, end, roster, drafting, competition, failed, wom, calls, apart, womChanges, womFaults>>
statsVars == <<statsNow, listening, data, untold, keptStats, told>>
ocrVars == <<ocrNow, wants, waitsFor, kept, inFlight, at, startedAt, skipUntil, failedAt, cloud, local>>
readsVars ==
    <<readClock, stage, moved, wentLive, ended, rsn, snapshots, reads, stored, claimed, pending, reading, limited, upsets>>
allVars == <<running, vars, ocrVars, discordVars, womVars, statsVars, readsVars>>

MCInit ==
    /\ running \in {"ocr", "discord", "wom", "stats", "reads", "mcp"}
    /\ Init /\ Ocr!Init /\ Stats!Init
    \* Which account is whose does not matter.
    /\ Reads!Init /\ rsn = CHOOSE names \in [Readers -> Accounts] : \A p, q \in Readers : p # q => names[p] # names[q]
    /\ IF running = "discord" THEN Discord!MCInit ELSE Discord!Init
    /\ Wom!Init /\ (running # "wom" => end = None /\ name = CHOOSE t \in Titles : TRUE)
    /\ running # "stats" => listening

MCNext ==
    /\ UNCHANGED running
    /\ \/ running = "mcp"     /\ Next         /\ UNCHANGED <<ocrVars, discordVars, womVars, statsVars, readsVars>>
       \/ running = "ocr"     /\ Ocr!Next     /\ UNCHANGED <<vars, discordVars, womVars, statsVars, readsVars>>
       \/ running = "discord" /\ Discord!Next /\ UNCHANGED <<vars, ocrVars, womVars, statsVars, readsVars>>
       \/ running = "wom"     /\ Wom!Next     /\ UNCHANGED <<vars, ocrVars, discordVars, statsVars, readsVars>>
       \/ running = "stats"   /\ Stats!Next   /\ UNCHANGED <<vars, ocrVars, discordVars, womVars, readsVars>>
       \/ running = "reads"   /\ Reads!Next   /\ UNCHANGED <<vars, ocrVars, discordVars, womVars, statsVars>>

MCSpec == MCInit /\ [][MCNext]_allVars

ReadOnce == Ocr!ReadOnce
LeftAlone == Ocr!LeftAlone
InPlace == Discord!InPlace
NothingForgotten == Discord!NothingForgotten
KeptInSync == Wom!KeptInSync
KeptCurrent == Stats!KeptCurrent
TimelineWhole == Reads!TimelineWhole

\* Callers and images are interchangeable: only the behaviours in which they come up in order are explored.
InOrder ==
    \A c \in Callers : wants[c] # <<>> =>
        /\ \A d \in Callers : d < c => wants[d] # <<>>
        /\ wants[c].image <= 1 + Cardinality({wants[d].image : d \in {e \in Callers : e < c}})
=============================================================================

----------------------------- MODULE MCProgress -----------------------------
(* Lifecycle, OcrReader and WomReads for TLC, side by side: the components  *)
(* whose schedulers have to get on with their work. Each behaviour is one   *)
(* component's, and the others stay as they began.                          *)
EXTENDS Lifecycle, FiniteSets

CONSTANTS Callers, Images, CloudSlots, LocalSlots, Cooldown, Ttl, MaxEntries, MaxOcrTime,
    Players, Accounts, Lookback, UpdateDelay, Grace, MaxReadTime, MaxUpsets

VARIABLES
    component,      \* the component this behaviour is of
    now, wants, waitsFor, kept, inFlight, at, startedAt, skipUntil, failedAt, cloud, local,
    readClock, readStage, moved, wentLive, ended, rsn, wom, reads, stored, claimed, pending, running, limited, upsets

Ocr == INSTANCE OcrReader WITH MaxTime <- MaxOcrTime
Reads == INSTANCE WomReads WITH MaxTime <- MaxReadTime, clock <- readClock, stage <- readStage

ocrVars == <<now, wants, waitsFor, kept, inFlight, at, startedAt, skipUntil, failedAt, cloud, local>>
readsVars ==
    <<readClock, readStage, moved, wentLive, ended, rsn, wom, reads, stored, claimed, pending, running, limited, upsets>>
allVars == <<vars, ocrVars, readsVars, component>>

\* An action of this component, in its behaviours.
OfLifecycle(A) == component = "lifecycle" /\ A /\ UNCHANGED <<ocrVars, readsVars, component>>
OfOcr(A) == component = "ocr" /\ A /\ UNCHANGED <<vars, readsVars, component>>
OfReads(A) == component = "reads" /\ A /\ UNCHANGED <<vars, ocrVars, component>>

MCInit == component \in {"lifecycle", "ocr", "reads"} /\ Init /\ Ocr!Init /\ Reads!Init

\* Callers and images are interchangeable: only the behaviours in which they come up in order are explored.
InOrder ==
    \A c \in Callers : wants[c] # <<>> =>
        /\ \A d \in Callers : d < c => wants[d] # <<>>
        /\ wants[c].image <= 1 + Cardinality({wants[d].image : d \in {e \in Callers : e < c}})

MCNext == OfLifecycle(Next) \/ OfOcr(Ocr!Next /\ InOrder') \/ OfReads(Reads!Next)

MCFairness ==
    /\ \A s \in Servers : WF_allVars(OfLifecycle(RoundReads(s))) /\ SF_allVars(OfLifecycle(RoundStarts(s)))
    /\ \A j \in Callers :
        /\ WF_allVars(OfOcr(Ocr!CloudEnds(j)))
        /\ WF_allVars(OfOcr(Ocr!GiveUp(j)))
        /\ WF_allVars(OfOcr(Ocr!HangUp(j)))
        /\ WF_allVars(OfOcr(\E read \in BOOLEAN : Ocr!LocalEnds(j, read)))
    /\ WF_allVars(OfReads(Reads!Round))
    /\ WF_allVars(OfReads(Reads!Take))
    /\ WF_allVars(OfReads(Reads!Begin))
    /\ WF_allVars(OfReads(Reads!LimitEnds))
    /\ \A p \in Players : SF_allVars(OfReads(Reads!Answer(p)))

MCSpec == MCInit /\ [][MCNext]_allVars /\ MCFairness

EveryoneAnswered == Ocr!EveryoneAnswered
FinalReads == Reads!FinalReads
=============================================================================

----------------------------- MODULE OcrReader ------------------------------
(***************************************************************************)
(* Reading the text in screenshots (ocr, ocrText, ocrScheduler, ocrClient, *)
(* ocrApp, ocrEngine), as in production: the API keeps what was read and   *)
(* shares a reading under way, reads with Cloud Vision first, a few at a   *)
(* time, and otherwise sends the screenshot to the OCR service, which      *)
(* reads a few at a time too and forgets a waiting one its caller has      *)
(* given up on. While Cloud Vision is failing it is left alone for a while *)
(* and everything goes to the service.                                     *)
(*                                                                         *)
(* A reading is named after the caller it was started for. The promise     *)
(* callbacks that follow one event run together, before any other event.   *)
(* What was read is left out; so are timeouts' lengths: an unanswered      *)
(* request may time out whenever it is under way.                          *)
(***************************************************************************)
EXTENDS Limiter

CONSTANTS
    Callers,        \* requests for an analysis, each of one screenshot
    Images,
    None,           \* no reading
    CloudSlots,     \* CLOUD_VISION_CONCURRENCY
    LocalSlots,     \* OCR_CONCURRENCY
    Cooldown,       \* cooldownMs
    Ttl,            \* ttlMs
    MaxEntries,     \* maxEntries
    MaxTime         \* bound: how far the clock goes

\* What is assumed of them.
Assumption == None \notin Callers /\ {CloudSlots, LocalSlots, Cooldown, Ttl, MaxEntries, MaxTime} \subseteq Nat \ {0}

VARIABLES
    now,
    wants,          \* who has asked, for what and how urgently
    waitsFor,       \* the reading whose end each caller waits for
    kept,           \* done: what was read, the least recently used first
    inFlight,       \* inFlight: the reading of each image, if one is under way
    at,             \* where each reading is
    startedAt,      \* when withFallback took it to Cloud Vision
    skipUntil,
    failedAt,
    cloud,          \* cloudVisionLimiter
    local           \* the service's limiter

vars == <<now, wants, waitsFor, kept, inFlight, at, startedAt, skipUntil, failedAt, cloud, local>>

\* "cloud" and "local": waiting or being read there. "sent": on its way to the service. "lost": the service was
\* restarted under it. "left": the API has given up on it and the service still has it.
Places == {"none", "cloud", "sent", "local", "lost", "left", "over"}
UnderWay == {"cloud", "sent", "local", "lost"}
Wishes == [image : Images, priority : Priorities]

TypeOK ==
    /\ now \in 1..MaxTime
    /\ wants \in [Callers -> Wishes \cup {<<>>}]
    /\ waitsFor \in [Callers -> Callers \cup {None}]
    /\ kept \in Seq([image : Images, until : Nat])
    /\ inFlight \in [Images -> Callers \cup {None}]
    /\ at \in [Callers -> Places]
    /\ startedAt \in [Callers -> Nat]
    /\ skipUntil \in Nat
    /\ failedAt \in Nat
    /\ cloud \in Limiters(Callers) /\ local \in Limiters(Callers)
    /\ \A j \in Callers :
        /\ (j \in cloud.running \cup InQueue(cloud)) = (at[j] = "cloud")
        /\ (j \in local.running \cup InQueue(local)) = (at[j] \in {"local", "left"})

Init ==
    /\ now = 1
    /\ wants = [c \in Callers |-> <<>>]
    /\ waitsFor = [c \in Callers |-> None]
    /\ kept = <<>>
    /\ inFlight = [i \in Images |-> None]
    /\ at = [c \in Callers |-> "none"]
    /\ startedAt = [c \in Callers |-> 0]
    /\ skipUntil = 0
    /\ failedAt = 0
    /\ cloud = EmptyLimiter
    /\ local = EmptyLimiter

-----------------------------------------------------------------------------
(* createResultCache *)

Without(list, image) == RemoveFirstMatch(list, LAMBDA k : k.image = image)

IsKept(i) == \E n \in DOMAIN kept : kept[n].image = i /\ kept[n].until > now
KeptOf(i) == kept[CHOOSE n \in DOMAIN kept : kept[n].image = i]

\* The least recently used go once there are too many.
Newest(list) == SubSeq(list, IF Len(list) > MaxEntries THEN Len(list) - MaxEntries + 1 ELSE 1, Len(list))
Keep(i) == Newest(Append(Without(kept, i), [image |-> i, until |-> now + Ttl]))

\* Mutation: a reading that failed is shared for ever.
FlightOverIfRead(j, read) == IF read THEN [inFlight EXCEPT ![wants[j].image] = None] ELSE inFlight

\* The table once j is over, read or not: a failure is not remembered.
FlightOver(j, read) == [inFlight EXCEPT ![wants[j].image] = None]

\* Everyone who waits for this reading gets it, or its error.
Answer(j, read) ==
    /\ waitsFor' = [c \in Callers |-> IF waitsFor[c] = j THEN None ELSE waitsFor[c]]
    /\ inFlight' = FlightOver(j, read)
    /\ kept' = IF read THEN Keep(wants[j].image) ELSE kept

-----------------------------------------------------------------------------
(* withFallback *)

Skipping == now < skipUntil

\* recognizeWithCloudVision when it may be tried, otherwise straight to the service.
StartReading(c, priority) ==
    IF Skipping
    THEN /\ at' = [at EXCEPT ![c] = "sent"]
         /\ UNCHANGED <<startedAt, cloud>>
    ELSE /\ at' = [at EXCEPT ![c] = "cloud"]
         /\ startedAt' = [startedAt EXCEPT ![c] = now]
         /\ cloud' = Push(cloud, CloudSlots, c, priority)

AskKept(c, i) ==
    /\ IsKept(i)
    /\ kept' = Append(Without(kept, i), KeptOf(i))
    /\ UNCHANGED <<waitsFor, inFlight, at, startedAt, cloud>>

AskShared(c, i) ==
    /\ ~IsKept(i)
    /\ inFlight[i] # None
    /\ kept' = Without(kept, i)
    /\ waitsFor' = [waitsFor EXCEPT ![c] = inFlight[i]]
    /\ UNCHANGED <<inFlight, at, startedAt, cloud>>

\* Mutation: only what is kept is looked for.
AskNewAnyway(c, i, priority) ==
    /\ ~IsKept(i)
    /\ kept' = Without(kept, i)
    /\ inFlight' = [inFlight EXCEPT ![i] = c]
    /\ waitsFor' = [waitsFor EXCEPT ![c] = c]
    /\ StartReading(c, priority)

AskNew(c, i, priority) ==
    /\ ~IsKept(i)
    /\ inFlight[i] = None
    /\ kept' = Without(kept, i)
    /\ inFlight' = [inFlight EXCEPT ![i] = c]
    /\ waitsFor' = [waitsFor EXCEPT ![c] = c]
    /\ StartReading(c, priority)

\* getOrCompute. The first to ask decides how urgent the reading is.
Ask(c, i, priority) ==
    /\ wants[c] = <<>>
    /\ wants' = [wants EXCEPT ![c] = [image |-> i, priority |-> priority]]
    /\ AskKept(c, i) \/ AskShared(c, i) \/ AskNew(c, i, priority)
    /\ UNCHANGED <<now, skipUntil, failedAt, local>>

\* Mutation: what waits for Cloud Vision keeps waiting while it is left alone.
CloudOpenAnyway(until) == TRUE

\* A reading that waited its turn looks again as it starts.
CloudOpen(until) == now >= until

\* A slot of Cloud Vision's is free: the next readings start there, or, while it is left alone, all of them give way.
\* What became of the reading that ends is known (until) before the next one looks.
FreeCloud(j, place, until) ==
    LET gone == IF CloudOpen(until) THEN {} ELSE InQueue(cloud)
    IN  /\ cloud' = IF CloudOpen(until) THEN Release(cloud, CloudSlots, j)
                    ELSE [EmptyLimiter EXCEPT !.running = cloud.running \ {j}]
        /\ at' = [c \in Callers |-> IF c = j THEN place ELSE IF c \in gone THEN "sent" ELSE at[c]]

\* Only a reading that started after the failure ends the cooldown.
AfterRead(j) == IF startedAt[j] >= failedAt THEN 0 ELSE skipUntil

CloudReads(j) ==
    /\ j \in cloud.running
    /\ skipUntil' = AfterRead(j)
    /\ FreeCloud(j, "over", AfterRead(j))
    /\ Answer(j, TRUE)
    /\ UNCHANGED <<now, wants, startedAt, failedAt, local>>

\* A timeout, over quota, an outage or a refused key: a failure that will last.
CloudFails(j) ==
    /\ j \in cloud.running
    /\ skipUntil' = now + Cooldown
    /\ failedAt' = now
    /\ FreeCloud(j, "sent", now + Cooldown)
    /\ UNCHANGED <<now, wants, waitsFor, kept, inFlight, startedAt, local>>

\* A failure of this one image.
CloudRefuses(j) ==
    /\ j \in cloud.running
    /\ FreeCloud(j, "sent", skipUntil)
    /\ UNCHANGED <<now, wants, waitsFor, kept, inFlight, startedAt, skipUntil, failedAt, local>>

\* createGoogleVisionRecognizer: what Google answers, or doesn't in time, is one of these.
CloudEnds(j) == CloudReads(j) \/ CloudFails(j) \/ CloudRefuses(j)

-----------------------------------------------------------------------------
(* The OCR service. *)

LocalOnly == UNCHANGED <<now, wants, startedAt, skipUntil, failedAt, cloud>>

\* POST /recognize
Receive(j) ==
    /\ at[j] = "sent"
    /\ at' = [at EXCEPT ![j] = "local"]
    /\ local' = Push(local, LocalSlots, j, wants[j].priority)
    /\ UNCHANGED <<waitsFor, kept, inFlight>>
    /\ LocalOnly

\* recognizeRemotely has no answer in time, or finds no service.
GiveUp(j) ==
    /\ at[j] \in {"sent", "local", "lost"}
    /\ at' = [at EXCEPT ![j] = IF @ = "local" THEN "left" ELSE "over"]
    /\ Answer(j, FALSE)
    /\ UNCHANGED local
    /\ LocalOnly

\* The service sees that a caller has hung up: a reading that still waits is withdrawn.
HangUp(j) ==
    /\ at[j] = "left"
    /\ j \in InQueue(local)
    /\ at' = [at EXCEPT ![j] = "over"]
    /\ local' = Withdraw(local, j)
    /\ UNCHANGED <<waitsFor, kept, inFlight>>
    /\ LocalOnly

LocalEnds(j, read) ==
    /\ j \in local.running
    /\ at' = [at EXCEPT ![j] = "over"]
    /\ local' = Release(local, LocalSlots, j)
    /\ IF at[j] = "left" THEN UNCHANGED <<waitsFor, kept, inFlight>> ELSE Answer(j, read)
    /\ LocalOnly

\* The service is started again: whatever it had is gone, and the API sees its connections closed one by one (GiveUp).
Restart ==
    /\ local # EmptyLimiter
    /\ local' = EmptyLimiter
    /\ at' = [c \in Callers |-> CASE at[c] = "local" -> "lost" [] at[c] = "left" -> "over" [] OTHER -> at[c]]
    /\ UNCHANGED <<waitsFor, kept, inFlight>>
    /\ LocalOnly

Tick ==
    /\ now < MaxTime
    /\ now' = now + 1
    /\ UNCHANGED <<wants, waitsFor, kept, inFlight, at, startedAt, skipUntil, failedAt, cloud, local>>

Next ==
    \/ \E c \in Callers, i \in Images, p \in Priorities : Ask(c, i, p)
    \/ \E j \in Callers :
        \/ CloudEnds(j)
        \/ Receive(j) \/ GiveUp(j) \/ HangUp(j)
        \/ \E read \in BOOLEAN : LocalEnds(j, read)
    \/ Restart
    \/ Tick

Spec == Init /\ [][Next]_vars

\* Every request to Cloud Vision and to the service has a timeout, a closed connection is noticed, and the engine ends
\* each reading it has started.
Fairness ==
    \A j \in Callers :
        /\ WF_vars(CloudEnds(j))
        /\ WF_vars(GiveUp(j))
        /\ WF_vars(HangUp(j))
        /\ WF_vars(\E read \in BOOLEAN : LocalEnds(j, read))

FairSpec == Spec /\ Fairness

-----------------------------------------------------------------------------
(* Safety. *)

\* createResultCache: "a value is computed at most once per key". An image has one reading under way, which everyone who
\* wants that image waits for and which is under way as long as they do, and none once it is kept.
ReadOnce ==
    /\ \A j \in Callers : at[j] \in UnderWay => inFlight[wants[j].image] = j
    /\ \A c \in Callers : waitsFor[c] # None =>
        at[waitsFor[c]] \in UnderWay /\ inFlight[wants[c].image] = waitsFor[c]
    /\ \A i \in Images : inFlight[i] # None => at[inFlight[i]] \in UnderWay /\ ~IsKept(i)

\* Those of these who get a slot in this step.
Starting(l, after) == after.running \ l.running

\* withFallback: from the failure that begins a cooldown to its end Cloud Vision starts no reading, and none waits for it:
\* "readings already queued inside primary see it and give way too".
LeftAlone == [][Skipping' => InQueue(cloud') = {} /\ Starting(cloud, cloud') = {}]_vars

-----------------------------------------------------------------------------
(* Liveness. *)

\* Every caller gets an answer, whatever fails: who shares a reading too, and who waits for a slot.
EveryoneAnswered == \A c \in Callers : waitsFor[c] # None ~> waitsFor[c] = None
=============================================================================

------------------------------ MODULE Limiter -------------------------------
(***************************************************************************)
(* createLimiter: at most `limit` tasks at once, the rest queued, the ones *)
(* someone is waiting for first and each queue first come, first served.   *)
(* A limiter is a record; what runs its tasks keeps one in a variable.     *)
(***************************************************************************)
EXTENDS Integers, SequencesExt

Priorities == {"interactive", "background"}

EmptyLimiter == [running |-> {}, interactive |-> <<>>, background |-> <<>>]

Limiters(tasks) == [running : SUBSET tasks, interactive : Seq(tasks), background : Seq(tasks)]

\* The tasks waiting for a slot, in the order they get one.
Waiting(l) == l.interactive \o l.background

InQueue(l) == {Waiting(l)[i] : i \in DOMAIN Waiting(l)}

\* The queue once its first n have left it.
Rest(queue, n) == SubSeq(queue, IF n > 0 THEN n + 1 ELSE 1, Len(queue))

\* pump: every free slot is taken while anyone waits.
Pump(l, limit) ==
    LET free == limit - Cardinality(l.running)
    IN  [running |-> l.running \cup {Waiting(l)[i] : i \in {k \in DOMAIN Waiting(l) : k <= free}},
         interactive |-> Rest(l.interactive, free),
         background |-> Rest(l.background, free - Len(l.interactive))]

\* run
Push(l, limit, task, priority) == Pump([l EXCEPT ![priority] = Append(@, task)], limit)

\* A task that ends, however it ends.
Release(l, limit, task) == Pump([l EXCEPT !.running = @ \ {task}], limit)

\* withdraw: a task its caller no longer wants leaves the queue. One that runs finishes.
Withdraw(l, task) ==
    [l EXCEPT !.interactive = RemoveFirst(@, task), !.background = RemoveFirst(@, task)]
=============================================================================

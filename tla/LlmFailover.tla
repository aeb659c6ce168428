----------------------------- MODULE LlmFailover -----------------------------
(***************************************************************************)
(* Model calls behind circuit breakers (llm/resilience.py, llm/client.py). *)
(*                                                                         *)
(* A call walks its targets in order.  A target whose breaker refuses it   *)
(* is skipped; at an admitted one the call waits for a slot, then for room *)
(* in the token budget, then talks to the provider.  An outage, a timeout, *)
(* a 429 or a full queue sends it on to the next target; a bad request is  *)
(* raised at once.  Between two awaits nothing else runs, so every action  *)
(* below is one such stretch of code, including the move to the next       *)
(* target that follows a failure without an await.                         *)
(*                                                                         *)
(* Time is abstracted to the one fact that is read from it: whether a      *)
(* breaker is still cooling (now < open_until).                            *)
(***************************************************************************)
EXTENDS Integers, Sequences, FiniteSets

CONSTANTS
    Calls,          \* the tasks that call a model, again and again
    Models,         \* model ids: one breaker and one queue each, per process
    Targets,        \* the models each call may use, primary first
    PrimaryOnly,    \* calls made inside primary_only(): no fallback
    Streams,        \* calls that stream (synthesize); the others complete
    UnderCeiling,   \* calls made by a live turn, cancelled at its time limit
    Threshold,      \* circuit_breaker.failure_threshold
    MaxConcurrent   \* queue.max_concurrent_per_model

ASSUME CallsAssumption ==
    /\ IsFiniteSet(Calls)
    /\ PrimaryOnly \subseteq Calls
    /\ Streams \subseteq Calls
    /\ UnderCeiling \subseteq Calls

\* At least one target, none twice (client.py drops a fallback equal to the
\* primary), exactly one inside primary_only().
ASSUME TargetsAssumption ==
    /\ Targets \in [Calls -> Seq(Models)]
    /\ \A c \in Calls :
        /\ Len(Targets[c]) >= 1
        /\ \A i, j \in 1..Len(Targets[c]) : Targets[c][i] = Targets[c][j] => i = j
        /\ c \in PrimaryOnly => Len(Targets[c]) = 1

ASSUME LimitsAssumption ==
    /\ Threshold \in Nat \ {0}
    /\ MaxConcurrent \in Nat \ {0}

VARIABLES
    breaker,    \* per model: failures, cooling (now < open_until), probing
    free,       \* per model: permits left in the queue's semaphore
    call,       \* per call: where it is, at which target, admitted as a trial or not
    healthy     \* per model: whether the provider answers (the environment)

vars == <<breaker, free, call, healthy>>

-----------------------------------------------------------------------------
(* CircuitBreaker, on one breaker b *)

\* Only `failures >= Threshold` is ever read, so counting stops one past it.
FailureCap == Threshold + 1

Breaker == [failures : 0..FailureCap, cooling : BOOLEAN, probing : BOOLEAN]

State(b) ==
    IF b.failures < Threshold THEN "closed"
    ELSE IF b.cooling THEN "open" ELSE "half_open"

Allows(b) == State(b) = "closed" \/ (State(b) = "half_open" /\ ~b.probing)

\* What allow() leaves behind when it returns True.
Admitted(b) == IF State(b) = "half_open" THEN [b EXCEPT !.probing = TRUE] ELSE b

Success(b) == [b EXCEPT !.failures = 0, !.probing = FALSE]

\* Mutant: a trial that says nothing about the model keeps its slot.
MutReleaseKeepsTrial(b) == b

Release(b) == [b EXCEPT !.probing = FALSE]

\* Mutant: the failure that reaches the threshold does not start it.
MutFailureCoolsLate(b) ==
    LET n == IF b.failures < FailureCap THEN b.failures + 1 ELSE b.failures
    IN  [failures |-> n,
         cooling  |-> b.cooling \/ n > Threshold,
         probing  |-> FALSE]

Failure(b) ==
    LET n == IF b.failures < FailureCap THEN b.failures + 1 ELSE b.failures
    IN  [failures |-> n,
         cooling  |-> b.cooling \/ n >= Threshold,
         probing  |-> FALSE]

-----------------------------------------------------------------------------
(* Where a call is *)

\* "waiting": for a slot.  "reserving": has the slot, waiting for budget.
\* "inside": the provider has the request.  "streaming": tokens arrive.
Busy    == {"waiting", "reserving", "inside", "streaming"}
AtModel == {"waiting", "reserving", "inside"}
Holding == {"reserving", "inside"}
Ended   == {"idle", "answered", "raised", "unavailable", "cancelled"}

CallState == [pc : Busy \cup Ended, at : Nat, trial : BOOLEAN]

Over(how) == [pc |-> how, at |-> 0, trial |-> FALSE]

\* The model a call is at.
ModelOf(c) == Targets[c][call[c].at]

At(c, pcs, m) == call[c].pc \in pcs /\ ModelOf(c) = m

\* Calls that hold a permit of m's semaphore.
Holders(m) == {c \in Calls : At(c, Holding, m)}

\* Trial calls m's breaker let through and has not heard from.
Trials(m) == {c \in Calls : At(c, AtModel, m) /\ call[c].trial}

Init ==
    /\ breaker = [m \in Models |-> [failures |-> 0, cooling |-> FALSE, probing |-> FALSE]]
    /\ free = [m \in Models |-> MaxConcurrent]
    /\ call = [c \in Calls |-> Over("idle")]
    /\ healthy = [m \in Models |-> TRUE]

-----------------------------------------------------------------------------
(* _with_failover *)

\* The for loop from target i on, over the breakers b: stop at the first
\* target that lets the call in, or run out of them.  Running out raises the
\* provider's own error in evaluation, if a target was tried at all (i > 1).
Seek(c, i, b) ==
    LET rest == i..Len(Targets[c]) IN
    \/ \E j \in rest :
        LET m == Targets[c][j] IN
        /\ Allows(b[m])
        /\ \A k \in i..(j - 1) : ~Allows(b[Targets[c][k]])
        /\ breaker' = [b EXCEPT ![m] = Admitted(@)]
        /\ call' = [call EXCEPT ![c] =
                [pc |-> "waiting", at |-> j, trial |-> State(b[m]) = "half_open"]]
    \/ /\ \A j \in rest : ~Allows(b[Targets[c][j]])
       /\ breaker' = b
       /\ call' = [call EXCEPT ![c] =
                Over(IF i > 1 /\ c \in PrimaryOnly THEN "raised" ELSE "unavailable")]

Start(c) ==
    /\ call[c].pc \in Ended
    /\ Seek(c, 1, breaker)
    /\ UNCHANGED <<free, healthy>>

Goto(c, pc) == call' = [call EXCEPT ![c].pc = pc]

\* The semaphore's permit.
Acquire(c) ==
    /\ call[c].pc = "waiting"
    /\ free[ModelOf(c)] > 0
    /\ free' = [free EXCEPT ![ModelOf(c)] = @ - 1]
    /\ Goto(c, "reserving")
    /\ UNCHANGED <<breaker, healthy>>

\* The budget has room (ModelQueue says when); the request goes out.
Send(c) ==
    /\ call[c].pc = "reserving"
    /\ Goto(c, "inside")
    /\ UNCHANGED <<breaker, free, healthy>>

\* Mutant: a call cancelled or timed out in the wait for budget keeps its permit.
MutFreeAfterLeak(c) ==
    IF call[c].pc = "inside" THEN [free EXCEPT ![ModelOf(c)] = @ + 1] ELSE free

\* The semaphore as it stands once c has left slot(), by whatever way.
FreeAfter(c) ==
    IF call[c].pc \in Holding THEN [free EXCEPT ![ModelOf(c)] = @ + 1] ELSE free

Settle(c, op(_)) == [breaker EXCEPT ![ModelOf(c)] = op(@)]

\* Mutant: a full queue counts as the model's failure.
MutQueueTimeoutBlames(c) ==
    /\ call[c].pc \in {"waiting", "reserving"}
    /\ free' = FreeAfter(c)
    /\ Seek(c, call[c].at + 1, Settle(c, Failure))
    /\ UNCHANGED healthy

\* No slot or no budget within the wait limit: not the model failing.
QueueTimeout(c) ==
    /\ call[c].pc \in {"waiting", "reserving"}
    /\ free' = FreeAfter(c)
    /\ Seek(c, call[c].at + 1, Settle(c, Release))
    /\ UNCHANGED healthy

\* Mutant: the target that failed is tried again.
MutProviderFailsStays(c) ==
    /\ call[c].pc = "inside"
    /\ ~healthy[ModelOf(c)]
    /\ free' = FreeAfter(c)
    /\ Seek(c, call[c].at, Settle(c, Failure))
    /\ UNCHANGED healthy

\* 429, timeout, connection error, 5xx or 413.
ProviderFails(c) ==
    /\ call[c].pc = "inside"
    /\ ~healthy[ModelOf(c)]
    /\ free' = FreeAfter(c)
    /\ Seek(c, call[c].at + 1, Settle(c, Failure))
    /\ UNCHANGED healthy

\* Any other exception: the same request fails anywhere.
BadRequest(c) ==
    /\ call[c].pc = "inside"
    /\ free' = FreeAfter(c)
    /\ breaker' = Settle(c, Release)
    /\ call' = [call EXCEPT ![c] = Over("raised")]
    /\ UNCHANGED healthy

\* The whole reply, or for a stream the open response: slot() is left and the
\* breaker told of a success before the first token.
Answers(c) ==
    /\ call[c].pc = "inside"
    /\ healthy[ModelOf(c)]
    /\ free' = FreeAfter(c)
    /\ breaker' = Settle(c, Success)
    /\ IF c \in Streams THEN Goto(c, "streaming")
                        ELSE call' = [call EXCEPT ![c] = Over("answered")]
    /\ UNCHANGED healthy

\* The stream ends, or breaks off: nobody is told but the caller.
StreamEnds(c) ==
    /\ call[c].pc = "streaming"
    /\ \E how \in {"answered", "raised"} : call' = [call EXCEPT ![c] = Over(how)]
    /\ UNCHANGED <<breaker, free, healthy>>

\* The turn's time limit cancels the task at its await.  CancelledError is not
\* an Exception: slot() gives its permit back, the breaker hears nothing.
Cancel(c) ==
    /\ c \in UnderCeiling
    /\ call[c].pc \in Busy
    /\ free' = FreeAfter(c)
    /\ call' = [call EXCEPT ![c] = Over("cancelled")]
    /\ UNCHANGED <<breaker, healthy>>

-----------------------------------------------------------------------------
(* Time and the provider *)

CooldownEnds(m) ==
    /\ breaker[m].cooling
    /\ breaker' = [breaker EXCEPT ![m].cooling = FALSE]
    /\ UNCHANGED <<free, call, healthy>>

ProviderChanges(m) ==
    /\ healthy' = [healthy EXCEPT ![m] = ~@]
    /\ UNCHANGED <<breaker, free, call>>

CallStep(c) ==
    \/ Start(c) \/ Acquire(c) \/ Send(c) \/ QueueTimeout(c) \/ ProviderFails(c)
    \/ BadRequest(c) \/ Answers(c) \/ StreamEnds(c) \/ Cancel(c)

Next ==
    \/ \E c \in Calls : CallStep(c)
    \/ \E m \in Models : CooldownEnds(m) \/ ProviderChanges(m)

Spec == Init /\ [][Next]_vars

-----------------------------------------------------------------------------
(* Properties *)

\* Every variable keeps its type, and a busy call is at one of its targets.
TypeOK ==
    /\ breaker \in [Models -> Breaker]
    /\ free \in [Models -> 0..MaxConcurrent]
    /\ call \in [Calls -> CallState]
    /\ healthy \in [Models -> BOOLEAN]
    /\ \A c \in Calls : call[c].pc \in Busy => call[c].at \in DOMAIN Targets[c]

\* No permit leaks and none is returned twice, whichever of the ways out of
\* ModelQueue.slot a call takes: reply, provider error, bad request, full
\* queue, or cancellation in any of its three awaits.
SlotAccounting ==
    \A m \in Models : free[m] + Cardinality(Holders(m)) = MaxConcurrent

\* A taken trial slot always belongs to a trial somebody is waiting for, so
\* it will be given back.  True as long as no call is cancelled
\* (UnderCeiling = {}): stragglers admitted before the breaker opened may
\* clear the flag early, but nothing sets it without a call behind it.
ProbeHasTrial ==
    \A m \in Models : breaker[m].probing => Trials(m) # {}

\* Only a provider's failure counts against a model: a full queue, a bad
\* request or a cancelled turn never brings a breaker closer to opening.
HealthyNeverBlamed ==
    [][\A m \in Models : breaker'[m].failures > breaker[m].failures => ~healthy[m]]_vars

\* Each model's breaker goes closed, open, half open and back as BreakerCycle
\* says, whatever the calls and their interleaving.
Cycle(m) == INSTANCE BreakerCycle WITH state <- State(breaker[m])

-----------------------------------------------------------------------------
(* Fairness and liveness *)

\* Waits are bounded (wait_for, the deadline, the client's timeout), so a
\* call's own next step is never put off forever; cooldowns end.  The
\* semaphore is first come, first served, the budget window moves on, and not
\* every request is malformed: a call that keeps coming to a model is not
\* turned away from that model by the queue, or by a 400, forever.
Ends(c) == QueueTimeout(c) \/ ProviderFails(c) \/ BadRequest(c) \/ Answers(c) \/ StreamEnds(c)

ServedAt(c, m) ==
    /\ SF_vars(Acquire(c) /\ ModelOf(c) = m)
    /\ SF_vars(Send(c) /\ ModelOf(c) = m)
    /\ SF_vars(Answers(c) /\ ModelOf(c) = m)

FairSpec ==
    /\ Spec
    /\ \A c \in Calls : WF_vars(Start(c)) /\ WF_vars(Ends(c))
    /\ \A c \in Calls, m \in Models : ServedAt(c, m)
    /\ \A m \in Models : WF_vars(CooldownEnds(m))

\* Every call comes to an end.
EveryCallEnds == \A c \in Calls : call[c].pc \in Busy ~> call[c].pc \in Ended

\* A primary that has recovered for good is used again: its breaker closes.
\* "After the cooldown one trial call is let through: success closes the
\* breaker" (llm/resilience.py).
RecoveredPrimaryCloses ==
    \A c \in Calls : LET m == Targets[c][1] IN
        <>[]healthy[m] => []<>(State(breaker[m]) = "closed")
=============================================================================

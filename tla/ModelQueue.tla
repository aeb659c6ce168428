----------------------------- MODULE ModelQueue -----------------------------
(***************************************************************************)
(* The queue in front of one model (ModelQueue, llm/resilience.py).        *)
(*                                                                         *)
(* A call first waits for a permit, at most until its deadline, then for   *)
(* the budget's lock, which it keeps while it sleeps until the oldest      *)
(* entry of the budget is a window old.  Only then does its request go     *)
(* out, with an entry for its estimated tokens that the real number        *)
(* replaces when the reply is there.                                       *)
(*                                                                         *)
(* The clock is kept as what is read from it: the age of each entry, the   *)
(* time left to each deadline, the time to each wake-up.  A Tick passes    *)
(* only when no task can run, so nothing here is late because the event    *)
(* loop was busy.                                                          *)
(***************************************************************************)
EXTENDS Integers, Sequences, SequencesExt, FiniteSetsExt

CONSTANTS
    Model,          \* the model's id
    Calls,          \* the tasks that call the model, again and again
    Limit,          \* per call: max_wait_s, in ticks
    Estimate,       \* per call: est_tokens
    UnderCeiling,   \* calls made by a live turn, cancelled at its time limit
    RealTokens,     \* what a reply may turn out to have used
    Budget,         \* tokens_per_minute
    Window,         \* the 60 seconds of _used, in ticks
    MaxConcurrent,  \* max_concurrent_per_model
    NoCall          \* the owner of an entry whose call has ended

ASSUME QueueAssumption ==
    /\ IsFiniteSet(Calls) /\ NoCall \notin Calls /\ UnderCeiling \subseteq Calls
    /\ Limit \in [Calls -> Nat]
    /\ Estimate \in [Calls -> Nat \ {0}]
    /\ RealTokens \subseteq Nat
    /\ Budget \in Nat \ {0}
    /\ Window \in Nat \ {0}
    /\ MaxConcurrent \in Nat \ {0}

VARIABLES
    free,       \* permits left in _slots
    slotQueue,  \* calls in _slots.acquire(), first come first
    lockQueue,  \* calls in _budget_lock; the head holds it
    spent,      \* _spent, oldest first
    call        \* per call: where it is, time to its deadline and its wake-up

vars == <<free, slotQueue, lockQueue, spent, call>>

-----------------------------------------------------------------------------
(* State *)

Ended == {"idle", "done", "refused", "cancelled"}
Busy  == {"waiting", "reserving", "inside"}

\* -1: the deadline has passed.
CallState == [pc : Ended \cup Busy, left : Int, wake : Nat]

\* `reserved` remembers the estimate; the code keeps time and tokens only.
Entry == [age : 0..(Window - 1), tokens : Nat, reserved : Nat, of : Calls \cup {NoCall}]

Over(how) == [pc |-> how, left |-> 0, wake |-> 0]

Init ==
    /\ free = MaxConcurrent
    /\ slotQueue = <<>>
    /\ lockQueue = <<>>
    /\ spent = <<>>
    /\ call = [c \in Calls |-> Over("idle")]

\* What _used returns once entries a window old are gone (Tick drops them).
Used == SumFunction([i \in DOMAIN spent |-> spent[i].tokens])

Need(c) == Min({Estimate[c], Budget})

\* Mutant: room for the next request is any room at all.
MutRoomForAny(c) == Used < Budget

Room(c) == Used + Need(c) <= Budget

\* Time until the oldest entry leaves the window.
Wait == Window - Head(spent).age

\* Mutant: the time a call has waited for its permit and the lock is not counted.
MutTooLateFromLock(c) == Wait > Limit[c]

TooLate(c) == Wait > call[c].left

\* c holds the budget's lock and is not asleep.
Awake(c) == lockQueue # <<>> /\ Head(lockQueue) = c /\ call[c].wake = 0

-----------------------------------------------------------------------------
(* slot() and _reserve() *)

Enter(c) ==
    /\ call[c].pc \in Ended
    /\ call' = [call EXCEPT ![c] = [pc |-> "waiting", left |-> Limit[c], wake |-> 0]]
    /\ slotQueue' = Append(slotQueue, c)
    /\ UNCHANGED <<free, lockQueue, spent>>

Acquire(c) ==
    /\ slotQueue # <<>> /\ Head(slotQueue) = c
    /\ free > 0
    /\ free' = free - 1
    /\ slotQueue' = Tail(slotQueue)
    /\ lockQueue' = Append(lockQueue, c)
    /\ call' = [call EXCEPT ![c].pc = "reserving"]
    /\ UNCHANGED spent

\* Mutant: the deadline is looked at only once there is a permit.
MutSlotTimeoutAfterAcquire(c) ==
    /\ call[c].pc = "waiting"
    /\ call[c].left = 0
    /\ free > 0
    /\ slotQueue' = RemoveFirst(slotQueue, c)
    /\ call' = [call EXCEPT ![c] = Over("refused")]
    /\ UNCHANGED <<free, lockQueue, spent>>

\* wait_for gives up at the deadline.
SlotTimeout(c) ==
    /\ call[c].pc = "waiting"
    /\ call[c].left = 0
    /\ slotQueue' = RemoveFirst(slotQueue, c)
    /\ call' = [call EXCEPT ![c] = Over("refused")]
    /\ UNCHANGED <<free, lockQueue, spent>>

Reserve(c) ==
    /\ Awake(c)
    /\ Room(c)
    /\ spent' = Append(spent, [age |-> 0, tokens |-> Need(c), reserved |-> Need(c), of |-> c])
    /\ lockQueue' = Tail(lockQueue)
    /\ call' = [call EXCEPT ![c] = Over("inside")]
    /\ UNCHANGED <<free, slotQueue>>

Sleep(c) ==
    /\ Awake(c)
    /\ ~Room(c)
    /\ ~TooLate(c)
    /\ call' = [call EXCEPT ![c].wake = Wait]
    /\ UNCHANGED <<free, slotQueue, lockQueue, spent>>

\* The oldest entry will not be gone in time.
Refuse(c) ==
    /\ Awake(c)
    /\ ~Room(c)
    /\ TooLate(c)
    /\ lockQueue' = Tail(lockQueue)
    /\ free' = free + 1
    /\ call' = [call EXCEPT ![c] = Over("refused")]
    /\ UNCHANGED <<slotQueue, spent>>

\* c's entry, if it is still in the window, becomes `tokens`.
Corrected(c, tokens) ==
    [i \in DOMAIN spent |->
        IF spent[i].of = c THEN [spent[i] EXCEPT !.tokens = tokens, !.of = NoCall] ELSE spent[i]]

Disowned(c) ==
    [i \in DOMAIN spent |-> IF spent[i].of = c THEN [spent[i] EXCEPT !.of = NoCall] ELSE spent[i]]

\* The body of `async with slot()` is over.  A reply with a usage corrects the
\* entry; an error, or a stream that has only been opened, does not.
Finish(c) ==
    /\ call[c].pc = "inside"
    /\ spent' \in {Disowned(c)} \cup {Corrected(c, t) : t \in RealTokens}
    /\ free' = free + 1
    /\ call' = [call EXCEPT ![c] = Over("done")]
    /\ UNCHANGED <<slotQueue, lockQueue>>

\* Mutant: only a call whose request went out gives its permit back.
MutFreeAfterLeak(c) == IF call[c].pc = "inside" THEN free + 1 ELSE free

FreeAfter(c) == IF call[c].pc \in {"reserving", "inside"} THEN free + 1 ELSE free

\* A turn's time limit, in whichever of the four awaits the call is.
Cancel(c) ==
    /\ c \in UnderCeiling
    /\ call[c].pc \in Busy
    /\ free' = FreeAfter(c)
    /\ slotQueue' = RemoveFirst(slotQueue, c)
    /\ lockQueue' = RemoveFirst(lockQueue, c)
    /\ spent' = Disowned(c)
    /\ call' = [call EXCEPT ![c] = Over("cancelled")]

-----------------------------------------------------------------------------
(* Time *)

\* A task could run now.
Ready(c) ==
    \/ call[c].pc = "waiting" /\ call[c].left = 0
    \/ slotQueue # <<>> /\ Head(slotQueue) = c /\ free > 0
    \/ Awake(c)

InWindow(e) == e.age < Window

Older(e) == [e EXCEPT !.age = @ + 1]

\* The budget's entries but the first `gone`, a tick later.
Remaining(gone) == [i \in 1..(Len(spent) - gone) |-> Older(spent[i + gone])]

\* The deadline and the wake-up of a waiting call come nearer.
Nearer(k) ==
    IF k.pc \in {"waiting", "reserving"}
    THEN [k EXCEPT !.left = IF @ < 0 THEN @ ELSE @ - 1,
                   !.wake = IF @ = 0 THEN @ ELSE @ - 1]
    ELSE k

Tick ==
    /\ \A c \in Calls : ~Ready(c)
    /\ \E gone \in 0..Len(spent) :
        /\ \A i \in DOMAIN spent : i > gone <=> InWindow(Older(spent[i]))
        /\ spent' = Remaining(gone)
    /\ call' = [c \in Calls |-> Nearer(call[c])]
    /\ UNCHANGED <<free, slotQueue, lockQueue>>

CallStep(c) ==
    \/ Enter(c) \/ Acquire(c) \/ SlotTimeout(c) \/ Reserve(c)
    \/ Sleep(c) \/ Refuse(c) \/ Finish(c) \/ Cancel(c)

Next == Tick \/ \E c \in Calls : CallStep(c)

Spec == Init /\ [][Next]_vars

-----------------------------------------------------------------------------
(* Properties *)

\* Every variable keeps its type, and the queues hold the calls that wait.
TypeOK ==
    /\ free \in 0..MaxConcurrent
    /\ call \in [Calls -> CallState]
    /\ spent \in Seq(Entry)
    /\ slotQueue \in Seq(Calls) /\ IsInjective(slotQueue)
    /\ lockQueue \in Seq(Calls) /\ IsInjective(lockQueue)
    /\ ToSet(slotQueue) = {c \in Calls : call[c].pc = "waiting"}
    /\ ToSet(lockQueue) = {c \in Calls : call[c].pc = "reserving"}

\* The window never holds more than the budget, corrections apart: beyond it
\* is only what replies used over their estimates.  Calls that waited for the
\* lock, slept, were corrected or cancelled in between change nothing of that.
WithinBudget ==
    SumFunction([i \in DOMAIN spent |-> Min({spent[i].tokens, spent[i].reserved})]) <= Budget

\* Whoever finds no room finds an entry to wait for (self._spent[0]), also a
\* request larger than the whole budget.
SomethingToWaitFor == \A c \in Calls : Awake(c) /\ ~Room(c) => spent # <<>>

\* "A call that cannot get a slot within its wait limit gets QueueTimeout"
\* (docstring of llm/resilience.py): no call still waits after its deadline,
\* though the lock is waited for without one.
InTime == \A c \in Calls : call[c].pc \in {"waiting", "reserving"} => call[c].left >= 0

-----------------------------------------------------------------------------
(* Fairness and liveness *)

\* Time goes on, and a task that can run does.
FairSpec ==
    /\ Spec
    /\ SF_vars(Tick)
    /\ \A c \in Calls : WF_vars(Acquire(c) \/ SlotTimeout(c) \/ Reserve(c) \/ Sleep(c) \/ Refuse(c))

\* Every wait for a slot ends, however long the requests of others take.
EveryWaitEnds ==
    \A c \in Calls : call[c].pc \in {"waiting", "reserving"} ~>
                     call[c].pc \notin {"waiting", "reserving"}

-----------------------------------------------------------------------------
(* What LlmFailover takes for granted of a queue *)

FailoverPc(pc) ==
    CASE pc = "done"    -> "answered"
      [] pc = "refused" -> "unavailable"
      [] OTHER          -> pc

AsFailover(k) ==
    [pc |-> FailoverPc(k.pc), at |-> IF k.pc \in Busy THEN 1 ELSE 0, trial |-> FALSE]

Closed == [failures |-> 0, cooling |-> FALSE, probing |-> FALSE]

Failover == INSTANCE LlmFailover WITH
    Models <- {Model},
    Targets <- [c \in Calls |-> <<Model>>],
    PrimaryOnly <- {},
    Streams <- {},
    Threshold <- 1,
    breaker <- [m \in {Model} |-> Closed],
    free <- [m \in {Model} |-> free],
    call <- [c \in Calls |-> AsFailover(call[c])],
    healthy <- [m \in {Model} |-> TRUE]

\* To the calls of one healthy model the queue is what LlmFailover says of it:
\* permits that every way out gives back, and a wait for the budget that ends
\* in a request or in QueueTimeout.
QueuesAsFailoverSays == Failover!Spec
=============================================================================

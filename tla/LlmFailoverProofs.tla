-------------------------- MODULE LlmFailoverProofs --------------------------
(***************************************************************************)
(* Theorems about LlmFailover, for every set of calls and models, every    *)
(* routing of calls to models and every limit.                             *)
(***************************************************************************)
EXTENDS LlmFailover, FiniteSetTheorems, TLAPS

-----------------------------------------------------------------------------
(* The breaker's operations *)

\* What allow, success, release and failure leave behind is a breaker.
LEMMA BreakerOps ==
    ASSUME NEW b \in Breaker
    PROVE  /\ Admitted(b) \in Breaker
           /\ Success(b) \in Breaker
           /\ Release(b) \in Breaker
           /\ Failure(b) \in Breaker
<1>1. 0 \in 0..FailureCap
  BY LimitsAssumption DEF FailureCap
<1>2. \A n \in 0..FailureCap : n < FailureCap => n + 1 \in 0..FailureCap
  BY LimitsAssumption DEF FailureCap
<1>3. (b.cooling \/ (IF b.failures < FailureCap THEN b.failures + 1 ELSE b.failures)
                       >= Threshold) \in BOOLEAN
  OBVIOUS
<1>4. Failure(b) \in Breaker
  BY <1>2, <1>3 DEF Failure, Breaker
<1>5. QED
  BY <1>1, <1>4 DEF Admitted, Success, Release, Breaker

\* Settling with any of the three operations keeps the breakers well typed
\* and changes only the breaker of the call's model.
LEMMA SettleType ==
    ASSUME TypeOK, NEW c \in Calls, call[c].pc \in Busy
    PROVE  /\ ModelOf(c) \in Models
           /\ call[c].at + 1 \in Nat \ {0}
           /\ Settle(c, Success) \in [Models -> Breaker]
           /\ Settle(c, Release) \in [Models -> Breaker]
           /\ Settle(c, Failure) \in [Models -> Breaker]
<1>1. ModelOf(c) \in Models /\ call[c].at \in Nat
  BY TargetsAssumption DEF TypeOK, ModelOf, CallState
<1>2. breaker[ModelOf(c)] \in Breaker
  BY <1>1 DEF TypeOK
<1>3. QED
  BY <1>1, <1>2, BreakerOps DEF TypeOK, Settle

\* Moving on to the next target keeps the types of what it assigns.
LEMMA SeekType ==
    ASSUME TypeOK, NEW c \in Calls, NEW i \in Nat \ {0}, NEW b \in [Models -> Breaker],
           Seek(c, i, b)
    PROVE  /\ breaker' \in [Models -> Breaker]
           /\ call' \in [Calls -> CallState]
           /\ \A d \in Calls : call'[d].pc \in Busy => call'[d].at \in DOMAIN Targets[d]
<1>1. CASE \E j \in i..Len(Targets[c]) :
               LET m == Targets[c][j] IN
               /\ breaker' = [b EXCEPT ![m] = Admitted(@)]
               /\ call' = [call EXCEPT ![c] =
                    [pc |-> "waiting", at |-> j, trial |-> State(b[m]) = "half_open"]]
  <2>1. PICK j \in i..Len(Targets[c]) :
               /\ breaker' = [b EXCEPT ![Targets[c][j]] = Admitted(@)]
               /\ call' = [call EXCEPT ![c] =
                    [pc |-> "waiting", at |-> j, trial |-> State(b[Targets[c][j]]) = "half_open"]]
    BY <1>1
  <2>2. j \in Nat /\ j \in DOMAIN Targets[c] /\ Targets[c][j] \in Models
    BY TargetsAssumption
  <2>3. breaker' \in [Models -> Breaker]
    BY <2>1, <2>2, BreakerOps
  <2>4. (State(b[Targets[c][j]]) = "half_open") \in BOOLEAN
    OBVIOUS
  <2>5. call' \in [Calls -> CallState]
    BY <2>1, <2>2, <2>4 DEF TypeOK, CallState, Busy
  <2>6. QED
    BY <2>1, <2>2, <2>3, <2>5 DEF TypeOK
<1>2. CASE /\ breaker' = b
           /\ call' = [call EXCEPT ![c] =
                Over(IF i > 1 /\ c \in PrimaryOnly THEN "raised" ELSE "unavailable")]
  BY <1>2 DEF TypeOK, CallState, Over, Ended, Busy
<1>3. QED
  BY <1>1, <1>2 DEF Seek

\* The semaphore after a call has left slot().
LEMMA FreeAfterType ==
    ASSUME TypeOK, SlotAccounting, NEW c \in Calls, call[c].pc \in Busy
    PROVE  FreeAfter(c) \in [Models -> 0..MaxConcurrent]
<1>1. ModelOf(c) \in Models
  BY SettleType
<1>2. CASE call[c].pc \in Holding
  <2> DEFINE m == ModelOf(c)
  <2>1. c \in Holders(m) /\ IsFiniteSet(Holders(m))
    BY <1>2, CallsAssumption, FS_Subset DEF Holders, At
  <2>2. Cardinality(Holders(m)) \in Nat /\ Cardinality(Holders(m)) # 0
    BY <2>1, FS_CardinalityType, FS_EmptySet
  <2>3. free[m] + Cardinality(Holders(m)) = MaxConcurrent
    BY <1>1 DEF SlotAccounting
  <2>4. free[m] + 1 \in 0..MaxConcurrent
    BY <1>1, <2>2, <2>3, LimitsAssumption DEF TypeOK
  <2>5. QED
    BY <1>1, <1>2, <2>4 DEF FreeAfter, TypeOK
<1>3. CASE call[c].pc \notin Holding
  BY <1>3 DEF FreeAfter, TypeOK
<1>4. QED
  BY <1>2, <1>3

-----------------------------------------------------------------------------
(* Permits *)

\* Only c moves: then the other calls hold what they held.
OnlyMoves(c) ==
    /\ DOMAIN call' = Calls
    /\ \A d \in Calls \ {c} : call'[d] = call[d]

\* Moving on to the next target moves one call, to a place without a permit.
LEMMA SeekMoves ==
    ASSUME TypeOK, NEW c \in Calls, NEW i, NEW b, Seek(c, i, b)
    PROVE  OnlyMoves(c) /\ call'[c].pc \notin Holding
BY DEF Seek, OnlyMoves, Over, Holding, TypeOK

\* A call that leaves slot(), wherever it was, hands back exactly the permit
\* it held.
LEMMA LeavingKeepsAccounting ==
    ASSUME TypeOK, SlotAccounting, NEW c \in Calls, call[c].pc \in Busy,
           OnlyMoves(c), call'[c].pc \notin Holding, free' = FreeAfter(c)
    PROVE  SlotAccounting'
<1> SUFFICES ASSUME NEW m \in Models
             PROVE  free'[m] + Cardinality(Holders(m)') = MaxConcurrent
  BY DEF SlotAccounting
<1>1. Holders(m)' = Holders(m) \ {c}
  BY DEF Holders, At, ModelOf, OnlyMoves
<1>2. IsFiniteSet(Holders(m)) /\ Cardinality(Holders(m)) \in Nat
  BY CallsAssumption, FS_Subset, FS_CardinalityType DEF Holders
<1>3. free[m] + Cardinality(Holders(m)) = MaxConcurrent /\ free[m] \in Int
  BY LimitsAssumption DEF SlotAccounting, TypeOK
<1>4. CASE c \in Holders(m)
  <2>1. free'[m] = free[m] + 1
    BY <1>4, SettleType DEF Holders, At, FreeAfter, TypeOK
  <2>2. Cardinality(Holders(m) \ {c}) = Cardinality(Holders(m)) - 1
    BY <1>2, <1>4, FS_RemoveElement
  <2>3. QED
    BY <1>1, <1>2, <1>3, <2>1, <2>2
<1>5. CASE c \notin Holders(m)
  <2>1. free'[m] = free[m]
    BY <1>5, SettleType DEF Holders, At, FreeAfter, TypeOK
  <2>2. Holders(m) \ {c} = Holders(m)
    BY <1>5
  <2>3. QED
    BY <1>1, <1>3, <2>1, <2>2
<1>6. QED
  BY <1>4, <1>5

\* A call that takes a permit.
LEMMA AcquireKeepsAccounting ==
    ASSUME TypeOK, SlotAccounting, NEW c \in Calls, Acquire(c)
    PROVE  SlotAccounting'
<1> SUFFICES ASSUME NEW m \in Models
             PROVE  free'[m] + Cardinality(Holders(m)') = MaxConcurrent
  BY DEF SlotAccounting
<1>0. call[c].pc = "waiting" /\ ModelOf(c) \in Models
  BY SettleType DEF Acquire, Busy
<1>1. /\ \A d \in Calls \ {c} : call'[d] = call[d]
      /\ call'[c].pc = "reserving" /\ call'[c].at = call[c].at
  BY DEF Acquire, Goto, TypeOK, CallState
<1>2. IsFiniteSet(Holders(m)) /\ Cardinality(Holders(m)) \in Nat
  BY CallsAssumption, FS_Subset, FS_CardinalityType DEF Holders
<1>3. free[m] + Cardinality(Holders(m)) = MaxConcurrent /\ free[m] \in Int
  BY LimitsAssumption DEF SlotAccounting, TypeOK
<1>4. c \notin Holders(m)
  BY <1>0 DEF Holders, At, Holding
<1>5. CASE ModelOf(c) = m
  <2>1. Holders(m)' = Holders(m) \cup {c}
    BY <1>1, <1>5 DEF Holders, At, ModelOf, Holding
  <2>2. Cardinality(Holders(m) \cup {c}) = Cardinality(Holders(m)) + 1
    BY <1>2, <1>4, FS_AddElement
  <2>3. free'[m] = free[m] - 1
    BY <1>5 DEF Acquire, TypeOK
  <2>4. QED
    BY <1>2, <1>3, <2>1, <2>2, <2>3
<1>6. CASE ModelOf(c) # m
  <2>1. Holders(m)' = Holders(m)
    BY <1>0, <1>1, <1>6 DEF Holders, At, ModelOf, Holding
  <2>2. free'[m] = free[m]
    BY <1>0, <1>6 DEF Acquire, TypeOK
  <2>3. QED
    BY <1>3, <2>1, <2>2
<1>7. QED
  BY <1>5, <1>6

\* A move that neither takes nor returns a permit.
LEMMA SameHoldersKeepAccounting ==
    ASSUME SlotAccounting, free' = free, \A m \in Models : Holders(m)' = Holders(m)
    PROVE  SlotAccounting'
BY DEF SlotAccounting

-----------------------------------------------------------------------------
(* The inductive invariant: types and permits, each needed for the other *)

Inv == TypeOK /\ SlotAccounting

LEMMA InitInv == Init => Inv
<1> SUFFICES ASSUME Init PROVE Inv
  OBVIOUS
<1>1. TypeOK
  BY LimitsAssumption
  DEF Init, TypeOK, Breaker, FailureCap, CallState, Over, Ended, Busy
<1>2. SlotAccounting
  <2>1. \A m \in Models : Holders(m) = {}
    BY DEF Init, Holders, At, Over, Holding
  <2>2. Cardinality({}) = 0
    BY FS_EmptySet
  <2>3. \A m \in Models : free[m] = MaxConcurrent
    BY DEF Init
  <2>4. QED
    BY <2>1, <2>2, <2>3, LimitsAssumption DEF SlotAccounting
<1>3. QED
  BY <1>1, <1>2 DEF Inv

LEMMA NextInv == Inv /\ [Next]_vars => Inv'
<1> SUFFICES ASSUME TypeOK, SlotAccounting, [Next]_vars
             PROVE  TypeOK' /\ SlotAccounting'
  BY DEF Inv
<1> USE DEF Busy
<1>1. ASSUME NEW c \in Calls, Start(c)
      PROVE  TypeOK' /\ SlotAccounting'
  <2>1. TypeOK'
    BY <1>1, SeekType DEF Start, TypeOK
  <2>2. \A m \in Models : Holders(m)' = Holders(m)
    <3>1. call[c].pc \notin Holding
      BY <1>1 DEF Start, Ended, Holding
    <3>2. OnlyMoves(c) /\ call'[c].pc \notin Holding
      BY <1>1, SeekMoves DEF Start
    <3>3. QED
      BY <3>1, <3>2 DEF Holders, At, ModelOf, OnlyMoves
  <2>3. QED
    BY <1>1, <2>1, <2>2, SameHoldersKeepAccounting DEF Start
<1>2. ASSUME NEW c \in Calls, Acquire(c)
      PROVE  TypeOK' /\ SlotAccounting'
  <2>1. ModelOf(c) \in Models
    BY <1>2, SettleType DEF Acquire
  <2>2. free' \in [Models -> 0..MaxConcurrent]
    BY <1>2, <2>1, LimitsAssumption DEF Acquire, TypeOK
  <2>3. TypeOK'
    BY <1>2, <2>2 DEF Acquire, Goto, TypeOK, CallState
  <2>4. QED
    BY <1>2, <2>3, AcquireKeepsAccounting
<1>3. ASSUME NEW c \in Calls, Send(c)
      PROVE  TypeOK' /\ SlotAccounting'
  <2>1. TypeOK'
    BY <1>3 DEF Send, Goto, TypeOK, CallState
  <2>2. \A m \in Models : Holders(m)' = Holders(m)
    BY <1>3 DEF Send, Goto, Holders, At, ModelOf, Holding, TypeOK, CallState
  <2>3. QED
    BY <1>3, <2>1, <2>2, SameHoldersKeepAccounting DEF Send
<1>4. ASSUME NEW c \in Calls, QueueTimeout(c)
      PROVE  TypeOK' /\ SlotAccounting'
  <2>1. call[c].pc \in Busy
    BY <1>4 DEF QueueTimeout
  <2>2. free' \in [Models -> 0..MaxConcurrent]
    BY <1>4, <2>1, FreeAfterType DEF QueueTimeout
  <2>3. TypeOK'
    BY <1>4, <2>1, <2>2, SettleType, SeekType DEF QueueTimeout, TypeOK
  <2>4. OnlyMoves(c) /\ call'[c].pc \notin Holding
    BY <1>4, SeekMoves DEF QueueTimeout
  <2>5. QED
    BY <1>4, <2>1, <2>3, <2>4, LeavingKeepsAccounting DEF QueueTimeout
<1>5. ASSUME NEW c \in Calls, ProviderFails(c)
      PROVE  TypeOK' /\ SlotAccounting'
  <2>1. call[c].pc \in Busy
    BY <1>5 DEF ProviderFails
  <2>2. free' \in [Models -> 0..MaxConcurrent]
    BY <1>5, <2>1, FreeAfterType DEF ProviderFails
  <2>3. TypeOK'
    BY <1>5, <2>1, <2>2, SettleType, SeekType DEF ProviderFails, TypeOK
  <2>4. OnlyMoves(c) /\ call'[c].pc \notin Holding
    BY <1>5, SeekMoves DEF ProviderFails
  <2>5. QED
    BY <1>5, <2>1, <2>3, <2>4, LeavingKeepsAccounting DEF ProviderFails
<1>6. ASSUME NEW c \in Calls, BadRequest(c)
      PROVE  TypeOK' /\ SlotAccounting'
  <2>1. call[c].pc \in Busy
    BY <1>6 DEF BadRequest
  <2>2. free' \in [Models -> 0..MaxConcurrent] /\ breaker' \in [Models -> Breaker]
    BY <1>6, <2>1, FreeAfterType, SettleType DEF BadRequest
  <2>3. TypeOK'
    BY <1>6, <2>2 DEF BadRequest, TypeOK, CallState, Over, Ended
  <2>4. OnlyMoves(c) /\ call'[c].pc \notin Holding
    BY <1>6 DEF BadRequest, OnlyMoves, Over, Holding, TypeOK
  <2>5. QED
    BY <1>6, <2>1, <2>3, <2>4, LeavingKeepsAccounting DEF BadRequest
<1>7. ASSUME NEW c \in Calls, Answers(c)
      PROVE  TypeOK' /\ SlotAccounting'
  <2>1. call[c].pc \in Busy
    BY <1>7 DEF Answers
  <2>2. free' \in [Models -> 0..MaxConcurrent] /\ breaker' \in [Models -> Breaker]
    BY <1>7, <2>1, FreeAfterType, SettleType DEF Answers
  <2>3. TypeOK'
    <3>1. CASE c \in Streams
      <4>1. call' = [call EXCEPT ![c].pc = "streaming"]
        BY <1>7, <3>1 DEF Answers, Goto
      <4>2. call' \in [Calls -> CallState]
        BY <4>1 DEF TypeOK, CallState
      <4>3. \A d \in Calls : call'[d].pc \in Busy => call'[d].at \in DOMAIN Targets[d]
        BY <1>7, <4>1 DEF Answers, TypeOK, CallState
      <4>4. healthy' = healthy
        BY <1>7 DEF Answers
      <4>5. QED
        BY <2>2, <4>2, <4>3, <4>4 DEF TypeOK
    <3>2. CASE c \notin Streams
      <4>1. call' = [call EXCEPT ![c] = Over("answered")] /\ healthy' = healthy
        BY <1>7, <3>2 DEF Answers
      <4>2. QED
        BY <2>2, <4>1 DEF TypeOK, CallState, Over, Ended
    <3>3. QED
      BY <3>1, <3>2
  <2>4. OnlyMoves(c) /\ call'[c].pc \notin Holding
    BY <1>7 DEF Answers, Goto, OnlyMoves, Over, Holding, TypeOK, CallState
  <2>5. QED
    BY <1>7, <2>1, <2>3, <2>4, LeavingKeepsAccounting DEF Answers
<1>8. ASSUME NEW c \in Calls, StreamEnds(c)
      PROVE  TypeOK' /\ SlotAccounting'
  <2>1. TypeOK'
    BY <1>8 DEF StreamEnds, TypeOK, CallState, Over, Ended
  <2>2. \A m \in Models : Holders(m)' = Holders(m)
    BY <1>8 DEF StreamEnds, Over, Holders, At, ModelOf, Holding, TypeOK
  <2>3. QED
    BY <1>8, <2>1, <2>2, SameHoldersKeepAccounting DEF StreamEnds
<1>9. ASSUME NEW c \in Calls, Cancel(c)
      PROVE  TypeOK' /\ SlotAccounting'
  <2>1. call[c].pc \in Busy
    BY <1>9 DEF Cancel
  <2>2. free' \in [Models -> 0..MaxConcurrent]
    BY <1>9, <2>1, FreeAfterType DEF Cancel
  <2>3. TypeOK'
    BY <1>9, <2>2 DEF Cancel, TypeOK, CallState, Over, Ended
  <2>4. OnlyMoves(c) /\ call'[c].pc \notin Holding
    BY <1>9 DEF Cancel, OnlyMoves, Over, Holding, TypeOK
  <2>5. QED
    BY <1>9, <2>1, <2>3, <2>4, LeavingKeepsAccounting DEF Cancel
<1>10. ASSUME NEW m \in Models, CooldownEnds(m) \/ ProviderChanges(m)
       PROVE  TypeOK' /\ SlotAccounting'
  <2>1. TypeOK'
    BY <1>10, ZenonT(30) DEF CooldownEnds, ProviderChanges, TypeOK, Breaker
  <2>2. free' = free /\ call' = call
    BY <1>10 DEF CooldownEnds, ProviderChanges
  <2>3. QED
    BY <2>1, <2>2 DEF SlotAccounting, Holders, At, ModelOf
<1>11. CASE UNCHANGED vars
  BY <1>11 DEF vars, TypeOK, SlotAccounting, Holders, At, ModelOf
<1>12. QED
  BY <1>1, <1>2, <1>3, <1>4, <1>5, <1>6, <1>7, <1>8, <1>9, <1>10, <1>11
  DEF Next, CallStep

LEMMA InvAlways == Spec => []Inv
BY InitInv, NextInv, PTL DEF Spec

\* Every variable keeps its type, for any number of calls and models.
THEOREM Typing == Spec => []TypeOK
BY InvAlways, PTL DEF Inv

\* ModelQueue.slot never leaks a permit nor returns one twice, whichever way
\* each call leaves it and however the calls interleave.
THEOREM NoPermitLost == Spec => []SlotAccounting
BY InvAlways, PTL DEF Inv

-----------------------------------------------------------------------------
(* Trials *)

\* Moving on leaves a taken trial slot with a trial behind it, when every slot
\* taken in b has one other than the call that moves.
LEMMA SeekKeepsProbes ==
    ASSUME TypeOK, NEW c \in Calls, NEW i \in Nat \ {0}, NEW b \in [Models -> Breaker],
           Seek(c, i, b),
           \A m \in Models : b[m].probing => \E d \in Trials(m) : d # c
    PROVE  ProbeHasTrial'
<1> SUFFICES ASSUME NEW m \in Models, breaker'[m].probing
             PROVE  \E d \in Calls : d \in Trials(m)'
  BY DEF ProbeHasTrial
<1>1. OnlyMoves(c)
  BY SeekMoves
<1>2. ASSUME b[m].probing
      PROVE  \E d \in Calls : d \in Trials(m)'
  <2>1. PICK d \in Trials(m) : d # c
    BY <1>2
  <2>2. d \in Calls /\ call'[d] = call[d]
    BY <1>1, <2>1 DEF OnlyMoves, Trials
  <2>3. d \in Trials(m)'
    BY <2>1, <2>2 DEF Trials, At, ModelOf
  <2>4. QED
    BY <2>2, <2>3
<1>3. ASSUME ~b[m].probing
      PROVE  c \in Trials(m)'
  <2>1. breaker' # b
    BY <1>3
  <2>2. PICK j \in i..Len(Targets[c]) :
               /\ breaker' = [b EXCEPT ![Targets[c][j]] = Admitted(@)]
               /\ call' = [call EXCEPT ![c] =
                    [pc |-> "waiting", at |-> j, trial |-> State(b[Targets[c][j]]) = "half_open"]]
    BY <2>1 DEF Seek
  <2>3. Targets[c][j] = m /\ State(b[m]) = "half_open"
    BY <1>3, <2>2 DEF Admitted
  <2>4. call'[c].pc = "waiting" /\ call'[c].at = j /\ call'[c].trial
    BY <2>2, <2>3 DEF TypeOK
  <2>5. QED
    BY <2>3, <2>4 DEF Trials, At, ModelOf, AtModel
<1>4. QED
  BY <1>2, <1>3

\* A call that has settled its own model's slot: the others' slots still have
\* their trials, none of them this call.
LEMMA SettledProbes ==
    ASSUME TypeOK, ProbeHasTrial, NEW c \in Calls, call[c].pc \in Busy,
           NEW b \in [Models -> Breaker], ~b[ModelOf(c)].probing,
           \A m \in Models \ {ModelOf(c)} : b[m] = breaker[m]
    PROVE  \A m \in Models : b[m].probing => \E d \in Trials(m) : d # c
BY DEF ProbeHasTrial, Trials, At

LEMMA SettleClearsProbe ==
    ASSUME TypeOK, NEW c \in Calls, call[c].pc \in Busy
    PROVE  /\ ~Settle(c, Success)[ModelOf(c)].probing
           /\ ~Settle(c, Release)[ModelOf(c)].probing
           /\ ~Settle(c, Failure)[ModelOf(c)].probing
           /\ \A m \in Models \ {ModelOf(c)} :
                 /\ Settle(c, Success)[m] = breaker[m]
                 /\ Settle(c, Release)[m] = breaker[m]
                 /\ Settle(c, Failure)[m] = breaker[m]
<1>1. ModelOf(c) \in Models /\ breaker[ModelOf(c)] \in Breaker
  BY SettleType DEF TypeOK
<1>2. QED
  BY <1>1 DEF Settle, Success, Release, Failure, Breaker, TypeOK

\* A call that ends without moving on.
LEMMA EndingKeepsProbes ==
    ASSUME TypeOK, ProbeHasTrial, NEW c \in Calls, call[c].pc \in Busy, OnlyMoves(c),
           ~breaker'[ModelOf(c)].probing,
           \A m \in Models \ {ModelOf(c)} : breaker'[m] = breaker[m]
    PROVE  ProbeHasTrial'
<1> SUFFICES ASSUME NEW m \in Models, breaker'[m].probing
             PROVE  \E d \in Calls : d \in Trials(m)'
  BY DEF ProbeHasTrial
<1>1. m # ModelOf(c) /\ breaker[m].probing
  OBVIOUS
<1>2. PICK d \in Trials(m) : TRUE
  BY <1>1 DEF ProbeHasTrial
<1>3. d # c /\ d \in Calls
  BY <1>1, <1>2 DEF Trials, At
<1>4. call'[d] = call[d]
  BY <1>3 DEF OnlyMoves
<1>5. QED
  BY <1>2, <1>3, <1>4 DEF Trials, At, ModelOf

LEMMA NextKeepsProbes ==
    ASSUME UnderCeiling = {}, TypeOK, ProbeHasTrial, [Next]_vars
    PROVE  ProbeHasTrial'
<1> USE DEF Busy
<1>1. ASSUME NEW c \in Calls, Start(c)
      PROVE  ProbeHasTrial'
  <2>1. call[c].pc \notin AtModel
    BY <1>1 DEF Start, Ended, AtModel
  <2>2. \A m \in Models : breaker[m].probing => \E d \in Trials(m) : d # c
    BY <2>1 DEF ProbeHasTrial, Trials, At
  <2>3. Seek(c, 1, breaker) /\ breaker \in [Models -> Breaker]
    BY <1>1 DEF Start, TypeOK
  <2>4. QED
    BY <2>2, <2>3, SeekKeepsProbes
<1>2. ASSUME NEW c \in Calls, Acquire(c) \/ Send(c)
      PROVE  ProbeHasTrial'
  <2>1. PICK pc \in {"reserving", "inside"} : call' = [call EXCEPT ![c].pc = pc]
    <3>1. ASSUME Acquire(c)
          PROVE  call' = [call EXCEPT ![c].pc = "reserving"]
      BY <3>1 DEF Acquire, Goto
    <3>2. ASSUME Send(c)
          PROVE  call' = [call EXCEPT ![c].pc = "inside"]
      BY <3>2 DEF Send, Goto
    <3>3. QED
      BY <1>2, <3>1, <3>2
  <2>2. /\ \A d \in Calls \ {c} : call'[d] = call[d]
        /\ call'[c].pc \in AtModel /\ call'[c].at = call[c].at /\ call'[c].trial = call[c].trial
    BY <2>1 DEF TypeOK, CallState, AtModel
  <2>3. call[c].pc \in AtModel /\ breaker' = breaker
    BY <1>2 DEF Acquire, Send, AtModel
  <2>4. \A m \in Models : Trials(m)' = Trials(m)
    BY <2>2, <2>3 DEF Trials, At, ModelOf
  <2>5. QED
    BY <2>3, <2>4 DEF ProbeHasTrial
<1>3. ASSUME NEW c \in Calls, QueueTimeout(c)
      PROVE  ProbeHasTrial'
  <2>1. call[c].pc \in Busy
    BY <1>3 DEF QueueTimeout
  <2>2. \A m \in Models : Settle(c, Release)[m].probing => \E d \in Trials(m) : d # c
    BY <2>1, SettleType, SettleClearsProbe, SettledProbes
  <2>3. QED
    BY <1>3, <2>1, <2>2, SettleType, SeekKeepsProbes DEF QueueTimeout
<1>4. ASSUME NEW c \in Calls, ProviderFails(c)
      PROVE  ProbeHasTrial'
  <2>1. call[c].pc \in Busy
    BY <1>4 DEF ProviderFails
  <2>2. \A m \in Models : Settle(c, Failure)[m].probing => \E d \in Trials(m) : d # c
    BY <2>1, SettleType, SettleClearsProbe, SettledProbes
  <2>3. QED
    BY <1>4, <2>1, <2>2, SettleType, SeekKeepsProbes DEF ProviderFails
<1>5. ASSUME NEW c \in Calls, BadRequest(c)
      PROVE  ProbeHasTrial'
  <2>1. call[c].pc \in Busy /\ OnlyMoves(c)
    BY <1>5 DEF BadRequest, OnlyMoves, TypeOK
  <2>2. breaker' = Settle(c, Release)
    BY <1>5 DEF BadRequest
  <2>3. QED
    BY <2>1, <2>2, SettleClearsProbe, EndingKeepsProbes
<1>6. ASSUME NEW c \in Calls, Answers(c)
      PROVE  ProbeHasTrial'
  <2>1. call[c].pc \in Busy /\ OnlyMoves(c)
    BY <1>6 DEF Answers, Goto, OnlyMoves, TypeOK
  <2>2. breaker' = Settle(c, Success)
    BY <1>6 DEF Answers
  <2>3. QED
    BY <2>1, <2>2, SettleClearsProbe, EndingKeepsProbes
<1>7. ASSUME NEW c \in Calls, StreamEnds(c)
      PROVE  ProbeHasTrial'
  <2>1. \A m \in Models : Trials(m)' = Trials(m)
    BY <1>7 DEF StreamEnds, Over, Trials, At, ModelOf, AtModel, TypeOK
  <2>2. breaker' = breaker
    BY <1>7 DEF StreamEnds
  <2>3. QED
    BY <2>1, <2>2 DEF ProbeHasTrial
<1>8. ASSUME NEW m \in Models, CooldownEnds(m) \/ ProviderChanges(m)
      PROVE  ProbeHasTrial'
  <2>1. call' = call /\ \A n \in Models : breaker'[n].probing = breaker[n].probing
    BY <1>8 DEF CooldownEnds, ProviderChanges, TypeOK, Breaker
  <2>2. QED
    BY <2>1 DEF ProbeHasTrial, Trials, At, ModelOf
<1>9. CASE UNCHANGED vars
  BY <1>9 DEF vars, ProbeHasTrial, Trials, At, ModelOf
<1>10. QED
  BY <1>1, <1>2, <1>3, <1>4, <1>5, <1>6, <1>7, <1>8, <1>9
  DEF Next, CallStep, Cancel

\* Without a time limit on calls, a taken trial slot is always held by a trial
\* in progress, so it is given back when that trial ends.
THEOREM TrialSlotIsHeld ==
    ASSUME UnderCeiling = {}
    PROVE  Spec => []ProbeHasTrial
<1>1. Init => ProbeHasTrial
  BY DEF Init, ProbeHasTrial
<1>2. TypeOK /\ ProbeHasTrial /\ [Next]_vars => ProbeHasTrial'
  BY NextKeepsProbes
<1>3. QED
  BY <1>1, <1>2, Typing, PTL DEF Spec

-----------------------------------------------------------------------------
(* The breaker's cycle *)

\* Letting a call in, or moving past a target, changes no breaker's state and
\* no failure count.
LEMMA SeekKeepsState ==
    ASSUME TypeOK, NEW c \in Calls, NEW i \in Nat \ {0}, NEW b \in [Models -> Breaker],
           Seek(c, i, b), NEW m \in Models
    PROVE  breaker'[m].failures = b[m].failures /\ State(breaker'[m]) = State(b[m])
<1>1. breaker'[m] = b[m] \/ breaker'[m] = Admitted(b[m])
  BY DEF Seek
<1>2. /\ Admitted(b[m]).failures = b[m].failures
      /\ Admitted(b[m]).cooling = b[m].cooling
  BY DEF Admitted, Breaker
<1>3. QED
  BY <1>1, <1>2 DEF State

\* Where each operation of a breaker can take it.
LEMMA OpStates ==
    ASSUME NEW b \in Breaker
    PROVE  /\ State(b) \in {"closed", "open", "half_open"}
           /\ State(Success(b)) = "closed" /\ Success(b).failures = 0
           /\ State(Release(b)) = State(b) /\ Release(b).failures = b.failures
           /\ State(Failure(b)) \in {"closed", "open"}
           /\ State(Failure(b)) = "closed" => State(b) = "closed"
<1>1. State(b) \in {"closed", "open", "half_open"}
  BY DEF State
<1>2. State(Success(b)) = "closed" /\ Success(b).failures = 0
  BY LimitsAssumption DEF State, Success, Breaker, FailureCap
<1>3. State(Release(b)) = State(b) /\ Release(b).failures = b.failures
  BY DEF State, Release, Breaker
<1>4. State(Failure(b)) \in {"closed", "open"}
  <2> DEFINE n == IF b.failures < FailureCap THEN b.failures + 1 ELSE b.failures
  <2>1. Failure(b).failures = n /\ (n >= Threshold => Failure(b).cooling)
    BY DEF Failure
  <2>2. n \in Int /\ Threshold \in Int
    BY LimitsAssumption DEF Breaker, FailureCap
  <2> HIDE DEF n
  <2>3. QED
    BY <2>1, <2>2 DEF State
<1>5. State(Failure(b)) = "closed" => State(b) = "closed"
  BY LimitsAssumption DEF State, Failure, Breaker, FailureCap
<1>6. QED
  BY <1>1, <1>2, <1>3, <1>4, <1>5

\* What a step does to one breaker: it is let alone but for probing, or gets
\* one of the operations, a failure only while its provider is down.
LEMMA BreakerStep ==
    ASSUME TypeOK, [Next]_vars, NEW m \in Models
    PROVE  \/ /\ State(breaker'[m]) = State(breaker[m])
              /\ breaker'[m].failures = breaker[m].failures
           \/ /\ State(breaker'[m]) = "closed"
              /\ breaker'[m].failures = 0
           \/ /\ ~healthy[m]
              /\ State(breaker'[m]) \in {"closed", "open"}
              /\ State(breaker'[m]) = "closed" => State(breaker[m]) = "closed"
           \/ /\ State(breaker[m]) = "open" /\ State(breaker'[m]) = "half_open"
              /\ breaker'[m].failures = breaker[m].failures
<1> USE DEF Busy
<1>0. breaker[m] \in Breaker
  BY DEF TypeOK
<1>1. ASSUME NEW c \in Calls, Start(c)
      PROVE  State(breaker'[m]) = State(breaker[m]) /\ breaker'[m].failures = breaker[m].failures
  BY <1>1, SeekKeepsState DEF Start, TypeOK
<1>2. ASSUME NEW c \in Calls, Acquire(c) \/ Send(c) \/ StreamEnds(c) \/ Cancel(c)
      PROVE  breaker'[m] = breaker[m]
  BY <1>2 DEF Acquire, Send, StreamEnds, Cancel
<1>3. ASSUME NEW c \in Calls, QueueTimeout(c)
      PROVE  State(breaker'[m]) = State(breaker[m]) /\ breaker'[m].failures = breaker[m].failures
  <2>1. Settle(c, Release)[m] \in {breaker[m], Release(breaker[m])}
    BY DEF Settle, TypeOK
  <2>2. State(Settle(c, Release)[m]) = State(breaker[m])
        /\ Settle(c, Release)[m].failures = breaker[m].failures
    BY <1>0, <2>1, OpStates
  <2>3. QED
    BY <1>3, <2>2, SettleType, SeekKeepsState DEF QueueTimeout
<1>4. ASSUME NEW c \in Calls, ProviderFails(c)
      PROVE  \/ /\ State(breaker'[m]) = State(breaker[m])
                /\ breaker'[m].failures = breaker[m].failures
             \/ /\ ~healthy[m]
                /\ State(breaker'[m]) \in {"closed", "open"}
                /\ State(breaker'[m]) = "closed" => State(breaker[m]) = "closed"
  <2>1. /\ State(breaker'[m]) = State(Settle(c, Failure)[m])
        /\ breaker'[m].failures = Settle(c, Failure)[m].failures
    BY <1>4, SettleType, SeekKeepsState DEF ProviderFails
  <2>2. CASE ModelOf(c) = m
    <3>1. Settle(c, Failure)[m] = Failure(breaker[m]) /\ ~healthy[m]
      BY <1>4, <2>2 DEF Settle, TypeOK, ProviderFails
    <3>2. QED
      BY <1>0, <2>1, <3>1, OpStates
  <2>3. CASE ModelOf(c) # m
    BY <2>1, <2>3 DEF Settle, TypeOK
  <2>4. QED
    BY <2>2, <2>3
<1>5. ASSUME NEW c \in Calls, BadRequest(c)
      PROVE  State(breaker'[m]) = State(breaker[m]) /\ breaker'[m].failures = breaker[m].failures
  <2>1. breaker'[m] \in {breaker[m], Release(breaker[m])}
    BY <1>5 DEF BadRequest, Settle, TypeOK
  <2>2. QED
    BY <1>0, <2>1, OpStates
<1>6. ASSUME NEW c \in Calls, Answers(c)
      PROVE  \/ /\ State(breaker'[m]) = State(breaker[m])
                /\ breaker'[m].failures = breaker[m].failures
             \/ /\ State(breaker'[m]) = "closed"
                /\ breaker'[m].failures = 0
  <2>1. breaker'[m] \in {breaker[m], Success(breaker[m])}
    BY <1>6 DEF Answers, Settle, TypeOK
  <2>2. QED
    BY <1>0, <2>1, OpStates
<1>7. ASSUME NEW n \in Models, CooldownEnds(n)
      PROVE  \/ /\ State(breaker'[m]) = State(breaker[m])
                /\ breaker'[m].failures = breaker[m].failures
             \/ /\ State(breaker[m]) = "open" /\ State(breaker'[m]) = "half_open"
                /\ breaker'[m].failures = breaker[m].failures
  <2>1. CASE n = m
    <3>1. breaker'[m] = [breaker[m] EXCEPT !.cooling = FALSE] /\ breaker[m].cooling
      BY <1>7, <2>1 DEF CooldownEnds, TypeOK
    <3>2. breaker'[m].failures = breaker[m].failures /\ ~breaker'[m].cooling
      BY <1>0, <3>1 DEF Breaker
    <3>3. QED
      BY <3>1, <3>2 DEF State
  <2>2. CASE n # m
    BY <1>7, <2>2 DEF CooldownEnds, TypeOK
  <2>3. QED
    BY <2>1, <2>2
<1>8. ASSUME NEW n \in Models, ProviderChanges(n)
      PROVE  breaker'[m] = breaker[m]
  BY <1>8 DEF ProviderChanges
<1>9. CASE UNCHANGED vars
  BY <1>9 DEF vars
<1>10. QED
  BY <1>1, <1>2, <1>3, <1>4, <1>5, <1>6, <1>7, <1>8, <1>9 DEF Next, CallStep

\* Nothing but its own provider's failures counts against a model.
THEOREM OnlyFailuresCount == Spec => HealthyNeverBlamed
<1>1. TypeOK /\ [Next]_vars =>
        [\A m \in Models : breaker'[m].failures > breaker[m].failures => ~healthy[m]]_vars
  <2> SUFFICES ASSUME TypeOK, [Next]_vars, NEW m \in Models,
                      breaker'[m].failures > breaker[m].failures
               PROVE  ~healthy[m]
    OBVIOUS
  <2>1. breaker[m].failures \in Nat
    BY LimitsAssumption DEF TypeOK, Breaker, FailureCap
  <2>2. QED
    BY <2>1, BreakerStep
<1>2. QED
  BY <1>1, Typing, PTL DEF Spec, HealthyNeverBlamed

\* Every model's breaker implements BreakerCycle, whatever the number of
\* calls, their routes and their interleaving.
THEOREM EveryBreakerCycles ==
    ASSUME NEW m \in Models
    PROVE  Spec => Cycle(m)!Spec
<1>1. Init => Cycle(m)!Init
  BY LimitsAssumption DEF Init, Cycle!Init, State
<1>2. TypeOK /\ [Next]_vars => [Cycle(m)!Next]_(State(breaker[m]))
  <2> SUFFICES ASSUME TypeOK, [Next]_vars
               PROVE  [Cycle(m)!Next]_(State(breaker[m]))
    OBVIOUS
  <2>1. State(breaker[m]) \in {"closed", "open", "half_open"}
    BY DEF State
  <2>2. QED
    BY <2>1, BreakerStep
    DEF Cycle!Next, Cycle!Opens, Cycle!CooldownEnds, Cycle!Closes
<1>3. QED
  BY <1>1, <1>2, Typing, PTL DEF Spec, Cycle!Spec
=============================================================================

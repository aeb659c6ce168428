--------------------------- MODULE McpClientProofs ---------------------------
(***************************************************************************)
(* Theorems about McpClient, for every set of calls, every number of       *)
(* retries and of generations.                                             *)
(***************************************************************************)
EXTENDS McpClient, FiniteSetTheorems, TLAPS

-----------------------------------------------------------------------------
(* The inductive invariant *)

Opening == {"connecting", "replacing"}

\* One call at a time opens a connection, and while it does there is none.
OneOpens ==
    /\ \A c, d \in Calls : call[c].pc \in Opening /\ call[d].pc \in Opening => c = d
    /\ \A c \in Calls : call[c].pc \in Opening => current = 0

\* The current connection is the latest one; generations are opened in order.
Generations ==
    /\ current \in {0, gen}
    /\ \A g \in Gens : g <= gen => conns[g].state # "unborn"
    /\ \A g \in Gens : g > gen => /\ conns[g].state = "unborn" /\ ~conns[g].retiring
                                  /\ conns[g].inflight = 0

\* A call that waits, or has lost its connection, had one; a lost one stays
\* lost, and a call with no attempt left does not sleep.
CallsHadOne ==
    \A c \in Calls :
        /\ call[c].pc \in {"waiting", "asleep", "relock"} => call[c].conn \in Gens /\ call[c].conn <= gen
        /\ call[c].pc \in {"asleep", "relock"} => conns[call[c].conn].state # "open"
        /\ call[c].pc = "asleep" => call[c].attempt < Attempts

Inv == /\ TypeOK /\ InflightCounted /\ NoneForgotten /\ OnlyBrokenReplaced
       /\ OneOpens /\ Generations /\ CallsHadOne

\* Only c moves.
OnlyMoves(c) ==
    /\ call' \in [Calls -> CallState]
    /\ \A d \in Calls \ {c} : call'[d] = call[d]

-----------------------------------------------------------------------------
(* What the operations on a connection do, field by field *)

LEMMA Numbers ==
    ASSUME TypeOK
    PROVE  /\ Cardinality(Calls) \in Nat
           /\ Attempts \in Nat \ {0}
           /\ gen \in Nat /\ gen <= MaxGen
           /\ \A g \in Gens : g \in Nat /\ g >= 1 /\ g <= MaxGen
BY ClientAssumption, FS_CardinalityType DEF TypeOK, Attempts, Gens

LEMMA RetiredFields ==
    ASSUME NEW k \in Connection
    PROVE  /\ Retired(k) \in Connection
           /\ Retired(k).retiring = TRUE
           /\ Retired(k).inflight = k.inflight
           /\ Retired(k).state = IF k.inflight = 0 THEN "stopped" ELSE k.state
BY DEF Retired, Connection

LEMMA LeftFields ==
    ASSUME NEW k \in Connection, k.inflight > 0, Cardinality(Calls) \in Nat
    PROVE  /\ Left(k) \in Connection
           /\ Left(k).retiring = k.retiring
           /\ Left(k).inflight = k.inflight - 1
           /\ Left(k).state = IF k.retiring /\ k.inflight = 1 THEN "stopped" ELSE k.state
<1>1. k.inflight \in Nat /\ k.inflight - 1 \in 0..Cardinality(Calls)
  BY DEF Connection
<1>2. QED
  BY <1>1 DEF Left, Connection

LEMMA EnteredFields ==
    ASSUME NEW k \in Connection, k.inflight < Cardinality(Calls), Cardinality(Calls) \in Nat
    PROVE  /\ Entered(k) \in Connection
           /\ Entered(k).retiring = k.retiring
           /\ Entered(k).inflight = k.inflight + 1
           /\ Entered(k).state = k.state
BY DEF Entered, Connection

-----------------------------------------------------------------------------
(* Counting the calls on a connection *)

LEMMA WaitingFinite ==
    ASSUME NEW g
    PROVE  IsFiniteSet(Waiting(g)) /\ Cardinality(Waiting(g)) \in Nat
BY ClientAssumption, FS_Subset, FS_CardinalityType DEF Waiting

\* A call that waits is counted; one that does not leaves room for itself.
LEMMA CountBounds ==
    ASSUME InflightCounted, NEW c \in Calls, NEW g \in Gens
    PROVE  /\ call[c].pc = "waiting" /\ call[c].conn = g => conns[g].inflight > 0
           /\ call[c].pc # "waiting" => conns[g].inflight < Cardinality(Calls)
<1>1. conns[g].inflight = Cardinality(Waiting(g))
  BY DEF InflightCounted
<1>2. ASSUME call[c].pc = "waiting" /\ call[c].conn = g PROVE conns[g].inflight > 0
  <2>1. c \in Waiting(g)
    BY <1>2 DEF Waiting
  <2>2. Cardinality(Waiting(g)) # 0
    BY <2>1, WaitingFinite, FS_EmptySet
  <2>3. QED
    BY <1>1, <2>2, WaitingFinite
<1>3. ASSUME call[c].pc # "waiting" PROVE conns[g].inflight < Cardinality(Calls)
  <2>1. Waiting(g) \subseteq Calls /\ Waiting(g) # Calls
    BY <1>3 DEF Waiting
  <2>2. Cardinality(Waiting(g)) < Cardinality(Calls)
    BY <2>1, WaitingFinite, ClientAssumption, FS_Subset, FS_CardinalityType
  <2>3. QED
    BY <1>1, <2>2
<1>4. QED
  BY <1>2, <1>3

LEMMA EnteringIsCounted ==
    ASSUME InflightCounted, NEW c \in Calls, NEW g \in Gens, OnlyMoves(c),
           call[c].pc # "waiting", call'[c].pc = "waiting", call'[c].conn = g,
           \A h \in Gens : conns'[h].inflight =
                IF h = g THEN conns[h].inflight + 1 ELSE conns[h].inflight
    PROVE  InflightCounted'
<1> SUFFICES ASSUME NEW h \in Gens PROVE conns'[h].inflight = Cardinality(Waiting(h)')
  BY DEF InflightCounted
<1>1. conns[h].inflight = Cardinality(Waiting(h))
  BY DEF InflightCounted
<1>2. CASE h = g
  <2>1. Waiting(h)' = Waiting(h) \cup {c} /\ c \notin Waiting(h)
    BY <1>2 DEF Waiting, OnlyMoves
  <2>2. Cardinality(Waiting(h) \cup {c}) = Cardinality(Waiting(h)) + 1
    BY <2>1, WaitingFinite, FS_AddElement
  <2>3. QED
    BY <1>1, <1>2, <2>1, <2>2
<1>3. CASE h # g
  <2>1. Waiting(h)' = Waiting(h)
    BY <1>3 DEF Waiting, OnlyMoves
  <2>2. QED
    BY <1>1, <1>3, <2>1
<1>4. QED
  BY <1>2, <1>3

LEMMA LeavingIsCounted ==
    ASSUME InflightCounted, NEW c \in Calls, OnlyMoves(c), call[c].conn \in Gens,
           call[c].pc = "waiting", call'[c].pc # "waiting",
           \A h \in Gens : conns'[h].inflight =
                IF h = call[c].conn THEN conns[h].inflight - 1 ELSE conns[h].inflight
    PROVE  InflightCounted'
<1> SUFFICES ASSUME NEW h \in Gens PROVE conns'[h].inflight = Cardinality(Waiting(h)')
  BY DEF InflightCounted
<1>1. conns[h].inflight = Cardinality(Waiting(h))
  BY DEF InflightCounted
<1>2. CASE h = call[c].conn
  <2>1. Waiting(h)' = Waiting(h) \ {c} /\ c \in Waiting(h)
    BY <1>2 DEF Waiting, OnlyMoves
  <2>2. Cardinality(Waiting(h) \ {c}) = Cardinality(Waiting(h)) - 1
    BY <2>1, WaitingFinite, FS_RemoveElement
  <2>3. QED
    BY <1>1, <1>2, <2>1, <2>2
<1>3. CASE h # call[c].conn
  <2>1. Waiting(h)' = Waiting(h)
    BY <1>3 DEF Waiting, OnlyMoves
  <2>2. QED
    BY <1>1, <1>3, <2>1
<1>4. QED
  BY <1>2, <1>3

LEMMA OthersAreCounted ==
    ASSUME InflightCounted, NEW c \in Calls, OnlyMoves(c),
           call[c].pc # "waiting", call'[c].pc # "waiting",
           \A h \in Gens : conns'[h].inflight = conns[h].inflight
    PROVE  InflightCounted'
<1>1. \A h \in Gens : Waiting(h)' = Waiting(h)
  BY DEF Waiting, OnlyMoves
<1>2. QED
  BY <1>1 DEF InflightCounted

-----------------------------------------------------------------------------
(* The kinds of steps a call takes *)

\* A step that touches no connection and neither begins nor ends a wait.
LEMMA QuietStep ==
    ASSUME Inv, NEW c \in Calls, OnlyMoves(c), UNCHANGED <<conns, current, gen>>,
           call[c].pc # "waiting", call'[c].pc \notin {"waiting", "asleep"} \cup Opening,
           call'[c].pc = "relock" => call[c].pc = "asleep" /\ call'[c].conn = call[c].conn
    PROVE  Inv'
<1> USE DEF Inv
<1>1. TypeOK'
  BY DEF TypeOK, OnlyMoves
<1>2. InflightCounted'
  BY OthersAreCounted
<1>3. NoneForgotten' /\ OnlyBrokenReplaced' /\ Generations'
  BY DEF NoneForgotten, OnlyBrokenReplaced, Generations
<1>4. OneOpens'
  BY DEF OneOpens, OnlyMoves
<1>5. CallsHadOne'
  BY DEF CallsHadOne, OnlyMoves, Attempts
<1>6. QED
  BY <1>1, <1>2, <1>3, <1>4, <1>5

\* A call leaves the connection it waits on.
LEMMA LeavingStep ==
    ASSUME Inv, NEW c \in Calls, OnlyMoves(c), UNCHANGED <<current, gen>>,
           call[c].pc = "waiting", Leave(c),
           call'[c].pc \notin {"waiting", "relock"} \cup Opening,
           call'[c].pc = "asleep" => /\ call'[c].conn = call[c].conn
                                     /\ call'[c].attempt < Attempts
                                     /\ conns[call[c].conn].state # "open"
    PROVE  Inv' /\ \A g \in Gens : conns[g].state # "stopped" /\ conns'[g].state = "stopped"
                                    => conns'[g].inflight = 0
<1> DEFINE k == call[c].conn
<1>0. k \in Gens /\ k <= gen /\ conns[k] \in Connection
  BY DEF Inv, CallsHadOne, TypeOK
<1>1. conns[k].inflight > 0 /\ Cardinality(Calls) \in Nat
  BY <1>0, CountBounds, Numbers DEF Inv
<1>2. /\ Left(conns[k]) \in Connection
      /\ Left(conns[k]).retiring = conns[k].retiring
      /\ Left(conns[k]).inflight = conns[k].inflight - 1
      /\ Left(conns[k]).state = IF conns[k].retiring /\ conns[k].inflight = 1
                                 THEN "stopped" ELSE conns[k].state
  BY <1>0, <1>1, LeftFields
<1>3. conns' \in [Gens -> Connection] /\ conns'[k] = Left(conns[k])
  BY <1>0, <1>2 DEF Leave, Inv, TypeOK
<1>4. \A h \in Gens \ {k} : conns'[h] = conns[h]
  BY <1>0 DEF Leave, Inv, TypeOK
<1>5. \A h \in Gens : conns[h].inflight \in Nat
  BY DEF Inv, TypeOK, Connection
<1> HIDE DEF k
<1>6. TypeOK'
  BY <1>3 DEF TypeOK, OnlyMoves, Inv
<1>7. InflightCounted'
  <2>1. \A h \in Gens : conns'[h].inflight =
                IF h = k THEN conns[h].inflight - 1 ELSE conns[h].inflight
    BY <1>2, <1>3, <1>4
  <2>2. QED
    BY <1>0, <2>1, LeavingIsCounted DEF k, Inv
<1>8. OneOpens'
  BY DEF OneOpens, OnlyMoves, Inv
<1>9. \A h \in Gens : /\ conns'[h].state = conns[h].state \/ conns'[h].state = "stopped"
                      /\ conns'[h].retiring = conns[h].retiring
  BY <1>2, <1>3, <1>4
<1>10. OnlyBrokenReplaced'
  BY <1>9 DEF OnlyBrokenReplaced, Inv
<1>11. Generations'
  <2>1. \A h \in Gens : h > gen => h # k
    BY <1>0, Numbers DEF Inv
  <2>2. QED
    BY <1>4, <1>9, <2>1 DEF Generations, Inv
<1>12. CallsHadOne'
  <2>1. \A d \in Calls \ {c} : call'[d] = call[d]
    BY DEF OnlyMoves
  <2>2. CASE call'[c].pc = "asleep"
    BY <1>0, <1>9, <2>1, <2>2 DEF CallsHadOne, Inv, Attempts, k
  <2>3. CASE call'[c].pc # "asleep"
    BY <1>9, <2>1, <2>3 DEF CallsHadOne, Inv, Attempts
  <2>4. QED
    BY <2>2, <2>3
<1>13. NoneForgotten'
  <2> SUFFICES ASSUME NEW h \in Gens, conns'[h].state \notin {"unborn", "stopped"}
               PROVE  h = current' \/ (conns'[h].retiring /\ conns'[h].inflight > 0)
    BY DEF NoneForgotten
  <2>1. conns[h].state = conns'[h].state
    BY <1>9
  <2>2. h = current \/ (conns[h].retiring /\ conns[h].inflight > 0)
    BY <2>1 DEF NoneForgotten, Inv
  <2>3. CASE h = k
    BY <1>2, <1>3, <1>5, <2>2, <2>3
  <2>4. CASE h # k
    BY <1>4, <2>2, <2>4
  <2>5. QED
    BY <2>3, <2>4
<1>14. \A g \in Gens : conns[g].state # "stopped" /\ conns'[g].state = "stopped"
                        => conns'[g].inflight = 0
  BY <1>1, <1>2, <1>3, <1>4
<1>15. QED
  BY <1>6, <1>7, <1>8, <1>10, <1>11, <1>12, <1>13, <1>14 DEF Inv

\* A call begins to wait on the current connection, which is alive.
LEMMA EnteringStep ==
    ASSUME Inv, NEW c \in Calls, call[c].pc = "lock", ~Locked, Alive(current),
           Enter(c, current, conns), UNCHANGED <<current, gen>>
    PROVE  Inv' /\ \A g \in Gens : conns'[g].state = conns[g].state
<1>0. current \in Gens /\ current = gen /\ conns[current] \in Connection
  BY DEF Alive, Inv, Generations, TypeOK, Gens
<1>1. conns[current].inflight < Cardinality(Calls) /\ Cardinality(Calls) \in Nat
  BY <1>0, CountBounds, Numbers DEF Inv
<1>2. /\ Entered(conns[current]) \in Connection
      /\ Entered(conns[current]).retiring = conns[current].retiring
      /\ Entered(conns[current]).inflight = conns[current].inflight + 1
      /\ Entered(conns[current]).state = conns[current].state
  BY <1>0, <1>1, EnteredFields
<1>3. conns' \in [Gens -> Connection] /\ conns'[current] = Entered(conns[current])
  BY <1>0, <1>2 DEF Enter, Inv, TypeOK
<1>4. \A h \in Gens \ {current} : conns'[h] = conns[h]
  BY <1>0 DEF Enter, Inv, TypeOK
<1>5. OnlyMoves(c) /\ call'[c].pc = "waiting" /\ call'[c].conn = current
  <2>1. current \in 0..MaxGen
    BY DEF Inv, TypeOK
  <2>2. call' = [call EXCEPT ![c].pc = "waiting", ![c].conn = current]
    BY DEF Enter
  <2>3. call \in [Calls -> CallState]
    BY DEF Inv, TypeOK
  <2>4. QED
    BY <2>1, <2>2, <2>3 DEF OnlyMoves, CallState, Busy
<1>6. TypeOK'
  BY <1>3, <1>5 DEF TypeOK, OnlyMoves, Inv
<1>7. InflightCounted'
  <2>1. \A h \in Gens : conns'[h].inflight =
                IF h = current THEN conns[h].inflight + 1 ELSE conns[h].inflight
    BY <1>2, <1>3, <1>4
  <2>2. QED
    BY <1>0, <1>5, <2>1, EnteringIsCounted DEF Inv
<1>8. OneOpens'
  BY <1>5 DEF OneOpens, OnlyMoves, Inv, Opening
<1>9. \A h \in Gens : /\ conns'[h].state = conns[h].state
                      /\ conns'[h].retiring = conns[h].retiring
  BY <1>2, <1>3, <1>4
<1>10. OnlyBrokenReplaced'
  BY <1>9 DEF OnlyBrokenReplaced, Inv
<1>11. Generations'
  <2>1. \A h \in Gens : h > gen => h # current
    BY <1>0, Numbers DEF Inv
  <2>2. QED
    BY <1>4, <1>9, <2>1 DEF Generations, Inv
<1>12. CallsHadOne'
  <2>1. gen <= gen
    BY Numbers DEF Inv
  <2>2. QED
    BY <1>0, <1>5, <1>9, <2>1 DEF CallsHadOne, OnlyMoves, Inv, Attempts
<1>13. NoneForgotten'
  BY <1>0, <1>4, <1>9 DEF NoneForgotten, Inv
<1>14. QED
  BY <1>6, <1>7, <1>8, <1>9, <1>10, <1>11, <1>12, <1>13 DEF Inv

\* A call finds the current connection, if there is one, lost: it retires it
\* and begins to open another.
LEMMA RetiringStep ==
    ASSUME Inv, NEW c \in Calls, call[c].pc \in {"lock", "relock"}, ~Locked,
           NEW opening \in Opening,
           current # 0 => conns[current].state # "open",
           conns' = IF current = 0 THEN conns ELSE [conns EXCEPT ![current] = Retired(@)],
           current' = 0,
           call' = [call EXCEPT ![c].pc = opening],
           UNCHANGED gen
    PROVE  Inv' /\ \A g \in Gens : conns[g].state # "stopped" /\ conns'[g].state = "stopped"
                                    => conns'[g].inflight = 0
<1>0. OnlyMoves(c) /\ call'[c].pc = opening
  BY DEF OnlyMoves, CallState, Busy, Opening, Inv, TypeOK
<1>1. \A h \in Gens : conns[h] \in Connection
  BY DEF Inv, TypeOK
<1>2. /\ conns' \in [Gens -> Connection]
      /\ \A h \in Gens : h # current => conns'[h] = conns[h]
      /\ \A h \in Gens : h = current =>
            /\ conns'[h].retiring
            /\ conns'[h].inflight = conns[h].inflight
            /\ conns'[h].state = IF conns[h].inflight = 0 THEN "stopped" ELSE conns[h].state
  <2>1. CASE current = 0
    <3>1. \A h \in Gens : h # 0
      BY DEF Gens
    <3>2. QED
      BY <2>1, <3>1 DEF Inv, TypeOK
  <2>2. CASE current # 0
    <3>1. current \in Gens
      BY <2>2 DEF Inv, TypeOK, Gens
    <3>2. conns' = [conns EXCEPT ![current] = Retired(@)]
      BY <2>2
    <3>3. conns'[current] = Retired(conns[current]) /\ conns[current] \in Connection
      BY <1>1, <3>1, <3>2 DEF Inv, TypeOK
    <3>4. \A h \in Gens : h # current => conns'[h] = conns[h]
      BY <3>1, <3>2 DEF Inv, TypeOK
    <3>5. /\ Retired(conns[current]) \in Connection
          /\ conns'[current].retiring
          /\ conns'[current].inflight = conns[current].inflight
          /\ conns'[current].state = IF conns[current].inflight = 0 THEN "stopped"
                                     ELSE conns[current].state
      BY <3>3, RetiredFields
    <3>6. conns' \in [Gens -> Connection]
      BY <3>1, <3>2, <3>5 DEF Inv, TypeOK
    <3>7. QED
      BY <3>4, <3>5, <3>6
  <2>3. QED
    BY <2>1, <2>2
<1>same. \A h \in Gens : conns'[h].inflight = conns[h].inflight
  BY <1>2
<1>3. \A h \in Gens : /\ conns'[h].inflight = conns[h].inflight
                      /\ conns'[h].inflight \in Nat
                      /\ conns'[h].state = conns[h].state \/ conns'[h].state = "stopped"
  BY <1>1, <1>2 DEF Connection
<1>4. TypeOK'
  BY <1>0, <1>2, ClientAssumption DEF TypeOK, OnlyMoves, Inv
<1>5. InflightCounted'
  <2>1. call[c].pc # "waiting" /\ call'[c].pc # "waiting"
    BY <1>0 DEF Opening
  <2>2. QED
    BY <1>0, <1>same, <2>1, OthersAreCounted DEF Inv
<1>6. OneOpens'
  <2>1. \A d \in Calls : call[d].pc \notin Opening
    BY DEF Locked, Opening
  <2>2. QED
    BY <1>0, <2>1 DEF OneOpens, OnlyMoves
<1>7. OnlyBrokenReplaced'
  <2> SUFFICES ASSUME NEW h \in Gens, conns'[h].retiring PROVE conns'[h].state # "open"
    BY DEF OnlyBrokenReplaced
  <2>1. CASE h = current
    <3>1. current # 0
      BY <2>1 DEF Gens
    <3>2. QED
      BY <1>3, <2>1, <3>1
  <2>2. CASE h # current
    BY <1>2, <2>2 DEF OnlyBrokenReplaced, Inv
  <2>3. QED
    BY <2>1, <2>2
<1>8. Generations'
  <2>1. \A h \in Gens : h > gen => h # current
    <3>1. current = 0 \/ current = gen
      BY DEF Inv, Generations
    <3>2. QED
      BY <3>1, Numbers DEF Inv
  <2>2. QED
    BY <1>2, <1>3, <2>1 DEF Generations, Inv
<1>9. CallsHadOne'
  BY <1>0, <1>3 DEF CallsHadOne, OnlyMoves, Inv, Opening, Attempts
<1>10. NoneForgotten'
  <2> SUFFICES ASSUME NEW h \in Gens, conns'[h].state \notin {"unborn", "stopped"}
               PROVE  conns'[h].retiring /\ conns'[h].inflight > 0
    BY DEF NoneForgotten
  <2>1. CASE h = current
    BY <1>2, <1>3, <2>1
  <2>2. CASE h # current
    BY <1>2, <2>2 DEF NoneForgotten, Inv
  <2>3. QED
    BY <2>1, <2>2
<1>11. \A g \in Gens : conns[g].state # "stopped" /\ conns'[g].state = "stopped"
                        => conns'[g].inflight = 0
  BY <1>2
<1>12. QED
  BY <1>4, <1>5, <1>6, <1>7, <1>8, <1>9, <1>10, <1>11 DEF Inv

\* The session is up.
LEMMA OpenedStep ==
    ASSUME Inv, NEW c \in Calls, Opened(c)
    PROVE  Inv' /\ \A g \in Gens : conns'[g].state # "stopped" \/ conns'[g].state = conns[g].state
<1> DEFINE n == gen + 1
           born == [conns EXCEPT ![n].state = "open"]
<1>0. n \in Gens /\ n \in Nat /\ gen' = n /\ current' = n /\ call[c].pc \in Opening
  BY Numbers, ClientAssumption DEF Opened, Opening, Gens, Inv
<1>1. /\ conns[n] \in Connection /\ conns[n].state = "unborn"
      /\ ~conns[n].retiring /\ conns[n].inflight = 0
  BY <1>0, Numbers DEF Inv, Generations, TypeOK
<1>2. current = 0 /\ \A d \in Calls \ {c} : call[d].pc \notin Opening
  BY <1>0 DEF OneOpens, Inv
<1>3. /\ born \in [Gens -> Connection]
      /\ born[n].state = "open" /\ ~born[n].retiring /\ born[n].inflight = 0
      /\ \A h \in Gens \ {n} : born[h] = conns[h]
  BY <1>0, <1>1 DEF Inv, TypeOK, Connection
<1>4. \/ call[c].pc = "connecting" /\ Enter(c, n, born)
      \/ call[c].pc = "replacing" /\ conns' = born /\ call' = [call EXCEPT ![c].pc = "lock"]
  BY <1>0 DEF Opened, Opening
<1> HIDE DEF n, born
<1>5. /\ conns' \in [Gens -> Connection]
      /\ conns'[n].state = "open" /\ ~conns'[n].retiring
      /\ \A h \in Gens \ {n} : conns'[h] = conns[h]
      /\ OnlyMoves(c) /\ call'[c].pc \in {"waiting", "lock"}
      /\ call'[c].pc = "waiting" => call'[c].conn = n
      /\ InflightCounted'
  <2>1. CASE call[c].pc = "connecting" /\ Enter(c, n, born)
    <3>1. born[n] \in Connection /\ born[n].inflight < Cardinality(Calls)
      BY <1>0, <1>1, <1>3, <2>1, CountBounds DEF Inv
    <3>2. /\ Entered(born[n]) \in Connection
          /\ Entered(born[n]).retiring = born[n].retiring
          /\ Entered(born[n]).inflight = born[n].inflight + 1
          /\ Entered(born[n]).state = born[n].state
      BY <3>1, Numbers, EnteredFields DEF Inv
    <3>3. conns' = [born EXCEPT ![n] = Entered(@)]
      BY <2>1 DEF Enter
    <3>4. conns' \in [Gens -> Connection] /\ conns'[n] = Entered(born[n])
      BY <1>0, <1>3, <3>2, <3>3
    <3>5. \A h \in Gens \ {n} : conns'[h] = conns[h]
      BY <1>0, <1>3, <3>3
    <3>6. n \in 0..MaxGen /\ call' = [call EXCEPT ![c].pc = "waiting", ![c].conn = n]
      BY <1>0, <2>1 DEF Enter, Gens
    <3>7. OnlyMoves(c) /\ call'[c].pc = "waiting" /\ call'[c].conn = n
      BY <3>6 DEF OnlyMoves, CallState, Busy, Inv, TypeOK
    <3>8. \A h \in Gens : conns'[h].inflight =
                IF h = n THEN conns[h].inflight + 1 ELSE conns[h].inflight
      BY <1>1, <1>3, <3>2, <3>4, <3>5
    <3>9. InflightCounted'
      BY <1>0, <2>1, <3>7, <3>8, EnteringIsCounted DEF Inv
    <3>10. QED
      BY <1>3, <3>2, <3>4, <3>5, <3>7, <3>9
  <2>2. CASE call[c].pc = "replacing" /\ conns' = born /\ call' = [call EXCEPT ![c].pc = "lock"]
    <3>1. OnlyMoves(c) /\ call'[c].pc = "lock"
      BY <2>2 DEF OnlyMoves, CallState, Busy, Inv, TypeOK
    <3>2. \A h \in Gens : conns'[h].inflight = conns[h].inflight
      BY <1>1, <1>3, <2>2
    <3>3. InflightCounted'
      BY <2>2, <3>1, <3>2, OthersAreCounted DEF Inv
    <3>4. QED
      BY <1>3, <2>2, <3>1, <3>3
  <2>3. QED
    BY <1>4, <2>1, <2>2
<1>6. TypeOK'
  <2>1. n \in 0..MaxGen
    BY <1>0 DEF Gens
  <2>2. QED
    BY <1>0, <1>5, <2>1 DEF TypeOK, OnlyMoves
<1>7. OneOpens'
  BY <1>2, <1>5 DEF OneOpens, OnlyMoves, Opening
<1>8. OnlyBrokenReplaced'
  BY <1>5 DEF OnlyBrokenReplaced, Inv
<1>9. Generations'
  <2> SUFFICES ASSUME NEW h \in Gens
               PROVE  /\ h <= n => conns'[h].state # "unborn"
                      /\ h > n => /\ conns'[h].state = "unborn" /\ ~conns'[h].retiring
                                  /\ conns'[h].inflight = 0
    BY <1>0 DEF Generations
  <2>1. CASE h = n
    BY <1>0, <1>5, <2>1
  <2>2. CASE h # n
    <3>1. conns'[h] = conns[h] /\ h \in Nat /\ gen \in Nat
      BY <1>5, <2>2, Numbers DEF Inv
    <3>2. h <= n => h <= gen
      BY <2>2, <3>1 DEF n
    <3>3. h > n => h > gen
      BY <3>1 DEF n
    <3>4. QED
      BY <3>1, <3>2, <3>3 DEF Generations, Inv
  <2>3. QED
    BY <2>1, <2>2
<1>10. CallsHadOne'
  <2> SUFFICES ASSUME NEW d \in Calls
               PROVE  /\ call'[d].pc \in {"waiting", "asleep", "relock"} =>
                            call'[d].conn \in Gens /\ call'[d].conn <= n
                      /\ call'[d].pc \in {"asleep", "relock"} =>
                            conns'[call'[d].conn].state # "open"
                      /\ call'[d].pc = "asleep" => call'[d].attempt < Attempts
    BY <1>0 DEF CallsHadOne, Attempts
  <2>1. CASE d = c
    <3>1. n <= n
      BY <1>0
    <3>2. QED
      BY <1>0, <1>5, <2>1, <3>1
  <2>2. CASE d # c
    <3>1. call'[d] = call[d]
      BY <1>5, <2>2 DEF OnlyMoves
    <3>2. ASSUME call[d].conn \in Gens, call[d].conn <= gen
          PROVE  call[d].conn # n /\ call[d].conn <= n
      BY <3>2, Numbers DEF n, Inv
    <3>3. QED
      BY <1>5, <3>1, <3>2 DEF CallsHadOne, Inv
  <2>3. QED
    BY <2>1, <2>2
<1>11. NoneForgotten'
  BY <1>0, <1>2, <1>5 DEF NoneForgotten, Inv, Gens
<1>12. \A g \in Gens : conns'[g].state # "stopped" \/ conns'[g].state = conns[g].state
  BY <1>5
<1>13. QED
  BY <1>5, <1>6, <1>7, <1>8, <1>9, <1>10, <1>11, <1>12 DEF Inv

-----------------------------------------------------------------------------
(* The steps of Next *)

\* What a step of anyone but the closing process does to a connection that
\* stops: no call is on it.
StopsEmpty ==
    \A g \in Gens : conns[g].state # "stopped" /\ conns'[g].state = "stopped"
                   => conns'[g].inflight = 0

LEMMA InitInv == Init => Inv
<1> SUFFICES ASSUME Init PROVE Inv
  OBVIOUS
<1>1. \A g \in Gens : Waiting(g) = {}
  BY DEF Init, Waiting, Fresh
<1>2. InflightCounted
  BY <1>1, FS_EmptySet DEF InflightCounted, Init
<1>3. TypeOK
  <2>1. 0 \in 0..Cardinality(Calls)
    BY ClientAssumption, FS_CardinalityType
  <2>2. Fresh("idle") \in CallState
    BY ClientAssumption DEF Fresh, CallState, Ended, Attempts
  <2>3. QED
    BY <2>1, <2>2, ClientAssumption DEF Init, TypeOK, Connection
<1>4. \A c \in Calls : call[c].pc = "idle"
  BY DEF Init, Fresh
<1>5. OneOpens /\ CallsHadOne
  BY <1>4 DEF OneOpens, CallsHadOne, Opening
<1>6. NoneForgotten /\ OnlyBrokenReplaced
  BY DEF Init, NoneForgotten, OnlyBrokenReplaced
<1>7. Generations
  BY DEF Init, Generations, Gens
<1>8. QED
  BY <1>2, <1>3, <1>5, <1>6, <1>7 DEF Inv

\* A call takes the lock and finds a connection, or has to open one.
LEMMA GetConnectionStep ==
    ASSUME Inv, NEW c \in Calls, GetConnection(c)
    PROVE  Inv' /\ StopsEmpty
<1>1. CASE Alive(current) /\ current' = current /\ Enter(c, current, conns)
  <2>1. call[c].pc = "lock" /\ ~Locked /\ UNCHANGED <<current, gen>>
    BY <1>1 DEF GetConnection
  <2>2. QED
    BY <1>1, <2>1, EnteringStep DEF StopsEmpty
<1>2. CASE /\ ~Alive(current) /\ current' = 0
           /\ conns' = IF current = 0 THEN conns ELSE [conns EXCEPT ![current] = Retired(@)]
           /\ call' = [call EXCEPT ![c].pc = "connecting"]
  <2>1. call[c].pc \in {"lock", "relock"} /\ ~Locked /\ UNCHANGED gen
    BY DEF GetConnection
  <2>2. current # 0 => conns[current].state # "open"
    BY <1>2 DEF Alive, Inv, TypeOK, Gens
  <2>3. "connecting" \in Opening
    BY DEF Opening
  <2>4. QED
    BY <1>2, <2>1, <2>2, <2>3, RetiringStep DEF StopsEmpty
<1>3. QED
  BY <1>1, <1>2 DEF GetConnection, ConnectLocked

\* A call replaces the connection it lost, or finds it replaced.
LEMMA ReplaceStep ==
    ASSUME Inv, NEW c \in Calls, Replace(c)
    PROVE  Inv' /\ StopsEmpty
<1> DEFINE k == IF current = call[c].conn THEN 0 ELSE current
<1>0. call[c].pc = "relock" /\ ~Locked /\ UNCHANGED gen
  BY DEF Replace
<1>1. CASE Alive(k) /\ current' = k /\ call' = [call EXCEPT ![c].pc = "lock"] /\ UNCHANGED conns
  <2>1. k = current
    BY <1>1 DEF Alive, Gens
  <2>2. OnlyMoves(c) /\ call'[c].pc = "lock"
    BY <1>1 DEF OnlyMoves, CallState, Busy, Inv, TypeOK
  <2>3. UNCHANGED <<conns, current, gen>>
    BY <1>0, <1>1, <2>1
  <2>4. Inv'
    BY <1>0, <2>2, <2>3, QuietStep DEF Opening
  <2>5. QED
    BY <2>3, <2>4 DEF StopsEmpty
<1>2. CASE /\ ~Alive(k) /\ current' = 0
           /\ conns' = IF current = 0 THEN conns ELSE [conns EXCEPT ![current] = Retired(@)]
           /\ call' = [call EXCEPT ![c].pc = "replacing"]
  <2>1. current # 0 => conns[current].state # "open"
    <3>1. CASE current = call[c].conn
      BY <1>0, <3>1 DEF Inv, CallsHadOne
    <3>2. CASE current # call[c].conn
      BY <1>2, <3>2 DEF Alive, Inv, TypeOK, Gens
    <3>3. QED
      BY <3>1, <3>2
  <2>2. "replacing" \in Opening
    BY DEF Opening
  <2>3. QED
    BY <1>0, <1>2, <2>1, <2>2, RetiringStep DEF StopsEmpty
<1>3. QED
  BY <1>1, <1>2 DEF Replace, ConnectLocked

\* A call ends its wait, one way or the other.
LEMMA WaitEnds ==
    ASSUME Inv, NEW c \in Calls, Replies(c) \/ TimesOut(c) \/ LosesConnection(c)
    PROVE  Inv' /\ StopsEmpty
<1>0. call[c].pc = "waiting" /\ Leave(c) /\ UNCHANGED <<current, gen>>
  BY DEF Replies, TimesOut, LosesConnection
<1>1. call \in [Calls -> CallState] /\ Attempts \in Nat \ {0}
  BY Numbers DEF Inv, TypeOK
<1>2. CASE Replies(c) \/ TimesOut(c)
  <2>1. OnlyMoves(c) /\ call'[c].pc \in {"done", "timed_out"}
    BY <1>1, <1>2 DEF OnlyMoves, Replies, TimesOut, CallState, Ended
  <2>2. QED
    BY <1>0, <2>1, LeavingStep DEF Opening, StopsEmpty
<1>3. CASE LosesConnection(c)
  <2>1. CASE call' = [call EXCEPT ![c].pc = "lock", ![c].free = @ - 1] /\ call[c].free > 0
    <3>1. call[c].free - 1 \in 0..Attempts
      BY <1>1, <2>1 DEF CallState
    <3>2. OnlyMoves(c) /\ call'[c].pc = "lock"
      BY <1>1, <2>1, <3>1 DEF OnlyMoves, CallState, Busy
    <3>3. QED
      BY <1>0, <3>2, LeavingStep DEF Opening, StopsEmpty
  <2>2. CASE call' = [call EXCEPT ![c].pc =
                        IF call[c].attempt = Attempts THEN "failed" ELSE "asleep"]
    <3>1. /\ OnlyMoves(c) /\ call'[c].pc \in {"failed", "asleep"}
          /\ call'[c].conn = call[c].conn /\ call'[c].attempt = call[c].attempt
          /\ call'[c].pc = "asleep" => call[c].attempt # Attempts
      BY <1>1, <2>2 DEF OnlyMoves, CallState, Busy, Ended
    <3>2. call'[c].pc = "asleep" => call'[c].attempt < Attempts
      BY <1>1, <3>1 DEF CallState
    <3>3. conns[call[c].conn].state # "open"
      BY <1>3 DEF LosesConnection
    <3>4. QED
      BY <1>0, <3>1, <3>2, <3>3, LeavingStep DEF Opening, StopsEmpty
  <2>3. QED
    BY <1>3, <2>1, <2>2 DEF LosesConnection
<1>4. QED
  BY <1>2, <1>3

\* Steps that touch no connection.
LEMMA QuietSteps ==
    ASSUME Inv, NEW c \in Calls, Start(c) \/ OpenFails(c) \/ Wakes(c)
    PROVE  Inv' /\ StopsEmpty
<1>1. UNCHANGED <<conns, current, gen>>
  BY DEF Start, OpenFails, Wakes
<1>2. call \in [Calls -> CallState] /\ Attempts \in Nat \ {0}
  BY Numbers DEF Inv, TypeOK
<1>3. StopsEmpty
  BY <1>1 DEF StopsEmpty
<1>4. CASE Start(c)
  <2>1. Fresh("lock") \in CallState
    BY <1>2, ClientAssumption DEF Fresh, CallState, Busy
  <2>2. OnlyMoves(c) /\ call'[c].pc = "lock" /\ call[c].pc # "waiting"
    BY <1>2, <1>4, <2>1 DEF OnlyMoves, Start, Fresh, Ended
  <2>3. QED
    BY <1>1, <1>3, <2>2, QuietStep DEF Opening
<1>5. CASE OpenFails(c)
  <2>1. OnlyMoves(c) /\ call'[c].pc = "failed" /\ call[c].pc # "waiting"
    BY <1>2, <1>5 DEF OnlyMoves, OpenFails, CallState, Ended
  <2>2. QED
    BY <1>1, <1>3, <2>1, QuietStep DEF Opening
<1>6. CASE Wakes(c)
  <2>1. call[c].pc = "asleep" /\ call[c].attempt + 1 \in 1..Attempts
    BY <1>2, <1>6 DEF Wakes, Inv, CallsHadOne, CallState
  <2>2. OnlyMoves(c) /\ call'[c].pc = "relock" /\ call'[c].conn = call[c].conn
    BY <1>2, <1>6, <2>1 DEF OnlyMoves, Wakes, CallState, Busy
  <2>3. QED
    BY <1>1, <1>3, <2>1, <2>2, QuietStep DEF Opening
<1>7. QED
  BY <1>4, <1>5, <1>6

\* A call is cancelled at any of its awaits.
LEMMA CancelStep ==
    ASSUME Inv, NEW c \in Calls, Cancel(c)
    PROVE  Inv' /\ StopsEmpty
<1>1. UNCHANGED <<current, gen>>
  BY DEF Cancel
<1>2. OnlyMoves(c) /\ call'[c].pc = "cancelled"
  BY DEF OnlyMoves, Cancel, CallState, Ended, Inv, TypeOK
<1>3. CASE call[c].pc = "waiting"
  <2>1. Leave(c)
    BY <1>3 DEF Cancel
  <2>2. QED
    BY <1>1, <1>2, <1>3, <2>1, LeavingStep DEF Opening, StopsEmpty
<1>4. CASE call[c].pc # "waiting"
  <2>1. UNCHANGED <<conns, current, gen>>
    BY <1>1, <1>4 DEF Cancel
  <2>2. QED
    BY <1>2, <1>4, <2>1, QuietStep DEF Opening, StopsEmpty
<1>5. QED
  BY <1>3, <1>4

\* Connections that break or are stopped, with nobody moving: all but
\* NoneForgotten follows from that alone.
LEMMA OnlyStatesChange ==
    ASSUME Inv, UNCHANGED <<gen, call>>, current' \in {0, current},
           conns' \in [Gens -> Connection],
           \A h \in Gens : /\ conns'[h].retiring = conns[h].retiring
                           /\ conns'[h].inflight = conns[h].inflight
                           /\ \/ conns'[h].state = conns[h].state
                              \/ /\ conns[h].state # "unborn"
                                 /\ conns'[h].state \in {"broken", "closed", "stopped"}
    PROVE  TypeOK' /\ InflightCounted' /\ OnlyBrokenReplaced' /\ OneOpens' /\ Generations'
           /\ CallsHadOne'
<1>1. TypeOK'
  BY ClientAssumption DEF Inv, TypeOK
<1>2. InflightCounted'
  <2>1. \A h \in Gens : Waiting(h)' = Waiting(h)
    BY DEF Waiting
  <2>2. QED
    BY <2>1 DEF InflightCounted, Inv
<1>3. OnlyBrokenReplaced'
  BY DEF OnlyBrokenReplaced, Inv
<1>4. OneOpens'
  BY DEF OneOpens, Inv
<1>5. Generations'
  BY DEF Generations, Inv
<1>6. CallsHadOne'
  BY DEF CallsHadOne, Attempts, Inv
<1>7. QED
  BY <1>1, <1>2, <1>3, <1>4, <1>5, <1>6

LEMMA BreaksStep ==
    ASSUME Inv, NEW g \in Gens, Breaks(g)
    PROVE  Inv' /\ StopsEmpty
<1>1. /\ conns[g].state \in {"open", "broken"}
      /\ \E s \in {"broken", "closed"} : conns' = [conns EXCEPT ![g].state = s]
      /\ UNCHANGED <<current, gen, call>>
  BY DEF Breaks, Alive
<1>2. PICK s \in {"broken", "closed"} : conns' = [conns EXCEPT ![g].state = s]
  BY <1>1
<1>3. /\ conns' \in [Gens -> Connection]
      /\ \A h \in Gens : /\ conns'[h].retiring = conns[h].retiring
                          /\ conns'[h].inflight = conns[h].inflight
                          /\ h # g => conns'[h].state = conns[h].state
      /\ conns'[g].state = s
  BY <1>2 DEF Inv, TypeOK, Connection
<1>4. \A h \in Gens : \/ conns'[h].state = conns[h].state
                      \/ /\ conns[h].state # "unborn"
                         /\ conns'[h].state \in {"broken", "closed", "stopped"}
  BY <1>1, <1>3
<1>5. NoneForgotten'
  BY <1>1, <1>3 DEF NoneForgotten, Inv
<1>6. StopsEmpty
  BY <1>2, <1>3 DEF StopsEmpty
<1>7. QED
  BY <1>1, <1>3, <1>4, <1>5, <1>6, OnlyStatesChange DEF Inv

LEMMA CloseStep ==
    ASSUME Inv, Close
    PROVE  Inv'
<1> DEFINE Shut(g) == Alive(g) \/ conns[g].state = "closed"
<1>1. /\ current' = 0 /\ UNCHANGED <<gen, call>>
      /\ conns' = [g \in Gens |-> IF Shut(g) THEN [conns[g] EXCEPT !.state = "stopped"]
                                  ELSE conns[g]]
  BY DEF Close
<1>2. \A g \in Gens : Shut(g) <=> conns[g].state \in {"open", "broken", "closed"}
  BY DEF Alive
<1> HIDE DEF Shut
<1>3. \A g \in Gens : [conns[g] EXCEPT !.state = "stopped"] \in Connection
  BY DEF Inv, TypeOK, Connection
<1>4. conns' \in [Gens -> Connection]
  BY <1>1, <1>3 DEF Inv, TypeOK
<1>5. \A g \in Gens : /\ conns'[g].retiring = conns[g].retiring
                      /\ conns'[g].inflight = conns[g].inflight
                      /\ conns'[g].state = IF Shut(g) THEN "stopped" ELSE conns[g].state
  BY <1>1 DEF Inv, TypeOK, Connection
<1>6. \A h \in Gens : \/ conns'[h].state = conns[h].state
                      \/ /\ conns[h].state # "unborn"
                         /\ conns'[h].state \in {"broken", "closed", "stopped"}
  BY <1>2, <1>5
<1>7. \A g \in Gens : conns'[g].state \in {"unborn", "stopped"}
  <2>1. \A g \in Gens : conns[g].state \in {"unborn", "open", "broken", "closed", "stopped"}
    BY DEF Inv, TypeOK, Connection
  <2>2. QED
    BY <1>2, <1>5, <2>1
<1>8. NoneForgotten'
  BY <1>7 DEF NoneForgotten
<1>9. QED
  BY <1>1, <1>4, <1>5, <1>6, <1>8, OnlyStatesChange DEF Inv

\* Every step keeps the invariant, and stops no connection under a call
\* unless the process closes.
LEMMA NextInv ==
    ASSUME Inv, Next
    PROVE  Inv' /\ (StopsEmpty \/ Close)
<1>1. ASSUME NEW c \in Calls, CallStep(c) PROVE Inv' /\ StopsEmpty
  <2>1. CASE Opened(c)
    BY <2>1, OpenedStep DEF StopsEmpty
  <2>2. CASE GetConnection(c)
    BY <2>2, GetConnectionStep
  <2>3. CASE Replace(c)
    BY <2>3, ReplaceStep
  <2>4. CASE Replies(c) \/ TimesOut(c) \/ LosesConnection(c)
    BY <2>4, WaitEnds
  <2>5. CASE Start(c) \/ OpenFails(c) \/ Wakes(c)
    BY <2>5, QuietSteps
  <2>6. CASE Cancel(c)
    BY <2>6, CancelStep
  <2>7. QED
    BY <1>1, <2>1, <2>2, <2>3, <2>4, <2>5, <2>6 DEF CallStep
<1>2. ASSUME NEW g \in Gens, Breaks(g) PROVE Inv' /\ StopsEmpty
  BY <1>2, BreaksStep
<1>3. CASE Close
  BY <1>3, CloseStep
<1>4. QED
  BY <1>1, <1>2, <1>3 DEF Next

LEMMA StutterInv ==
    ASSUME Inv, UNCHANGED vars
    PROVE  Inv'
BY DEF vars, Inv, TypeOK, InflightCounted, Waiting, NoneForgotten, OnlyBrokenReplaced, OneOpens,
       Generations, CallsHadOne, Attempts

-----------------------------------------------------------------------------
(* Theorems *)

LEMMA Invariance == Spec => []Inv
<1>1. Inv /\ [Next]_vars => Inv'
  BY NextInv, StutterInv
<1>2. QED
  BY InitInv, <1>1, PTL DEF Spec

\* Every variable of the client keeps its type.
THEOREM Typing == Spec => []TypeOK
BY Invariance, PTL DEF Inv

\* A connection's count of the calls on it is right, whichever way calls
\* come and go.
THEOREM CountIsRight == Spec => []InflightCounted
BY Invariance, PTL DEF Inv

\* No connection is left open that is neither current nor serving its last
\* calls.
THEOREM NothingIsForgotten == Spec => []NoneForgotten
BY Invariance, PTL DEF Inv

\* Only connections that are broken are replaced: one outage, one reconnect.
THEOREM OneReconnectPerOutage == Spec => []OnlyBrokenReplaced
BY Invariance, PTL DEF Inv

\* No call loses its connection to another call's reconnect.
THEOREM NoCallIsCutOff == Spec => NotCutOff
<1> DEFINE Stops(g) == conns[g].state # "stopped" /\ conns'[g].state = "stopped"
<1>1. ASSUME Inv, Inv', Next, NEW g \in Gens, Stops(g), ~Close
      PROVE  Waiting(g)' = {}
  <2>1. conns'[g].inflight = 0
    BY <1>1, NextInv DEF StopsEmpty
  <2>2. Cardinality(Waiting(g)') = 0
    BY <1>1, <2>1 DEF Inv, InflightCounted
  <2>3. IsFiniteSet(Waiting(g)')
    BY ClientAssumption, FS_Subset DEF Waiting
  <2>4. QED
    BY <2>2, <2>3, FS_EmptySet
<1>2. Inv /\ Inv' /\ [Next]_vars => [\A g \in Gens : Stops(g) => Waiting(g)' = {} \/ Close]_vars
  BY <1>1
<1>3. QED
  BY Invariance, <1>2, PTL DEF Spec, NotCutOff

=============================================================================

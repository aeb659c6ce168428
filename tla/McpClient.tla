----------------------------- MODULE McpClient -----------------------------
(***************************************************************************)
(* Tool calls over one shared, replaceable connection                      *)
(* (mcp_client/client.py).                                                 *)
(*                                                                         *)
(* Every call takes the current connection, opening one if there is none.  *)
(* A call that loses its connection backs off and replaces it; one that    *)
(* finds it already replaced goes again at once.  A replaced connection is *)
(* retired: it serves the calls it has and closes after the last.  Only    *)
(* opening a connection awaits with the lock held, so the lock is taken    *)
(* exactly while some call is opening one.                                 *)
(*                                                                         *)
(* Generations are numbered and bounded by MaxGen: the environment breaks  *)
(* no connection whose successor would go beyond it.                       *)
(***************************************************************************)
EXTENDS Integers, FiniteSets

CONSTANTS
    Calls,      \* the tool calls under way, of one turn or of several
    Retries,    \* mcp.transport_retries
    MaxGen      \* bound: generations opened

ASSUME ClientAssumption ==
    /\ IsFiniteSet(Calls)
    /\ Retries \in Nat
    /\ MaxGen \in Nat \ {0}

VARIABLES
    conns,      \* per generation: state, retiring, inflight
    current,    \* generation of self._conn, 0 for None
    gen,        \* self._gen
    call        \* per call: where it is, its connection, attempts, free retries

vars == <<conns, current, gen, call>>

Gens == 1..MaxGen
Attempts == Retries + 1

\* "broken": calls on it raise, though its streams still look open.
\* "closed": its streams are closed, or its task has ended.
Connection == [state : {"unborn", "open", "broken", "closed", "stopped"},
               retiring : BOOLEAN, inflight : 0..Cardinality(Calls)]

\* "lock" and "relock": waiting for the lock, to call and to replace.
\* "connecting" and "replacing": opening a connection, lock held.
Ended == {"idle", "done", "timed_out", "failed", "cancelled"}
Busy  == {"lock", "connecting", "waiting", "asleep", "relock", "replacing"}

CallState == [pc : Ended \cup Busy, conn : 0..MaxGen, attempt : 1..Attempts, free : 0..Attempts]

Fresh(pc) == [pc |-> pc, conn |-> 0, attempt |-> 1, free |-> Attempts]

Locked == \E c \in Calls : call[c].pc \in {"connecting", "replacing"}

Alive(g) == g \in Gens /\ conns[g].state \in {"open", "broken"}

Waiting(g) == {c \in Calls : call[c].pc = "waiting" /\ call[c].conn = g}

Init ==
    /\ conns = [g \in Gens |-> [state |-> "unborn", retiring |-> FALSE, inflight |-> 0]]
    /\ current = 0
    /\ gen = 0
    /\ call = [c \in Calls |-> Fresh("idle")]

-----------------------------------------------------------------------------
(* Connections *)

\* Mutant: a replaced connection is closed at once.
MutRetiredClosesNow(k) == [k EXCEPT !.retiring = TRUE, !.state = "stopped"]

\* _retire: no longer given out; closed now if nothing runs on it.
Retired(k) ==
    [k EXCEPT !.retiring = TRUE, !.state = IF k.inflight = 0 THEN "stopped" ELSE @]

\* The call that leaves a retired connection last closes it.
Left(k) ==
    [k EXCEPT !.inflight = @ - 1,
              !.state = IF k.retiring /\ k.inflight = 1 THEN "stopped" ELSE @]

Entered(k) == [k EXCEPT !.inflight = @ + 1]

\* Mutant: the connection found dead is dropped without being retired.
MutConnectDropsDead(c, k, reuse, opening) ==
    \/ /\ Alive(k)
       /\ current' = k
       /\ reuse
    \/ /\ ~Alive(k)
       /\ conns' = conns
       /\ current' = 0
       /\ call' = [call EXCEPT ![c].pc = opening]

\* _connect_locked for c: go on with the current connection if it is alive,
\* else retire it and open another.  `reuse` is what c does in the first case.
ConnectLocked(c, k, reuse, opening) ==
    \/ /\ Alive(k)
       /\ current' = k
       /\ reuse
    \/ /\ ~Alive(k)
       /\ conns' = IF current = 0 THEN conns ELSE [conns EXCEPT ![current] = Retired(@)]
       /\ current' = 0
       /\ call' = [call EXCEPT ![c].pc = opening]

\* The rest of _call_once up to its await.
Enter(c, g, ks) ==
    /\ conns' = [ks EXCEPT ![g] = Entered(@)]
    /\ call' = [call EXCEPT ![c].pc = "waiting", ![c].conn = g]

-----------------------------------------------------------------------------
(* call_tool *)

Start(c) ==
    /\ call[c].pc \in Ended
    /\ call' = [call EXCEPT ![c] = Fresh("lock")]
    /\ UNCHANGED <<conns, current, gen>>

GetConnection(c) ==
    /\ call[c].pc = "lock" /\ ~Locked
    /\ ConnectLocked(c, current, Enter(c, current, conns), "connecting")
    /\ UNCHANGED gen

\* The session is up: the new generation is the current one.
Opened(c) ==
    /\ call[c].pc \in {"connecting", "replacing"}
    /\ gen < MaxGen
    /\ gen' = gen + 1
    /\ current' = gen + 1
    /\ LET born == [conns EXCEPT ![gen + 1].state = "open"] IN
        IF call[c].pc = "connecting"
        THEN Enter(c, gen + 1, born)
        ELSE conns' = born /\ call' = [call EXCEPT ![c].pc = "lock"]

\* Mutant: a server that cannot be reached is tried for ever.
MutOpenFailsRetries(c) ==
    /\ call[c].pc \in {"connecting", "replacing"}
    /\ call' = [call EXCEPT ![c].pc = "lock"]
    /\ UNCHANGED <<conns, current, gen>>

\* The server cannot be reached.  The error leaves call_tool as it is: opening
\* is outside the try that counts attempts.
OpenFails(c) ==
    /\ call[c].pc \in {"connecting", "replacing"}
    /\ call' = [call EXCEPT ![c].pc = "failed"]
    /\ UNCHANGED <<conns, current, gen>>

Leave(c) == conns' = [conns EXCEPT ![call[c].conn] = Left(@)]

\* An answer; an error the tool reports is one.
Replies(c) ==
    /\ call[c].pc = "waiting"
    /\ conns[call[c].conn].state = "open"
    /\ Leave(c)
    /\ call' = [call EXCEPT ![c].pc = "done"]
    /\ UNCHANGED <<current, gen>>

\* Mutant: a call that times out does not leave its connection.
MutTimesOutStays(c) ==
    /\ call[c].pc = "waiting"
    /\ call' = [call EXCEPT ![c].pc = "timed_out"]
    /\ UNCHANGED <<conns, current, gen>>

\* No answer in call_timeout_seconds: not retried.
TimesOut(c) ==
    /\ call[c].pc = "waiting"
    /\ Leave(c)
    /\ call' = [call EXCEPT ![c].pc = "timed_out"]
    /\ UNCHANGED <<current, gen>>

\* The session raises, or the probe finds its streams closed.  Already
\* replaced: again at once.  Else back off, or give up.
LosesConnection(c) ==
    /\ call[c].pc = "waiting"
    /\ conns[call[c].conn].state # "open"
    /\ Leave(c)
    /\ \/ /\ call[c].conn # gen /\ call[c].free > 0
          /\ call' = [call EXCEPT ![c].pc = "lock", ![c].free = @ - 1]
       \/ /\ call[c].conn = gen \/ call[c].free = 0
          /\ call' = [call EXCEPT ![c].pc = IF call[c].attempt = Attempts THEN "failed" ELSE "asleep"]
    /\ UNCHANGED <<current, gen>>

Wakes(c) ==
    /\ call[c].pc = "asleep"
    /\ call' = [call EXCEPT ![c].pc = "relock", ![c].attempt = @ + 1]
    /\ UNCHANGED <<conns, current, gen>>

\* Mutant: the current connection is replaced, whichever c lost.
MutReplaceAny(c) ==
    /\ call[c].pc = "relock" /\ ~Locked
    /\ ConnectLocked(c, 0, call' = [call EXCEPT ![c].pc = "lock"] /\ UNCHANGED conns, "replacing")
    /\ UNCHANGED gen

\* _replace: reconnect, unless another call has replaced the connection c lost.
Replace(c) ==
    /\ call[c].pc = "relock" /\ ~Locked
    /\ ConnectLocked(c, IF current = call[c].conn THEN 0 ELSE current,
                     call' = [call EXCEPT ![c].pc = "lock"] /\ UNCHANGED conns, "replacing")
    /\ UNCHANGED gen

\* The turn's time limit cancels the call at its await.
Cancel(c) ==
    /\ call[c].pc \in Busy
    /\ IF call[c].pc = "waiting" THEN Leave(c) ELSE UNCHANGED conns
    /\ call' = [call EXCEPT ![c].pc = "cancelled"]
    /\ UNCHANGED <<current, gen>>

-----------------------------------------------------------------------------
(* The server, and the end of the process *)

\* A connection breaks, noticeably or not.
Breaks(g) ==
    /\ \/ conns[g].state = "open" /\ conns' = [conns EXCEPT ![g].state = "broken"]
       \/ Alive(g) /\ conns' = [conns EXCEPT ![g].state = "closed"]
    /\ g = gen => gen < MaxGen
    /\ UNCHANGED <<current, gen, call>>

\* The API shuts down; calls of turns nobody waits for may still be running.
Close ==
    /\ ~Locked
    /\ gen < MaxGen
    /\ current' = 0
    /\ conns' = [g \in Gens |-> IF Alive(g) \/ conns[g].state = "closed"
                                THEN [conns[g] EXCEPT !.state = "stopped"] ELSE conns[g]]
    /\ UNCHANGED <<gen, call>>

CallStep(c) ==
    \/ Start(c) \/ GetConnection(c) \/ Opened(c) \/ OpenFails(c) \/ Replies(c) \/ TimesOut(c)
    \/ LosesConnection(c) \/ Wakes(c) \/ Replace(c) \/ Cancel(c)

Next ==
    \/ \E c \in Calls : CallStep(c)
    \/ \E g \in Gens : Breaks(g)
    \/ Close

Spec == Init /\ [][Next]_vars

-----------------------------------------------------------------------------
(* Properties *)

\* Every variable keeps its type.
TypeOK ==
    /\ conns \in [Gens -> Connection]
    /\ current \in 0..MaxGen
    /\ gen \in 0..MaxGen
    /\ call \in [Calls -> CallState]

\* A connection knows how many calls run on it, whichever way they leave it:
\* a wrong count closes it under a call, or never.
InflightCounted == \A g \in Gens : conns[g].inflight = Cardinality(Waiting(g))

\* No connection is opened and forgotten: one that is not closed is the current
\* one, or retired and kept for the calls still on it.
NoneForgotten ==
    \A g \in Gens : conns[g].state \notin {"unborn", "stopped"} =>
        g = current \/ (conns[g].retiring /\ conns[g].inflight > 0)

\* "One outage causes one reconnect, not one per call" (client.py): whoever
\* replaces a connection replaces one that is broken, however late it comes.
OnlyBrokenReplaced == \A g \in Gens : conns[g].retiring => conns[g].state # "open"

\* A replaced connection is closed after its last call, not under it; only the
\* end of the process cuts calls off.
NotCutOff ==
    [][\A g \in Gens :
        conns[g].state # "stopped" /\ conns'[g].state = "stopped" => Waiting(g)' = {} \/ Close]_vars

-----------------------------------------------------------------------------
(* Fairness and liveness *)

\* Opening a connection ends, one way or the other; a wait is bounded by its
\* deadline, a backoff by its sleep.  asyncio.Lock is first come, first served.
FairCall(c) ==
    /\ WF_vars(Opened(c) \/ OpenFails(c))
    /\ WF_vars(Replies(c) \/ TimesOut(c) \/ LosesConnection(c))
    /\ WF_vars(Wakes(c))
    /\ SF_vars(GetConnection(c))
    /\ SF_vars(Replace(c))

FairSpec == Spec /\ \A c \in Calls : FairCall(c)

\* Every tool call ends, by an answer or an error.
EveryCallEnds == \A c \in Calls : call[c].pc \in Busy ~> call[c].pc \in Ended
=============================================================================

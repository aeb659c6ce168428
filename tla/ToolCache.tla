----------------------------- MODULE ToolCache -----------------------------
(***************************************************************************)
(* The tool server's result cache (mcp_server/cache.py) over the corpus    *)
(* that ingestion changes: a corpus version read at most every             *)
(* version_check_seconds, entries keyed by it, the least recently used     *)
(* ones evicted.  A key stands for a call cached() may keep: a search      *)
(* (search_cache_key) or a query of reference tables only (sql_cache_key). *)
(* A result is told apart by the number of ingestions committed before it  *)
(* was computed.                                                           *)
(***************************************************************************)
EXTENDS Corpus, Sequences, SequencesExt

CONSTANTS
    Callers,    \* calls the server has under way at once
    Keys,       \* what they ask
    MaxEntries, \* cache.max_entries
    MaxCalls    \* bound: calls

ASSUME CacheAssumption == MaxEntries \in Nat \ {0} /\ MaxCalls \in Nat /\ IsFiniteSet(Docs)

VARIABLES
    version,    \* _version, whether version_check_seconds have not passed, and
                \* (ghost) the ingestions committed when it was read
    call,       \* where each call is in cached()
    data,       \* TTLCache._data, least recently used first
    calls,      \* calls made
    changes,    \* ghost: ingestions committed
    used,       \* ghost: every full key, in the order of its last use
    popped      \* ghost: the full keys dropped as expired

cacheVars == <<version, call, data, calls, changes, used, popped>>
vars == <<corpusVars, cacheVars>>

\* SELECT count(*), max(ingested_at) FROM documents
CorpusVersion ==
    <<Cardinality(Present), Max({docs[d].at : d \in Present} \cup {0})>>

\* Mutant: the key does not include the version.
MutFullKeyUnversioned(ver, key) == <<<<0, 0>>, key>>

FullKey(ver, key) == <<ver, key>>

NoCall == [pc |-> "idle", key |-> None, ver |-> None, at |-> 0, found |-> 0]

CallState == [pc : {"idle", "reading", "read", "missed", "searched", "answered"},
              key : Keys \cup {None}, ver : (Nat \X Nat) \cup {None}, at : Nat, found : Nat]

\* used once k has been used again.
Recency(k) == Append(RemoveFirst(used, k), k)

CacheTypeOK ==
    /\ version \in [fresh : BOOLEAN, value : (Nat \X Nat) \cup {None}, at : Nat]
    /\ call \in [Callers -> CallState]
    /\ data \in Seq([key : (Nat \X Nat) \X Keys, fresh : BOOLEAN, found : Nat])
    /\ Len(data) <= MaxEntries
    /\ IsInjective([i \in 1..Len(data) |-> data[i].key])

CacheInit ==
    /\ version = [fresh |-> FALSE, value |-> None, at |-> 0]
    /\ call = [c \in Callers |-> NoCall]
    /\ data = <<>>
    /\ calls = 0
    /\ changes = 0
    /\ used = <<>>
    /\ popped = {}

-----------------------------------------------------------------------------
(* TTLCache *)

\* Mutant: a hit stays where it is in the order.
MutTouchedInPlace(i) == data

\* A hit is moved to the end.
Touched(i) == Append(RemoveAt(data, i), data[i])

\* _data after a put, the oldest entry over the limit evicted.
StoredIn(k, found) ==
    LET kept == RemoveFirstMatch(data, LAMBDA e : e.key = k)
        all == Append(kept, [key |-> k, fresh |-> TRUE, found |-> found])
    IN  IF Len(all) > MaxEntries THEN Tail(all) ELSE all

\* TTLCache.get in cached(): a hit is the answer, an expired entry is dropped.
LookUp(c, key, ver, at) ==
    LET k == FullKey(ver, key)
        here == {i \in 1..Len(data) : data[i].key = k}
        to(pc, found) == call' = [call EXCEPT ![c] =
            [pc |-> pc, key |-> key, ver |-> ver, at |-> at, found |-> found]]
    IN  \/ \E i \in here : data[i].fresh
               /\ to("answered", data[i].found)
               /\ data' = Touched(i)
               /\ used' = Recency(k)
               /\ UNCHANGED popped
        \/ \E i \in here : ~data[i].fresh
               /\ to("missed", 0)
               /\ data' = RemoveAt(data, i)
               /\ popped' = popped \cup {k}
               /\ UNCHANGED used
        \/ /\ here = {}
           /\ to("missed", 0)
           /\ UNCHANGED <<data, used, popped>>

-----------------------------------------------------------------------------
(* cached *)

Ask(c, key) ==
    /\ call[c].pc = "idle"
    /\ calls < MaxCalls
    /\ calls' = calls + 1
    /\ IF version.fresh
       THEN LookUp(c, key, version.value, version.at)
       ELSE /\ call' = [call EXCEPT ![c] = [NoCall EXCEPT !.pc = "reading", !.key = key]]
            /\ UNCHANGED <<data, used, popped>>
    /\ UNCHANGED <<corpusVars, version, changes>>

\* The thread of corpus_version has its row.
ReadVersion(c) ==
    /\ call[c].pc = "reading"
    /\ call' = [call EXCEPT ![c].pc = "read", ![c].ver = CorpusVersion, ![c].at = changes]
    /\ UNCHANGED <<corpusVars, version, data, calls, changes, used, popped>>

\* Back in corpus_version, which another call may have left meanwhile.
KeepVersion(c) ==
    /\ call[c].pc = "read"
    /\ version' = [fresh |-> TRUE, value |-> call[c].ver, at |-> call[c].at]
    /\ LookUp(c, call[c].key, call[c].ver, call[c].at)
    /\ UNCHANGED <<corpusVars, calls, changes>>

Compute(c) ==
    /\ call[c].pc = "missed"
    /\ call' = [call EXCEPT ![c].pc = "searched", ![c].found = changes]
    /\ UNCHANGED <<corpusVars, version, data, calls, changes, used, popped>>

\* The result has a status of CACHEABLE_STATUSES.
Put(c) ==
    /\ call[c].pc = "searched"
    /\ LET k == FullKey(call[c].ver, call[c].key)
       IN  /\ data' = StoredIn(k, call[c].found)
           /\ used' = Recency(k)
           /\ popped' = popped \ {k}
    /\ call' = [call EXCEPT ![c].pc = "answered"]
    /\ UNCHANGED <<corpusVars, version, calls, changes>>

\* No version (the call is computed and not kept), or a result that is not
\* kept: nothing of the call remains.
NotKept(c) ==
    /\ call[c].pc \in {"reading", "searched"}
    /\ call' = [call EXCEPT ![c] = NoCall]
    /\ UNCHANGED <<corpusVars, version, data, calls, changes, used, popped>>

Return(c) ==
    /\ call[c].pc = "answered"
    /\ call' = [call EXCEPT ![c] = NoCall]
    /\ UNCHANGED <<corpusVars, version, data, calls, changes, used, popped>>

\* version_check_seconds have passed.
VersionAges ==
    /\ version.fresh
    /\ version' = [version EXCEPT !.fresh = FALSE]
    /\ UNCHANGED <<corpusVars, call, data, calls, changes, used, popped>>

\* ttl_seconds have passed since an entry was put.
EntryAges(i) ==
    /\ data[i].fresh
    /\ data' = [data EXCEPT ![i].fresh = FALSE]
    /\ UNCHANGED <<corpusVars, version, call, calls, changes, used, popped>>

CallStep(c) ==
    \/ \E key \in Keys : Ask(c, key)
    \/ ReadVersion(c) \/ KeepVersion(c) \/ Compute(c) \/ Put(c) \/ NotKept(c) \/ Return(c)

\* A step of ingestion, which knows nothing of the cache.
IngestStep ==
    /\ \E w \in Workers : WorkerStep(w)
    /\ changes' = IF docs' # docs THEN changes + 1 ELSE changes
    /\ UNCHANGED <<version, call, data, calls, used, popped>>

Init == CorpusInit /\ CacheInit

Next ==
    \/ \E c \in Callers : CallStep(c)
    \/ VersionAges
    \/ \E i \in 1..Len(data) : EntryAges(i)
    \/ IngestStep

Spec == Init /\ [][Next]_vars

-----------------------------------------------------------------------------
(* Properties *)

\* An answer, kept or computed, is of no older corpus than the version its
\* call used was read from: an ingestion is seen by the first call after the
\* version is read again, whatever the calls under way put or keep meanwhile
\* (cached, corpus_version).
AnsweredSinceRead == \A c \in Callers : call[c].pc = "answered" => call[c].found >= call[c].at

\* A result used or put with fewer than max_entries others after it is still
\* there, unless its time was up (TTLCache.get, put).
RecentlyUsedKept ==
    \A i \in 1..Len(used) :
        Len(used) - i < MaxEntries /\ used[i] \notin popped
            => \E j \in 1..Len(data) : data[j].key = used[i]
=============================================================================

----------------------------- MODULE QueryCache -----------------------------
(***************************************************************************)
(* The result cache of the query server (sec_app/db/cache.py).             *)
(*                                                                         *)
(* Results are cached under the hash of the database.  The hash itself is  *)
(* cached for TTL seconds behind a double-checked lock, so the threads of  *)
(* the server work with hashes of different ages while the database moves  *)
(* on under them, and results are computed outside of the lock.            *)
(*                                                                         *)
(* The database goes through versions 1, 2, ...; Hash[v] is the content    *)
(* hash of version v.  A result is the set of versions its statements      *)
(* read.  Time is counted in ticks, and kept as ages (time since) capped   *)
(* where the code stops telling them apart.                                *)
(***************************************************************************)
EXTENDS Integers, FiniteSets

CONSTANTS
    Thread,      \* worker threads of the server
    NoThread,    \* nobody holds the hash lock
    Key,         \* cached calls: function and arguments
    MaxVersion,  \* bound: versions the database goes through
    Hash,        \* content hash of each version
    TTL,         \* _HASH_TTL in ticks
    MaxEntries,  \* _MAX_ENTRIES
    MaxFails     \* bound: data_version calls that raise

None == 0
Unknown == -1
Version == 1..MaxVersion
HashValue == {Hash[v] : v \in Version} \cup {None, Unknown}

ASSUME SizeAssumption ==
    /\ MaxVersion \in Nat \ {0} /\ TTL \in Nat \ {0}
    /\ MaxEntries \in Nat \ {0} /\ MaxFails \in Nat
ASSUME HashAssumption == Hash \in [Version -> Nat \ {0}]
ASSUME ThreadAssumption == NoThread \notin Thread

VARIABLES
    data,       \* version the database is at
    gone,       \* time since a version was replaced
    hashValue,  \* _hash_value
    age,        \* time since _hash_checked_at
    owner,      \* holder of _hash_lock
    cache,      \* _cache: result of each key, {} for none
    cacheHash,  \* _cache_hash
    pc,         \* where each thread is
    call,       \* locals of dolt_cached and _dolt_hash in each thread
    fails       \* failed data_version calls so far

vars == <<data, gone, hashValue, age, owner, cache, cacheHash, pc, call, fails>>

Empty == [k \in Key |-> {}]
Cached(c) == {k \in Key : c[k] # {}}

\* key; the hash it works with; the versions read, or the answer once idle;
\* time since its monotonic() call; versions replaced TTL ago at its start.
Call == [key: Key, hash: HashValue, reads: SUBSET Version,
         waited: 0..TTL, old: SUBSET Version]

Phases == {"idle", "hash", "waiting", "locked", "asking", "stamp",
           "lookup", "compute", "store"}

Init ==
    /\ data = 1
    /\ gone = [v \in Version |-> 0]
    /\ hashValue = None
    /\ age \in 0..TTL
    /\ owner = NoThread
    /\ cache = Empty
    /\ cacheHash = None
    /\ pc = [t \in Thread |-> "idle"]
    /\ \E k \in Key :
         call = [t \in Thread |-> [key |-> k, hash |-> None, reads |-> {},
                                   waited |-> 0, old |-> {}]]
    /\ fails = 0

-----------------------------------------------------------------------------
(* The world: the database is replaced, time passes.                        *)

Change ==
    /\ data < MaxVersion
    /\ data' = data + 1
    /\ UNCHANGED <<gone, hashValue, age, owner, cache, cacheHash, pc, call, fails>>

Older(n) == IF n < TTL THEN n + 1 ELSE TTL

Tick ==
    /\ age' = Older(age)
    /\ gone' = [v \in Version |-> IF v < data THEN Older(gone[v]) ELSE 0]
    /\ call' = [t \in Thread |-> [call[t] EXCEPT !.waited = Older(@)]]
    /\ UNCHANGED <<data, hashValue, owner, cache, cacheHash, pc, fails>>

-----------------------------------------------------------------------------
(* _dolt_hash.                                                              *)

Valid == hashValue # None /\ age < TTL

Start(t) ==
    /\ pc[t] = "idle"
    /\ pc' = [pc EXCEPT ![t] = "hash"]
    /\ \E k \in Key :
         call' = [call EXCEPT ![t] = [key |-> k, hash |-> None, reads |-> {}, waited |-> 0,
                                      old |-> {v \in Version : v < data /\ gone[v] = TTL}]]
    /\ UNCHANGED <<data, gone, hashValue, age, owner, cache, cacheHash, fails>>

\* The unlocked check.
FastHash(t) ==
    /\ pc[t] = "hash" /\ Valid
    /\ pc' = [pc EXCEPT ![t] = "lookup"]
    /\ call' = [call EXCEPT ![t].hash = hashValue]
    /\ UNCHANGED <<data, gone, hashValue, age, owner, cache, cacheHash, fails>>

Expired(t) ==
    /\ pc[t] = "hash" /\ ~Valid
    /\ pc' = [pc EXCEPT ![t] = "waiting"]
    /\ UNCHANGED <<data, gone, hashValue, age, owner, cache, cacheHash, call, fails>>

Acquire(t) ==
    /\ pc[t] = "waiting" /\ owner = NoThread
    /\ owner' = t
    /\ pc' = [pc EXCEPT ![t] = "locked"]
    /\ UNCHANGED <<data, gone, hashValue, age, cache, cacheHash, call, fails>>

\* Another thread has refreshed the hash meanwhile.
Refreshed(t) ==
    /\ pc[t] = "locked" /\ Valid
    /\ owner' = NoThread
    /\ pc' = [pc EXCEPT ![t] = "lookup"]
    /\ call' = [call EXCEPT ![t].hash = hashValue]
    /\ UNCHANGED <<data, gone, hashValue, age, cache, cacheHash, fails>>

Ask(t) ==
    /\ pc[t] = "locked" /\ ~Valid
    /\ pc' = [pc EXCEPT ![t] = "asking"]
    /\ call' = [call EXCEPT ![t].waited = 0]
    /\ UNCHANGED <<data, gone, hashValue, age, owner, cache, cacheHash, fails>>

Answered_FirstOnly(t) ==
    /\ pc[t] = "asking"
    /\ hashValue' = IF hashValue = None THEN Hash[data] ELSE hashValue
    /\ pc' = [pc EXCEPT ![t] = "stamp"]
    /\ UNCHANGED <<data, gone, age, owner, cache, cacheHash, call, fails>>

Answered(t) ==
    /\ pc[t] = "asking"
    /\ hashValue' = Hash[data]
    /\ pc' = [pc EXCEPT ![t] = "stamp"]
    /\ UNCHANGED <<data, gone, age, owner, cache, cacheHash, call, fails>>

\* The version query raises: the old hash is kept, for another TTL.
Failed(t) ==
    /\ pc[t] = "asking" /\ fails < MaxFails
    /\ fails' = fails + 1
    /\ hashValue' = IF hashValue = None THEN Unknown ELSE hashValue
    /\ pc' = [pc EXCEPT ![t] = "stamp"]
    /\ UNCHANGED <<data, gone, age, owner, cache, cacheHash, call>>

Stamp_TimeAfter(t) ==
    /\ pc[t] = "stamp"
    /\ age' = 0
    /\ owner' = NoThread
    /\ pc' = [pc EXCEPT ![t] = "lookup"]
    /\ call' = [call EXCEPT ![t].hash = hashValue]
    /\ UNCHANGED <<data, gone, hashValue, cache, cacheHash, fails>>

\* The check counts from the time read before the query.
Stamp(t) ==
    /\ pc[t] = "stamp"
    /\ age' = call[t].waited
    /\ owner' = NoThread
    /\ pc' = [pc EXCEPT ![t] = "lookup"]
    /\ call' = [call EXCEPT ![t].hash = hashValue]
    /\ UNCHANGED <<data, gone, hashValue, cache, cacheHash, fails>>

-----------------------------------------------------------------------------
(* The wrapper of dolt_cached.  The bodies under _cache_lock are atomic.    *)

\* What is cached under hash h: a new hash drops everything.
Known(h) == IF h = cacheHash THEN cache ELSE Empty

Hit(t) ==
    /\ pc[t] = "lookup"
    /\ LET c == Known(call[t].hash)
       IN /\ c[call[t].key] # {}
          /\ cache' = c
          /\ call' = [call EXCEPT ![t].reads = c[call[t].key]]
    /\ cacheHash' = call[t].hash
    /\ pc' = [pc EXCEPT ![t] = "idle"]
    /\ UNCHANGED <<data, gone, hashValue, age, owner, fails>>

Miss(t) ==
    /\ pc[t] = "lookup"
    /\ Known(call[t].hash)[call[t].key] = {}
    /\ cache' = Known(call[t].hash)
    /\ cacheHash' = call[t].hash
    /\ pc' = [pc EXCEPT ![t] = "compute"]
    /\ UNCHANGED <<data, gone, hashValue, age, owner, call, fails>>

\* One statement of the cached function; it may go on with another.
Read(t) ==
    /\ pc[t] = "compute"
    /\ call' = [call EXCEPT ![t].reads = @ \cup {data}]
    /\ \E phase \in {"compute", "store"} : pc' = [pc EXCEPT ![t] = phase]
    /\ UNCHANGED <<data, gone, hashValue, age, owner, cache, cacheHash, fails>>

\* The cached function raises: nothing is returned and nothing cached.
Raise(t) ==
    /\ pc[t] = "compute"
    /\ call' = [call EXCEPT ![t].reads = {}]
    /\ pc' = [pc EXCEPT ![t] = "idle"]
    /\ UNCHANGED <<data, gone, hashValue, age, owner, cache, cacheHash, fails>>

Room(c) == IF Cardinality(Cached(c)) >= MaxEntries THEN Empty ELSE c

Store_UnderAnyHash(t) ==
    /\ pc[t] = "store"
    /\ cache' = [Room(cache) EXCEPT ![call[t].key] = call[t].reads]
    /\ pc' = [pc EXCEPT ![t] = "idle"]
    /\ UNCHANGED <<data, gone, hashValue, age, owner, cacheHash, call, fails>>

\* The result is cached only if the cache still holds results of this hash.
Store(t) ==
    /\ pc[t] = "store"
    /\ cache' = IF cacheHash = call[t].hash
                THEN [Room(cache) EXCEPT ![call[t].key] = call[t].reads]
                ELSE cache
    /\ pc' = [pc EXCEPT ![t] = "idle"]
    /\ UNCHANGED <<data, gone, hashValue, age, owner, cacheHash, call, fails>>

-----------------------------------------------------------------------------
HashStep(t) ==
    \/ FastHash(t) \/ Expired(t) \/ Acquire(t) \/ Refreshed(t) \/ Ask(t)
    \/ Answered(t) \/ Failed(t) \/ Stamp(t)

CallStep(t) == Hit(t) \/ Miss(t) \/ Read(t) \/ Raise(t) \/ Store(t)

Next ==
    \/ Change \/ Tick
    \/ \E t \in Thread : Start(t) \/ HashStep(t) \/ CallStep(t)

Spec == Init /\ [][Next]_vars

\* Time passes and threads that run are scheduled; nothing makes the database
\* change, calls arrive or version queries fail.
Fairness == WF_vars(Tick) /\ \A t \in Thread : WF_vars(HashStep(t) \/ CallStep(t))

FairSpec == Spec /\ Fairness

-----------------------------------------------------------------------------
(* Properties.                                                              *)

\* Types of the state; whoever consults the cache has a hash to do it with.
TypeOK ==
    /\ data \in Version
    /\ gone \in [Version -> 0..TTL]
    /\ hashValue \in HashValue
    /\ age \in 0..TTL
    /\ owner \in Thread \cup {NoThread}
    /\ cache \in [Key -> SUBSET Version]
    /\ cacheHash \in HashValue
    /\ pc \in [Thread -> Phases]
    /\ call \in [Thread -> Call]
    /\ fails \in 0..MaxFails
    /\ \A t \in Thread : pc[t] \in {"lookup", "compute", "store"} => call[t].hash # None

\* An answer shows no version of the database that had been replaced TTL or
\* longer when the call began: results filed under a hash by slow threads do
\* not stretch the bound.  (While no version query fails: the old hash is then
\* kept for another TTL.)
Fresh ==
    fails = 0 => \A t \in Thread : pc[t] = "idle" => call[t].reads \cap call[t].old = {}

\* What is cached under the hash of the current version was read from that
\* version alone: a result torn between two versions, or filed under an old
\* hash after a change, is gone once the new hash is seen.
SettledCache == cacheHash = Hash[data] => \A k \in Key : cache[k] \subseteq {data}

\* The server asks for the version with the lock held and only when the hash
\* it has is expired: threads that waited for the lock do not ask again.
OneAsker == \A t \in Thread : pc[t] = "asking" => owner = t /\ ~Valid

\* Once the database rests, calls come to answer from its current version
\* only, slow threads and a failed version query notwithstanding.
EventuallyFresh ==
    <>[][\A t \in Thread : pc[t] # "idle" /\ pc'[t] = "idle"
                              => call'[t].reads \subseteq {data}]_vars
=============================================================================

-------------------------- MODULE QueryCacheProofs --------------------------
(***************************************************************************)
(* Proofs about QueryCache: its types, the use of the hash lock, and that   *)
(* no result is older than the hash it is filed under.                      *)
(***************************************************************************)
EXTENDS QueryCache, TLAPS

LEMMA HashTypes ==
    /\ None \in HashValue /\ Unknown \in HashValue
    /\ \A v \in Version : /\ Hash[v] \in HashValue
                         /\ Hash[v] # None /\ Hash[v] # Unknown
    /\ 1 \in Version /\ Version \subseteq Nat
BY SizeAssumption, HashAssumption DEF HashValue, None, Unknown, Version

LEMMA OlderType == \A n \in 0..TTL : Older(n) \in 0..TTL /\ n <= Older(n)
BY SizeAssumption DEF Older

LEMMA CallFields ==
    ASSUME NEW c \in Call
    PROVE  /\ c.key \in Key /\ c.hash \in HashValue /\ c.reads \subseteq Version
           /\ c.waited \in 0..TTL /\ c.old \subseteq Version
BY DEF Call

LEMMA CallUpdates ==
    ASSUME NEW c \in Call
    PROVE  /\ \A h \in HashValue : [c EXCEPT !.hash = h] \in Call
           /\ \A r \in SUBSET Version : [c EXCEPT !.reads = r] \in Call
           /\ \A n \in 0..TTL : [c EXCEPT !.waited = n] \in Call
BY DEF Call

-----------------------------------------------------------------------------
(* Types.                                                                   *)

LEMMA InitType == Init => TypeOK
<1> SUFFICES ASSUME Init PROVE TypeOK
  OBVIOUS
<1>1. PICK k \in Key : call = [t \in Thread |-> [key |-> k, hash |-> None, reads |-> {},
                                                waited |-> 0, old |-> {}]]
  BY DEF Init
<1>2. 0 \in 0..TTL /\ 0 \in 0..MaxFails
  BY SizeAssumption
<1>3. [key |-> k, hash |-> None, reads |-> {}, waited |-> 0, old |-> {}] \in Call
  BY <1>2, HashTypes DEF Call
<1> QED
  BY <1>1, <1>2, <1>3, HashTypes DEF Init, TypeOK, Empty, Phases

LEMMA WorldType == TypeOK /\ (Change \/ Tick) => TypeOK'
<1> SUFFICES ASSUME TypeOK, Change \/ Tick PROVE TypeOK'
  OBVIOUS
<1>1. CASE Change
  <2>1. data' \in Version
    BY <1>1, SizeAssumption DEF Change, TypeOK, Version
  <2> QED
    BY <1>1, <2>1 DEF Change, TypeOK
<1>2. CASE Tick
  <2>1. age' \in 0..TTL
    BY <1>2, OlderType DEF Tick, TypeOK
  <2>2. gone' \in [Version -> 0..TTL]
    BY <1>2, OlderType, SizeAssumption DEF Tick, TypeOK
  <2>3. \A t \in Thread : call'[t] \in Call /\ call'[t].hash = call[t].hash
    <3> TAKE t \in Thread
    <3>1. call[t] \in Call /\ call'[t] = [call[t] EXCEPT !.waited = Older(@)]
      BY <1>2 DEF Tick, TypeOK
    <3>2. Older(call[t].waited) \in 0..TTL
      BY <3>1, OlderType, CallFields
    <3> QED
      BY <3>1, <3>2, CallUpdates DEF Call
  <2>4. call' \in [Thread -> Call]
    BY <1>2, <2>3 DEF Tick
  <2> QED
    BY <1>2, <2>1, <2>2, <2>3, <2>4 DEF Tick, TypeOK
<1> QED
  BY <1>1, <1>2

\* The lock holder that stamps the hash has one.
StampOK == \A t \in Thread : pc[t] = "stamp" => hashValue # None

\* A step that gives a thread new locals of the right type.
LEMMA ThreadType ==
    ASSUME TypeOK, NEW t \in Thread, NEW phase \in Phases, NEW c \in Call,
           pc' = [pc EXCEPT ![t] = phase], call' = [call EXCEPT ![t] = c],
           phase \in {"lookup", "compute", "store"} => c.hash # None,
           data' \in Version, gone' = gone, hashValue' \in HashValue, age' \in 0..TTL,
           owner' \in Thread \cup {NoThread}, cache' \in [Key -> SUBSET Version],
           cacheHash' \in HashValue, fails' \in 0..MaxFails
    PROVE  TypeOK'
BY DEF TypeOK

LEMMA HashStepType ==
    ASSUME TypeOK, StampOK, NEW t \in Thread, Start(t) \/ HashStep(t)
    PROVE  TypeOK'
<1>1. call[t] \in Call /\ call = [call EXCEPT ![t] = call[t]]
  BY DEF TypeOK
<1>2. CASE Start(t)
  <2>1. PICK k \in Key :
          call' = [call EXCEPT ![t] = [key |-> k, hash |-> None, reads |-> {}, waited |-> 0,
                                       old |-> {v \in Version : v < data /\ gone[v] = TTL}]]
    BY <1>2 DEF Start
  <2>2. [key |-> k, hash |-> None, reads |-> {}, waited |-> 0,
         old |-> {v \in Version : v < data /\ gone[v] = TTL}] \in Call
    BY HashTypes, SizeAssumption DEF Call
  <2> QED
    BY <1>2, <2>1, <2>2, ThreadType DEF Start, Phases, TypeOK
<1>3. CASE FastHash(t) \/ Refreshed(t)
  <2> DEFINE c == [call[t] EXCEPT !.hash = hashValue]
  <2>1. c \in Call
    BY <1>1, CallUpdates DEF TypeOK
  <2>2. c.hash # None
    BY <1>1, <1>3 DEF Call, FastHash, Refreshed, Valid
  <2>3. call' = [call EXCEPT ![t] = c] /\ pc' = [pc EXCEPT ![t] = "lookup"]
    BY <1>3 DEF FastHash, Refreshed
  <2> HIDE DEF c
  <2> QED
    BY <1>3, <2>1, <2>2, <2>3, ThreadType DEF FastHash, Refreshed, Phases, TypeOK
<1>4. CASE Expired(t) \/ Acquire(t)
  BY <1>1, <1>4, ThreadType DEF Expired, Acquire, Phases, TypeOK
<1>5. CASE Ask(t)
  <2>1. [call[t] EXCEPT !.waited = 0] \in Call
    BY <1>1, CallUpdates, SizeAssumption
  <2> QED
    BY <1>5, <2>1, ThreadType DEF Ask, Phases, TypeOK
<1>6. CASE Answered(t)
  BY <1>1, <1>6, HashTypes, ThreadType DEF Answered, Phases, TypeOK
<1>7. CASE Failed(t)
  <2>1. fails' \in 0..MaxFails /\ hashValue' \in HashValue
    BY <1>7, HashTypes, SizeAssumption DEF Failed, TypeOK
  <2> QED
    BY <1>1, <1>7, <2>1, ThreadType DEF Failed, Phases, TypeOK
<1>8. CASE Stamp(t)
  <2> DEFINE c == [call[t] EXCEPT !.hash = hashValue]
  <2>1. c \in Call /\ call[t].waited \in 0..TTL
    BY <1>1, CallUpdates, CallFields DEF TypeOK
  <2>2. c.hash # None
    BY <1>1, <1>8 DEF Call, Stamp, StampOK
  <2>3. call' = [call EXCEPT ![t] = c] /\ pc' = [pc EXCEPT ![t] = "lookup"]
    BY <1>8 DEF Stamp
  <2> HIDE DEF c
  <2> QED
    BY <1>8, <2>1, <2>2, <2>3, ThreadType DEF Stamp, Phases, TypeOK
<1> QED
  BY <1>2, <1>3, <1>4, <1>5, <1>6, <1>7, <1>8 DEF HashStep

LEMMA CallStepType ==
    ASSUME TypeOK, NEW t \in Thread, CallStep(t)
    PROVE  TypeOK'
<1>1. call[t] \in Call /\ call = [call EXCEPT ![t] = call[t]]
  BY DEF TypeOK
<1>2. /\ Known(call[t].hash) \in [Key -> SUBSET Version] /\ Empty \in [Key -> SUBSET Version]
      /\ Room(cache) \in [Key -> SUBSET Version]
  BY DEF Known, Empty, Room, TypeOK
<1>3. CASE Hit(t)
  <2> DEFINE c == [call[t] EXCEPT !.reads = Known(call[t].hash)[call[t].key]]
  <2>1. c \in Call
    BY <1>1, <1>2, CallUpdates, CallFields
  <2>2. call' = [call EXCEPT ![t] = c] /\ pc' = [pc EXCEPT ![t] = "idle"]
    BY <1>3 DEF Hit
  <2> HIDE DEF c
  <2> QED
    BY <1>1, <1>2, <1>3, <2>1, <2>2, CallFields, ThreadType DEF Hit, Phases, TypeOK
<1>4. CASE Miss(t)
  BY <1>1, <1>2, <1>4, CallFields, ThreadType DEF Miss, Phases, TypeOK
<1>5. CASE Read(t)
  <2> DEFINE c == [call[t] EXCEPT !.reads = @ \cup {data}]
  <2>1. c \in Call /\ c.hash = call[t].hash
    BY <1>1, CallUpdates, CallFields DEF TypeOK, Call
  <2>2. call' = [call EXCEPT ![t] = c] /\ call[t].hash # None
    BY <1>5 DEF Read, TypeOK
  <2>3. PICK phase \in {"compute", "store"} : pc' = [pc EXCEPT ![t] = phase]
    BY <1>5 DEF Read
  <2> HIDE DEF c
  <2> QED
    BY <1>5, <2>1, <2>2, <2>3, ThreadType DEF Read, Phases, TypeOK
<1>6. CASE Raise(t)
  <2>1. [call[t] EXCEPT !.reads = {}] \in Call
    BY <1>1, CallUpdates
  <2> QED
    BY <1>6, <2>1, ThreadType DEF Raise, Phases, TypeOK
<1>7. CASE Store(t)
  <2>1. cache' \in [Key -> SUBSET Version]
    BY <1>1, <1>2, <1>7, CallFields DEF Store, TypeOK
  <2> QED
    BY <1>1, <1>7, <2>1, ThreadType DEF Store, Phases, TypeOK
<1> QED
  BY <1>3, <1>4, <1>5, <1>6, <1>7 DEF CallStep

-----------------------------------------------------------------------------
(* The hash lock: its holder is the one thread past acquiring it, and while *)
(* it asks nobody makes the hash it has valid again.                        *)

LockOK == \A t \in Thread : (owner = t) = (pc[t] \in {"locked", "asking", "stamp"})
LockInv == TypeOK /\ StampOK /\ LockOK /\ OneAsker

LEMMA InitLockInv == Init => LockInv
<1> SUFFICES ASSUME Init PROVE LockInv
  OBVIOUS
<1>1. TypeOK
  BY InitType
<1> QED
  BY <1>1, ThreadAssumption DEF Init, LockInv, StampOK, LockOK, OneAsker

LEMMA WorldLockInv == LockInv /\ (Change \/ Tick) => LockInv'
<1> SUFFICES ASSUME LockInv, Change \/ Tick PROVE LockInv'
  OBVIOUS
<1>1. TypeOK'
  BY WorldType DEF LockInv
<1>2. age' \in 0..TTL /\ age \in 0..TTL /\ age <= age'
  BY OlderType DEF LockInv, TypeOK, Change, Tick
<1>3. UNCHANGED <<hashValue, owner, pc>>
  BY DEF Change, Tick
<1>4. ~Valid => ~Valid'
  BY <1>2, <1>3, SizeAssumption DEF Valid
<1> QED
  BY <1>1, <1>3, <1>4 DEF LockInv, StampOK, LockOK, OneAsker

LEMMA ThreadLockInv ==
    ASSUME LockInv, NEW t \in Thread, Start(t) \/ HashStep(t) \/ CallStep(t)
    PROVE  LockInv'
<1>1. TypeOK'
  BY HashStepType, CallStepType DEF LockInv
<1>2. CASE Start(t) \/ FastHash(t) \/ Expired(t)
  BY <1>1, <1>2 DEF Start, FastHash, Expired, LockInv, TypeOK, StampOK, LockOK, OneAsker, Valid
<1>3. CASE Acquire(t)
  BY <1>1, <1>3, ThreadAssumption DEF Acquire, LockInv, TypeOK, StampOK, LockOK, OneAsker, Valid
<1>4. CASE Refreshed(t) \/ Stamp(t)
  BY <1>1, <1>4, ThreadAssumption DEF Refreshed, Stamp, LockInv, TypeOK, StampOK, LockOK, OneAsker
<1>5. CASE Ask(t)
  BY <1>1, <1>5 DEF Ask, LockInv, TypeOK, StampOK, LockOK, OneAsker, Valid
<1>6. CASE Answered(t) \/ Failed(t)
  <2>1. hashValue' # None
    BY <1>6, HashTypes DEF Answered, Failed, LockInv, TypeOK, None, Unknown
  <2>2. \A u \in Thread : pc'[u] # "asking"
    BY <1>6 DEF Answered, Failed, LockInv, TypeOK, LockOK
  <2> QED
    BY <1>1, <1>6, <2>1, <2>2 DEF Answered, Failed, LockInv, TypeOK, StampOK, LockOK, OneAsker
<1>7. CASE CallStep(t)
  BY <1>1, <1>7 DEF CallStep, Hit, Miss, Read, Raise, Store, LockInv, TypeOK, StampOK,
                    LockOK, OneAsker, Valid
<1> QED
  BY <1>2, <1>3, <1>4, <1>5, <1>6, <1>7 DEF HashStep

LEMMA NextLockInv == LockInv /\ [Next]_vars => LockInv'
<1> SUFFICES ASSUME LockInv, [Next]_vars PROVE LockInv'
  OBVIOUS
<1>1. CASE UNCHANGED vars
  BY <1>1 DEF vars, LockInv, TypeOK, StampOK, LockOK, OneAsker, Valid
<1> QED
  BY <1>1, WorldLockInv, ThreadLockInv DEF Next

\* The state of the cache keeps its types, and no thread consults the cache
\* without a hash.
THEOREM TypeCorrect == Spec => []TypeOK
<1>1. LockInv => TypeOK
  BY DEF LockInv
<1> QED
  BY InitLockInv, NextLockInv, <1>1, PTL DEF Spec

\* Only the holder of the hash lock asks the database for its version, and
\* only while the hash the server has is expired.
THEOREM OnlyOneAsks == Spec => []OneAsker
<1>1. LockInv => OneAsker
  BY DEF LockInv
<1> QED
  BY InitLockInv, NextLockInv, <1>1, PTL DEF Spec

-----------------------------------------------------------------------------
(* The cache.  What is filed under the hash of a version was read from that *)
(* version or a later one.  Versions are told apart by their hashes: the    *)
(* theorem is about databases that never return to an earlier content.      *)

Distinct == \A v, w \in Version : Hash[v] = Hash[w] => v = w

NotOlder(h, reads) ==
    \A v \in Version : h = Hash[v] => v <= data /\ \A r \in reads : v <= r /\ r <= data

FiledOK ==
    /\ NotOlder(hashValue, {})
    /\ \A k \in Key : NotOlder(cacheHash, cache[k])
    /\ NotOlder(cacheHash, {})
    /\ \A t \in Thread :
         /\ pc[t] # "idle" => NotOlder(call[t].hash, call[t].reads)
         /\ pc[t] \in {"hash", "waiting", "locked", "asking", "stamp"} => call[t].reads = {}

FiledInv == TypeOK /\ FiledOK

LEMMA NoneNotOlder == NotOlder(None, {}) /\ NotOlder(Unknown, {})
BY HashTypes DEF NotOlder

LEMMA InitFiledOK == Init => FiledOK
<1> SUFFICES ASSUME Init PROVE FiledOK
  OBVIOUS
<1>1. PICK k \in Key : call = [t \in Thread |-> [key |-> k, hash |-> None, reads |-> {},
                                                waited |-> 0, old |-> {}]]
  BY DEF Init
<1> QED
  BY <1>1, NoneNotOlder DEF Init, FiledOK, Empty

LEMMA WorldFiledOK == FiledInv /\ (Change \/ Tick) => FiledOK'
<1> SUFFICES ASSUME FiledInv, Change \/ Tick PROVE FiledOK'
  OBVIOUS
<1>1. \A t \in Thread : call'[t].hash = call[t].hash /\ call'[t].reads = call[t].reads
  BY DEF Change, Tick, FiledInv, TypeOK, Call
<1>2. data \in Nat /\ data' \in Nat /\ data <= data' /\ Version \subseteq Nat
  BY SizeAssumption DEF Change, Tick, FiledInv, TypeOK, Version
<1>3. \A h, reads : reads \subseteq Version /\ NotOlder(h, reads) => NotOlder(h, reads)'
  BY <1>2 DEF NotOlder
<1>4. /\ \A t \in Thread : call[t].reads \subseteq Version
      /\ \A k \in Key : cache[k] \subseteq Version
  BY CallFields DEF FiledInv, TypeOK
<1>5. UNCHANGED <<hashValue, cache, cacheHash, pc>>
  BY DEF Change, Tick
<1>6. NotOlder(hashValue, {})'
  BY <1>3, <1>5 DEF FiledInv, FiledOK, NotOlder
<1>7. NotOlder(cacheHash, {})' /\ \A k \in Key : NotOlder(cacheHash, cache[k])'
  BY <1>3, <1>4, <1>5 DEF FiledInv, FiledOK, NotOlder
<1>8. ASSUME NEW t \in Thread
      PROVE  /\ pc'[t] # "idle" => NotOlder(call[t].hash, call[t].reads)'
             /\ pc'[t] \in {"hash", "waiting", "locked", "asking", "stamp"} => call'[t].reads = {}
  <2>1. pc[t] # "idle" => NotOlder(call[t].hash, call[t].reads)
    BY DEF FiledInv, FiledOK
  <2>2. ASSUME pc[t] # "idle" PROVE NotOlder(call[t].hash, call[t].reads)'
    <3>1. ASSUME NEW v \in Version, call[t].hash = Hash[v]
          PROVE  v <= data' /\ \A r \in call[t].reads : v <= r /\ r <= data'
      <4>1. v <= data /\ \A r \in call[t].reads : v <= r /\ r <= data
        BY <2>1, <2>2, <3>1 DEF NotOlder
      <4>2. v \in Nat /\ \A r \in call[t].reads : r \in Nat
        BY <1>2, <1>4
      <4> QED
        BY <1>2, <4>1, <4>2
    <3> QED
      BY <1>1, <3>1 DEF NotOlder
  <2>3. pc[t] \in {"hash", "waiting", "locked", "asking", "stamp"} => call[t].reads = {}
    BY DEF FiledInv, FiledOK
  <2> QED
    BY <1>1, <1>5, <2>2, <2>3
<1> QED
  BY <1>6, <1>7, <1>8 DEF FiledOK

\* A step of one thread that leaves the database alone.
LEMMA ThreadFiledOK ==
    ASSUME FiledInv, NEW t \in Thread, data' = data,
           \A u \in Thread : u # t => pc'[u] = pc[u] /\ call'[u] = call[u],
           NotOlder(hashValue', {}), NotOlder(cacheHash', {}),
           \A k \in Key : NotOlder(cacheHash', cache'[k]),
           pc'[t] # "idle" => NotOlder(call'[t].hash, call'[t].reads),
           pc'[t] \in {"hash", "waiting", "locked", "asking", "stamp"} => call'[t].reads = {}
    PROVE  FiledOK'
<1>1. \A h, reads : NotOlder(h, reads) = (\A v \in Version : h = Hash[v] =>
                      v <= data' /\ \A r \in reads : v <= r /\ r <= data')
  BY DEF NotOlder
<1>2. NotOlder(hashValue, {})' /\ NotOlder(cacheHash, {})'
      /\ \A k \in Key : NotOlder(cacheHash, cache[k])'
  BY DEF NotOlder
<1>3. ASSUME NEW u \in Thread
      PROVE  /\ pc'[u] # "idle" => NotOlder(call[u].hash, call[u].reads)'
             /\ pc'[u] \in {"hash", "waiting", "locked", "asking", "stamp"} => call'[u].reads = {}
  <2>1. CASE u = t
    BY <2>1 DEF NotOlder
  <2>2. CASE u # t
    BY <2>2 DEF NotOlder, FiledInv, FiledOK
  <2> QED
    BY <2>1, <2>2
<1> QED
  BY <1>2, <1>3 DEF FiledOK

LEMMA StepFiledOK ==
    ASSUME FiledInv, Distinct, NEW t \in Thread, Start(t) \/ HashStep(t) \/ CallStep(t)
    PROVE  FiledOK'
<1>1. /\ call[t] \in Call /\ call \in [Thread -> Call] /\ pc \in [Thread -> Phases]
      /\ data \in Version /\ cache \in [Key -> SUBSET Version] /\ Version \subseteq Nat
  BY HashTypes DEF FiledInv, TypeOK
<1>2. /\ NotOlder(hashValue, {}) /\ NotOlder(cacheHash, {})
      /\ \A k \in Key : NotOlder(cacheHash, cache[k])
      /\ pc[t] # "idle" => NotOlder(call[t].hash, call[t].reads)
      /\ pc[t] \in {"hash", "waiting", "locked", "asking", "stamp"} => call[t].reads = {}
  BY DEF FiledInv, FiledOK
<1>3. CASE Start(t)
  <2>1. call'[t].hash = None /\ call'[t].reads = {} /\ pc'[t] = "hash"
    BY <1>1, <1>3 DEF Start
  <2> QED
    BY <1>1, <1>2, <1>3, <2>1, NoneNotOlder, ThreadFiledOK DEF Start
<1>4. CASE FastHash(t) \/ Refreshed(t) \/ Stamp(t)
  <2>1. call'[t].hash = hashValue /\ call'[t].reads = {} /\ pc'[t] = "lookup"
    BY <1>1, <1>2, <1>4 DEF FastHash, Refreshed, Stamp, Call
  <2> QED
    BY <1>1, <1>2, <1>4, <2>1, ThreadFiledOK DEF FastHash, Refreshed, Stamp
<1>5. CASE Expired(t) \/ Acquire(t) \/ Ask(t)
  <2>1. /\ call'[t].hash = call[t].hash /\ call'[t].reads = {}
        /\ pc'[t] \in {"waiting", "locked", "asking"}
    BY <1>1, <1>2, <1>5 DEF Expired, Acquire, Ask, Call
  <2>2. NotOlder(call'[t].hash, call'[t].reads)
    BY <1>2, <1>5, <2>1 DEF Expired, Acquire, Ask
  <2> QED
    BY <1>1, <1>2, <1>5, <2>1, <2>2, ThreadFiledOK DEF Expired, Acquire, Ask
<1>6. CASE Answered(t) \/ Failed(t)
  <2>1. NotOlder(hashValue', {})
    <3>1. CASE Answered(t)
      <4>1. \A v \in Version : Hash[data] = Hash[v] => v <= data
        BY <1>1 DEF Distinct
      <4> QED
        BY <3>1, <4>1 DEF Answered, NotOlder
    <3>2. CASE Failed(t)
      BY <1>2, <3>2, NoneNotOlder DEF Failed
    <3> QED
      BY <1>6, <3>1, <3>2
  <2> QED
    BY <1>1, <1>2, <1>6, <2>1, ThreadFiledOK DEF Answered, Failed
<1>7. CASE Hit(t) \/ Miss(t)
  <2>1. NotOlder(call[t].hash, {})
    BY <1>2, <1>7 DEF Hit, Miss, NotOlder
  <2>2. \A k \in Key : NotOlder(call[t].hash, Known(call[t].hash)[k])
    BY <1>2, <2>1 DEF Known, Empty
  <2>3. cache' = Known(call[t].hash) /\ cacheHash' = call[t].hash
    BY <1>7 DEF Hit, Miss
  <2>4. pc'[t] # "idle" => NotOlder(call'[t].hash, call'[t].reads)
    BY <1>1, <1>2, <1>7 DEF Hit, Miss
  <2>5. pc'[t] \in {"idle", "compute"}
    BY <1>1, <1>7 DEF Hit, Miss
  <2> QED
    BY <1>1, <1>2, <1>7, <2>1, <2>2, <2>3, <2>4, <2>5, ThreadFiledOK DEF Hit, Miss
<1>8. CASE Read(t)
  <2>1. /\ call'[t].hash = call[t].hash /\ call'[t].reads = call[t].reads \cup {data}
        /\ pc'[t] \in {"compute", "store"}
    BY <1>1, <1>8 DEF Read, Call
  <2>2. NotOlder(call'[t].hash, call'[t].reads)
    BY <1>1, <1>2, <1>8, <2>1 DEF Read, NotOlder
  <2> QED
    BY <1>1, <1>2, <1>8, <2>1, <2>2, ThreadFiledOK DEF Read
<1>9. CASE Raise(t)
  BY <1>1, <1>2, <1>9, ThreadFiledOK DEF Raise
<1>10. CASE Store(t)
  <2>1. \A k \in Key : NotOlder(cacheHash, cache'[k])
    <3>1. \A k \in Key : NotOlder(cacheHash, Room(cache)[k])
      BY <1>2 DEF Room, Empty
    <3>2. Room(cache) \in [Key -> SUBSET Version]
      BY <1>1 DEF Room, Empty
    <3> QED
      BY <1>2, <1>10, <3>1, <3>2 DEF Store
  <2> QED
    BY <1>1, <1>2, <1>10, <2>1, ThreadFiledOK DEF Store
<1> QED
  BY <1>3, <1>4, <1>5, <1>6, <1>7, <1>8, <1>9, <1>10 DEF HashStep, CallStep

LEMMA NextFiledInv == LockInv /\ FiledOK /\ Distinct /\ [Next]_vars => FiledOK'
<1> SUFFICES ASSUME LockInv, FiledOK, Distinct, [Next]_vars PROVE FiledOK'
  OBVIOUS
<1>1. FiledInv
  BY DEF LockInv, FiledInv
<1>2. CASE UNCHANGED vars
  BY <1>2 DEF vars, FiledOK, NotOlder
<1> QED
  BY <1>1, <1>2, WorldFiledOK, StepFiledOK DEF Next

LEMMA Settled == FiledInv => SettledCache
<1> SUFFICES ASSUME FiledInv, cacheHash = Hash[data], NEW k \in Key, NEW r \in cache[k]
             PROVE  r = data
  BY DEF SettledCache
<1>1. data \in Version /\ r \in Version /\ Version \subseteq Nat
  BY HashTypes DEF FiledInv, TypeOK
<1> QED
  BY <1>1 DEF FiledInv, FiledOK, NotOlder

\* If the database never returns to an earlier content, what is cached under
\* the hash of its current version was read from that version alone, however
\* the threads interleave with changes and with each other.
THEOREM CacheSettles ==
    ASSUME Distinct
    PROVE  Spec => []SettledCache
<1>1. LockInv /\ FiledOK => SettledCache
  BY Settled DEF LockInv, FiledInv
<1>2. LockInv /\ FiledOK /\ [Next]_vars => (LockInv /\ FiledOK)'
  BY NextLockInv, NextFiledInv
<1> QED
  BY InitLockInv, InitFiledOK, <1>1, <1>2, PTL DEF Spec

-----------------------------------------------------------------------------
(* Freshness.  The hash a thread works with was the hash of a version that   *)
(* had been replaced less than TTL ago at some moment of its call, so it is  *)
(* newer than every version that had been replaced TTL ago when the call     *)
(* began; and what is filed under a hash is no older than its version.       *)

\* Versions are replaced one after the other.
GoneOK ==
    \A v \in Version : /\ v >= data => gone[v] = 0
                       /\ \A w \in Version : v <= w => gone[w] <= gone[v]

\* h is the hash of no version but those after all of old.
After(h, old) == \A w \in Version : h = Hash[w] => \A v \in old : v < w

\* The version with hash h was replaced at most n ticks ago.
Within(h, n) == \A w \in Version : h = Hash[w] => gone[w] <= n

CallTimely(t) ==
    /\ \A v \in call[t].old : v < data /\ gone[v] = TTL
    /\ pc[t] = "stamp" => After(hashValue, call[t].old) /\ Within(hashValue, call[t].waited)
    /\ pc[t] \in {"lookup", "compute", "store"} =>
         call[t].hash # Unknown /\ After(call[t].hash, call[t].old)
    /\ pc[t] = "idle" => call[t].reads \cap call[t].old = {}

TimelyOK ==
    fails = 0 => /\ hashValue # Unknown /\ Within(hashValue, age)
                 /\ \A t \in Thread : CallTimely(t)

FreshInv == LockInv /\ FiledOK /\ GoneOK /\ TimelyOK

LEMMA InitTimely == Init => GoneOK /\ TimelyOK
<1> SUFFICES ASSUME Init PROVE GoneOK /\ TimelyOK
  OBVIOUS
<1>1. PICK k \in Key : call = [t \in Thread |-> [key |-> k, hash |-> None, reads |-> {},
                                                waited |-> 0, old |-> {}]]
  BY DEF Init
<1>2. GoneOK
  BY DEF Init, GoneOK
<1>3. hashValue # Unknown /\ Within(hashValue, age)
  BY HashTypes DEF Init, Within, None, Unknown
<1>4. \A t \in Thread : CallTimely(t)
  BY <1>1 DEF Init, CallTimely
<1> QED
  BY <1>2, <1>3, <1>4 DEF TimelyOK

LEMMA OlderMonotone == \A m, n \in 0..TTL : m <= n => Older(m) <= Older(n)
BY SizeAssumption DEF Older

LEMMA WorldTimely == FreshInv /\ (Change \/ Tick) => (GoneOK /\ TimelyOK)'
<1> SUFFICES ASSUME FreshInv, Change \/ Tick PROVE (GoneOK /\ TimelyOK)'
  OBVIOUS
<1>1. /\ call \in [Thread -> Call] /\ age \in 0..TTL /\ gone \in [Version -> 0..TTL]
      /\ data \in Version /\ Version \subseteq Nat /\ TTL \in Nat
  BY HashTypes, SizeAssumption DEF FreshInv, LockInv, TypeOK
<1>2. UNCHANGED <<hashValue, pc, fails>>
  BY DEF Change, Tick
<1>3. CASE Change
  <2>1. data' = data + 1 /\ UNCHANGED <<gone, age, call>>
    BY <1>3 DEF Change
  <2>2. GoneOK'
    BY <1>1, <2>1 DEF FreshInv, GoneOK
  <2>3. ASSUME NEW t \in Thread, CallTimely(t) PROVE CallTimely(t)'
    <3>1. \A v \in call[t].old : v \in Nat
      BY <1>1, CallFields
    <3> QED
      BY <1>1, <1>2, <2>1, <2>3, <3>1 DEF CallTimely, After, Within
  <2> QED
    BY <1>2, <2>1, <2>2, <2>3 DEF FreshInv, TimelyOK, Within
<1>4. CASE Tick
  <2>1. /\ data' = data /\ age' = Older(age)
        /\ \A v \in Version : gone'[v] = IF v < data THEN Older(gone[v]) ELSE 0
    BY <1>4 DEF Tick
  <2>2. ASSUME NEW t \in Thread
        PROVE  /\ call'[t].waited = Older(call[t].waited) /\ call'[t].hash = call[t].hash
               /\ call'[t].reads = call[t].reads /\ call'[t].old = call[t].old
               /\ call[t].waited \in 0..TTL /\ call[t].old \subseteq Version
    BY <1>1, <1>4, CallFields DEF Tick, Call
  <2>3. GoneOK'
    <3>1. ASSUME NEW v \in Version, NEW w \in Version, v <= w PROVE gone'[w] <= gone'[v]
      <4>1. gone[w] <= gone[v] /\ gone[v] \in 0..TTL /\ gone[w] \in 0..TTL /\ v \in Nat /\ w \in Nat
        BY <1>1, <3>1 DEF FreshInv, GoneOK
      <4>2. Older(gone[w]) <= Older(gone[v]) /\ 0 <= Older(gone[v])
        BY <4>1, OlderMonotone, OlderType
      <4> QED
        BY <1>1, <2>1, <3>1, <4>1, <4>2
    <3>2. \A v \in Version : v >= data => gone'[v] = 0
      BY <1>1, <2>1
    <3> QED
      BY <2>1, <3>1, <3>2 DEF GoneOK
  <2>4. ASSUME NEW n \in 0..TTL, Within(hashValue, n) PROVE Within(hashValue, Older(n))'
    <3> SUFFICES ASSUME NEW w \in Version, hashValue = Hash[w] PROVE gone'[w] <= Older(n)
      BY <1>2 DEF Within, Older
    <3>1. gone[w] <= n /\ gone[w] \in 0..TTL
      BY <1>1, <2>4 DEF Within
    <3>2. Older(gone[w]) <= Older(n) /\ 0 <= Older(n)
      BY <3>1, OlderMonotone, OlderType
    <3> QED
      BY <2>1, <3>2
  <2>5. ASSUME NEW t \in Thread, CallTimely(t) PROVE CallTimely(t)'
    <3>1. \A v \in call[t].old : v < data /\ gone'[v] = TTL
      <4> SUFFICES ASSUME NEW v \in call[t].old PROVE v < data /\ gone'[v] = TTL
        OBVIOUS
      <4>1. v < data /\ gone[v] = TTL /\ v \in Version
        BY <2>2, <2>5 DEF CallTimely
      <4> QED
        BY <1>1, <2>1, <4>1 DEF Older
    <3>2. pc[t] = "stamp" => Within(hashValue, call[t].waited)'
      <4>1. PICK n \in 0..TTL : n = call[t].waited
        BY <2>2
      <4>2. pc[t] = "stamp" => Within(hashValue, Older(n))'
        BY <2>4, <2>5, <4>1 DEF CallTimely
      <4>3. call'[t].waited = Older(n)
        BY <2>2, <4>1
      <4> QED
        BY <4>2, <4>3 DEF Within, Older
    <3> QED
      BY <1>2, <2>1, <2>2, <2>5, <3>1, <3>2 DEF CallTimely, After
  <2>6. TimelyOK'
    <3> SUFFICES ASSUME fails = 0
                 PROVE  /\ hashValue # Unknown /\ Within(hashValue, age)'
                        /\ \A t \in Thread : CallTimely(t)'
      BY <1>2 DEF TimelyOK
    <3>1. hashValue # Unknown /\ Within(hashValue, age) /\ \A t \in Thread : CallTimely(t)
      BY DEF FreshInv, TimelyOK
    <3>2. Within(hashValue, age)'
      BY <1>1, <2>1, <2>4, <3>1 DEF Within, Older
    <3> QED
      BY <2>5, <3>1, <3>2
  <2> QED
    BY <2>3, <2>6
<1> QED
  BY <1>3, <1>4

\* A step of one thread, in which no other gets the hash it asked for.
LEMMA ThreadTimely ==
  ASSUME FreshInv, NEW t \in Thread, UNCHANGED <<data, gone>>,
         \A u \in Thread : u # t => pc'[u] = pc[u] /\ call'[u] = call[u],
         hashValue' = hashValue \/ \A u \in Thread : u # t => pc[u] # "stamp",
         fails' = fails \/ fails' # 0,
         fails' = 0 => hashValue' # Unknown /\ Within(hashValue', age') /\ CallTimely(t)'
  PROVE  (GoneOK /\ TimelyOK)'
<1>1. GoneOK'
  BY DEF FreshInv, GoneOK
<1>2. ASSUME fails' = 0, NEW u \in Thread PROVE CallTimely(u)'
  <2>1. CASE u = t
    BY <1>2, <2>1
  <2>2. CASE u # t
    <3>1. CallTimely(u)
      BY <1>2 DEF FreshInv, TimelyOK
    <3> QED
      BY <2>2, <3>1 DEF CallTimely, After, Within
  <2> QED
    BY <2>1, <2>2
<1>3. fails' = 0 => Within(hashValue, age)'
  BY DEF Within
<1> QED
  BY <1>1, <1>2, <1>3 DEF TimelyOK

\* A hash that is valid is later than all that was replaced TTL ago.
LEMMA ValidIsAfter ==
  ASSUME FreshInv, NEW t \in Thread, CallTimely(t), Within(hashValue, age), age < TTL
  PROVE  After(hashValue, call[t].old)
<1> SUFFICES ASSUME NEW w \in Version, hashValue = Hash[w], NEW v \in call[t].old PROVE v < w
  BY DEF After
<1>1. v \in Version /\ v \in Nat /\ w \in Nat
  BY HashTypes, CallFields DEF FreshInv, LockInv, TypeOK
<1>2. gone[w] <= age /\ gone[v] = TTL
  BY DEF Within, CallTimely
<1>3. w <= v => gone[v] <= gone[w]
  BY <1>1 DEF FreshInv, GoneOK
<1>4. age \in 0..TTL /\ TTL \in Nat /\ gone[w] \in 0..TTL
  BY SizeAssumption DEF FreshInv, LockInv, TypeOK
<1> QED
  BY <1>1, <1>2, <1>3, <1>4

LEMMA StepTimely ==
  ASSUME FreshInv, Distinct, NEW t \in Thread, Start(t) \/ HashStep(t) \/ CallStep(t)
  PROVE  (GoneOK /\ TimelyOK)'
<1>1. /\ call[t] \in Call /\ call \in [Thread -> Call] /\ pc \in [Thread -> Phases]
      /\ data \in Version /\ gone \in [Version -> 0..TTL] /\ age \in 0..TTL /\ fails \in 0..MaxFails
      /\ Version \subseteq Nat /\ TTL \in Nat \ {0} /\ MaxFails \in Nat
  BY HashTypes, SizeAssumption DEF FreshInv, LockInv, TypeOK
<1>2. fails = 0 => /\ hashValue # Unknown /\ Within(hashValue, age) /\ CallTimely(t)
  BY DEF FreshInv, TimelyOK
<1>3. pc[t] # "idle" => NotOlder(call[t].hash, call[t].reads)
  BY DEF FreshInv, FiledOK
<1>4. CASE Start(t)
  <2>1. PICK k \in Key :
          call' = [call EXCEPT ![t] = [key |-> k, hash |-> None, reads |-> {}, waited |-> 0,
                                       old |-> {v \in Version : v < data /\ gone[v] = TTL}]]
    BY <1>4 DEF Start
  <2>2. pc'[t] = "hash" /\ call'[t].old = {v \in Version : v < data /\ gone[v] = TTL}
    BY <1>1, <1>4, <2>1 DEF Start
  <2>3. CallTimely(t)'
    BY <1>4, <2>2 DEF Start, CallTimely
  <2> QED
    BY <1>1, <1>2, <1>4, <2>3, ThreadTimely DEF Start
<1>5. CASE FastHash(t) \/ Refreshed(t)
  <2>1. /\ call'[t].hash = hashValue /\ call'[t].old = call[t].old /\ pc'[t] = "lookup" /\ age < TTL
        /\ UNCHANGED <<data, gone, hashValue, age, fails>>
    BY <1>1, <1>5 DEF FastHash, Refreshed, Valid, Call
  <2>2. fails = 0 => After(hashValue, call[t].old)
    BY <1>2, <2>1, ValidIsAfter
  <2>3. fails = 0 => CallTimely(t)'
    BY <1>2, <2>1, <2>2 DEF CallTimely, After
  <2> QED
    BY <1>1, <1>2, <1>5, <2>1, <2>3, ThreadTimely DEF FastHash, Refreshed
<1>6. CASE Expired(t) \/ Acquire(t) \/ Ask(t)
  <2>1. call'[t].old = call[t].old /\ pc'[t] \in {"waiting", "locked", "asking"}
    BY <1>1, <1>6 DEF Expired, Acquire, Ask, Call
  <2>2. fails = 0 => CallTimely(t)'
    BY <1>2, <1>6, <2>1 DEF Expired, Acquire, Ask, CallTimely
  <2> QED
    BY <1>1, <1>2, <1>6, <2>2, ThreadTimely DEF Expired, Acquire, Ask
<1>7. CASE Answered(t)
  <2>1. /\ hashValue' = Hash[data] /\ pc'[t] = "stamp" /\ UNCHANGED <<data, gone, age, call, fails>>
        /\ \A u \in Thread : u # t => pc'[u] = pc[u]
    BY <1>1, <1>7 DEF Answered
  <2>2. \A u \in Thread : u # t => pc[u] # "stamp"
    BY <1>7 DEF Answered, FreshInv, LockInv, LockOK
  <2>3. \A w \in Version : hashValue' = Hash[w] => w = data /\ gone[w] = 0
    <3>1. \A w \in Version : hashValue' = Hash[w] => w = data
      BY <1>1, <2>1 DEF Distinct
    <3>2. data >= data
      BY <1>1
    <3>3. gone[data] = 0
      BY <1>1, <3>2 DEF FreshInv, GoneOK
    <3> QED
      BY <3>1, <3>3
  <2>4. hashValue' # Unknown /\ Within(hashValue', age')
    BY <1>1, <2>1, <2>3, HashTypes DEF Within
  <2>5. fails = 0 => CallTimely(t)'
    <3>1. call[t].waited \in 0..TTL
      BY <1>1, CallFields
    <3> QED
      BY <1>1, <1>2, <2>1, <2>3, <3>1 DEF CallTimely, After, Within
  <2> QED
    BY <2>1, <2>2, <2>4, <2>5, ThreadTimely
<1>8. CASE Failed(t)
  <2>1. fails' # 0
    BY <1>1, <1>8 DEF Failed
  <2>2. \A u \in Thread : u # t => pc[u] # "stamp"
    BY <1>8 DEF Failed, FreshInv, LockInv, LockOK
  <2> QED
    BY <1>1, <1>8, <2>1, <2>2, ThreadTimely DEF Failed
<1>9. CASE Stamp(t)
  <2>1. /\ call'[t].hash = hashValue /\ call'[t].old = call[t].old /\ pc'[t] = "lookup"
        /\ age' = call[t].waited /\ pc[t] = "stamp"
        /\ UNCHANGED <<data, gone, hashValue, fails>>
    BY <1>1, <1>9 DEF Stamp, Call
  <2>2. fails = 0 => Within(hashValue', age') /\ CallTimely(t)'
    BY <1>2, <2>1 DEF CallTimely, After, Within
  <2> QED
    BY <1>1, <1>2, <1>9, <2>1, <2>2, ThreadTimely DEF Stamp
<1>10. ASSUME pc[t] \in {"compute", "lookup", "store"},
              pc'[t] \in {"idle", "compute", "store"}, call'[t].hash = call[t].hash,
              call'[t].old = call[t].old, UNCHANGED <<data, gone, hashValue, age, fails>>,
              \A u \in Thread : u # t => pc'[u] = pc[u] /\ call'[u] = call[u],
              pc'[t] = "idle" => NotOlder(call[t].hash, call'[t].reads),
              pc'[t] = "idle" => call'[t].reads \subseteq Version
       PROVE  (GoneOK /\ TimelyOK)'
  <2>1. fails = 0 => call[t].hash # Unknown /\ After(call[t].hash, call[t].old)
    BY <1>2, <1>10 DEF CallTimely
  <2>2. ASSUME fails = 0, pc'[t] = "idle" PROVE call'[t].reads \cap call[t].old = {}
    <3>1. PICK w \in Version : call[t].hash = Hash[w]
      <4>1. call[t].hash # None /\ call[t].hash \in HashValue
        BY <1>1, <1>10, CallFields DEF FreshInv, LockInv, TypeOK
      <4> QED
        BY <2>1, <2>2, <4>1 DEF HashValue
    <3>2. \A r \in call'[t].reads : w <= r /\ r \in Nat
      BY <1>1, <1>10, <2>2, <3>1 DEF NotOlder
    <3>3. \A v \in call[t].old : v < w /\ v \in Nat
      BY <1>1, <2>1, <2>2, <3>1, CallFields DEF After
    <3> QED
      BY <1>1, <3>2, <3>3
  <2>3. fails = 0 => CallTimely(t)'
    BY <1>2, <1>10, <2>1, <2>2 DEF CallTimely, After
  <2> QED
    BY <1>2, <1>10, <2>3, ThreadTimely
<1>11. CASE Hit(t)
  <2>1. /\ call' = [call EXCEPT ![t].reads = Known(call[t].hash)[call[t].key]]
        /\ pc' = [pc EXCEPT ![t] = "idle"] /\ pc[t] = "lookup"
        /\ UNCHANGED <<data, gone, hashValue, age, owner, fails>>
    BY <1>11 DEF Hit
  <2>2. Known(call[t].hash)[call[t].key] \subseteq Version /\ call[t].key \in Key
    BY <1>1, CallFields DEF Known, Empty, FreshInv, LockInv, TypeOK
  <2>3. NotOlder(call[t].hash, Known(call[t].hash)[call[t].key])
    <3>1. CASE call[t].hash = cacheHash
      BY <2>2, <3>1 DEF Known, FreshInv, FiledOK
    <3>2. CASE call[t].hash # cacheHash
      BY <1>3, <2>1, <2>2, <3>2 DEF Known, Empty, NotOlder
    <3> QED
      BY <3>1, <3>2
  <2>4. /\ call'[t].hash = call[t].hash /\ call'[t].old = call[t].old
        /\ call'[t].reads = Known(call[t].hash)[call[t].key] /\ pc'[t] = "idle"
        /\ \A u \in Thread : u # t => pc'[u] = pc[u] /\ call'[u] = call[u]
    BY <1>1, <2>1 DEF Call
  <2> QED
    BY <1>10, <2>1, <2>2, <2>3, <2>4
<1>12. CASE Miss(t)
  <2>1. /\ pc[t] = "lookup" /\ pc'[t] = "compute" /\ UNCHANGED <<data, gone, hashValue, age, call, fails>>
        /\ \A u \in Thread : u # t => pc'[u] = pc[u]
    BY <1>1, <1>12 DEF Miss
  <2> QED
    BY <1>10, <2>1
<1>13. CASE Read(t)
  <2>1. /\ call'[t].hash = call[t].hash /\ call'[t].old = call[t].old /\ pc[t] = "compute"
        /\ pc'[t] \in {"compute", "store"} /\ UNCHANGED <<data, gone, hashValue, age, fails>>
        /\ \A u \in Thread : u # t => pc'[u] = pc[u] /\ call'[u] = call[u]
    BY <1>1, <1>13 DEF Read, Call
  <2> QED
    BY <1>10, <2>1
<1>14. CASE Raise(t)
  <2>1. /\ call'[t].hash = call[t].hash /\ call'[t].old = call[t].old /\ call'[t].reads = {}
        /\ pc[t] = "compute" /\ pc'[t] = "idle" /\ UNCHANGED <<data, gone, hashValue, age, fails>>
        /\ \A u \in Thread : u # t => pc'[u] = pc[u] /\ call'[u] = call[u]
    BY <1>1, <1>14 DEF Raise, Call
  <2>2. NotOlder(call[t].hash, {})
    BY <1>3, <2>1 DEF NotOlder
  <2> QED
    BY <1>10, <2>1, <2>2
<1>15. CASE Store(t)
  <2>1. /\ pc[t] = "store" /\ pc'[t] = "idle" /\ UNCHANGED <<data, gone, hashValue, age, call, fails>>
        /\ \A u \in Thread : u # t => pc'[u] = pc[u]
    BY <1>1, <1>15 DEF Store
  <2>2. call[t].reads \subseteq Version
    BY <1>1, CallFields
  <2> QED
    BY <1>3, <1>10, <2>1, <2>2
<1> QED
  BY <1>4, <1>5, <1>6, <1>7, <1>8, <1>9, <1>11, <1>12, <1>13, <1>14, <1>15 DEF HashStep, CallStep

\* If the database never returns to an earlier content, no answer shows a
\* version that had been replaced TTL or longer when the call began: neither
\* the age of the hash, nor the wait for its lock, nor results of slow threads
\* filed under it add to that.
THEOREM AnswersAreFresh ==
    ASSUME Distinct
    PROVE  Spec => []Fresh
<1>1. Init => FreshInv
  BY InitLockInv, InitFiledOK, InitTimely DEF FreshInv
<1>2. FreshInv /\ [Next]_vars => FreshInv'
  <2> SUFFICES ASSUME FreshInv, [Next]_vars PROVE FreshInv'
    OBVIOUS
  <2>1. LockInv' /\ FiledOK'
    BY NextLockInv, NextFiledInv DEF FreshInv
  <2>2. CASE UNCHANGED vars
    BY <2>1, <2>2 DEF vars, FreshInv, GoneOK, TimelyOK, CallTimely, After, Within
  <2>3. CASE Next
    BY <2>1, <2>3, WorldTimely, StepTimely DEF Next, FreshInv
  <2> QED
    BY <2>2, <2>3
<1>3. FreshInv => Fresh
  BY DEF FreshInv, TimelyOK, CallTimely, Fresh
<1> QED
  BY <1>1, <1>2, <1>3, PTL DEF Spec
=============================================================================

------------------------ MODULE BaselineFetch_proofs ------------------------
(* The capacity and the evictions of the baseline cache, for every capacity  *)
(* and every lifetime.  Then the metrics handler that uses it: its types,    *)
(* that a key is fetched by one request at a time and only while the cache   *)
(* can't serve it, and what requests are answered with, for every set of     *)
(* requests, keys and queries and every pool.                                *)
EXTENDS BaselineFetch, FiniteSetTheorems, TLAPS

-----------------------------------------------------------------------------
(* The cache by itself.                                                      *)

\* Making room leaves at most MaxEntries - 1 keys of a cache within its capacity.
LEMMA RoomLeavesOneFree ==
    ASSUME NEW ks, IsFiniteSet(ks), Cardinality(ks) <= MaxEntries, NEW left \in Room(ks)
    PROVE  IsFiniteSet(left) /\ Cardinality(left) <= MaxEntries - 1
<1> USE CacheAssumption
<1>0. Cardinality(ks) \in Nat
  BY FS_CardinalityType
<1>1. CASE Cardinality(ks) >= MaxEntries
  <2>1. PICK k \in Oldest(ks) : left = ks \ {k}
    BY <1>1 DEF Room
  <2>2. k \in ks
    BY DEF Oldest
  <2>3. IsFiniteSet(ks \ {k}) /\ Cardinality(ks \ {k}) = Cardinality(ks) - 1
    BY <2>2, FS_RemoveElement
  <2> QED
    BY <1>0, <2>1, <2>3
<1>2. CASE ~(Cardinality(ks) >= MaxEntries)
  BY <1>0, <1>2 DEF Room
<1> QED
  BY <1>1, <1>2

\* Set keeps the cache within its capacity, whatever it held and whichever key it
\* stores: the room it makes is enough for a new key.
LEMMA SetRespectsCapacity ==
    ASSUME NEW k \in Keys, NEW res, CapacityRespected, SetEntry(k, res)
    PROVE  CapacityRespected'
<1> USE CacheAssumption
<1>1. PICK left \in Room(Fresh) :
        entries' = [j \in left \cup {k} |->
                        IF j = k THEN [results |-> res, expiresAt |-> now + TTL]
                                 ELSE entries[j]]
  BY DEF SetEntry, ExpiryOfNew
<1>2. IsFiniteSet(Fresh) /\ Cardinality(Fresh) <= Cardinality(DOMAIN entries)
  BY FS_Subset DEF Fresh, CapacityRespected
<1>3. Cardinality(Fresh) \in Nat /\ Cardinality(DOMAIN entries) \in Nat
  BY <1>2, FS_CardinalityType DEF CapacityRespected
<1>4. IsFiniteSet(left) /\ Cardinality(left) <= MaxEntries - 1
  BY <1>2, <1>3, RoomLeavesOneFree DEF CapacityRespected
<1>5. Cardinality(left) \in Nat
  BY <1>4, FS_CardinalityType
<1>6. IsFiniteSet(left \cup {k}) /\ Cardinality(left \cup {k}) <= Cardinality(left) + 1
  BY <1>4, <1>5, FS_AddElement
<1>7. DOMAIN entries' = left \cup {k} /\ Cardinality(left \cup {k}) \in Nat
  BY <1>1, <1>6, FS_CardinalityType
<1> QED
  BY <1>4, <1>5, <1>6, <1>7 DEF CapacityRespected

\* The cache never holds more entries than its capacity.
THEOREM CapacityAlways == CacheSpec => []CapacityRespected
<1>1. CacheInit => CapacityRespected
  BY CacheAssumption, FS_EmptySet DEF CacheInit, CapacityRespected
<1>2. CapacityRespected /\ [CacheNext]_cacheVars => CapacityRespected'
  BY SetRespectsCapacity DEF CacheNext, Tick, cacheVars, CapacityRespected
<1> QED
  BY <1>1, <1>2, PTL DEF CacheSpec

-----------------------------------------------------------------------------
\* A Set that finds room loses no live entry; one that doesn't loses exactly one, and
\* no other would have expired before it.
LEMMA RoomLosesOldest ==
    ASSUME NEW left \in Room(Fresh), NEW k \in Fresh, k \notin left
    PROVE  /\ Cardinality(Fresh) >= MaxEntries
           /\ \A j \in Fresh \ {k} :
                /\ entries[k].expiresAt <= entries[j].expiresAt
                /\ j \in left
<1>1. Cardinality(Fresh) >= MaxEntries
  BY DEF Room
<1>2. PICK i \in Oldest(Fresh) : left = Fresh \ {i}
  BY <1>1 DEF Room
<1>3. i = k
  BY <1>2
<1> QED
  BY <1>1, <1>2, <1>3 DEF Oldest

\* Set evicts the entry closest to its expiry, only at capacity, and only one.
THEOREM LiveEntriesSurviveAlways == CacheSpec => LiveEntriesSurvive
<1>1. ASSUME CacheNext, NEW k \in Fresh, k \notin DOMAIN entries'
      PROVE  /\ Cardinality(Fresh) >= MaxEntries
             /\ \A j \in Fresh \ {k} :
                  /\ entries[k].expiresAt <= entries[j].expiresAt
                  /\ j \in DOMAIN entries'
  <2>1. entries' # entries
    BY <1>1 DEF Fresh
  <2>2. PICK i \in Keys, res \in Results : SetEntry(i, res)
    BY <1>1, <2>1 DEF CacheNext, Tick
  <2>3. PICK left \in Room(Fresh) : DOMAIN entries' = left \cup {i}
    BY <2>2 DEF SetEntry
  <2> QED
    BY <1>1, <2>3, RoomLosesOldest
<1>2. CacheNext =>
        \A k \in Fresh :
          k \notin DOMAIN entries'
            => /\ Cardinality(Fresh) >= MaxEntries
               /\ \A j \in Fresh \ {k} :
                    /\ entries[k].expiresAt <= entries[j].expiresAt
                    /\ j \in DOMAIN entries'
  BY <1>1
<1> QED
  BY <1>2, PTL DEF CacheSpec, LiveEntriesSurvive

-----------------------------------------------------------------------------
USE DEF cacheVars, requestVars

-----------------------------------------------------------------------------
(* The cache as the handler uses it.                                         *)

\* A Set keeps the cache's types, and makes no key fresh but its own.
LEMMA SetEntryEffect ==
    ASSUME CacheTypeOK, NEW k \in Keys, NEW res \in Results, SetEntry(k, res)
    PROVE  CacheTypeOK' /\ Fresh' \subseteq Fresh \cup {k}
<1>1. PICK left \in Room(Fresh) :
        /\ entries' = [j \in left \cup {k} |->
                        IF j = k THEN [results |-> res, expiresAt |-> now + TTL]
                                 ELSE entries[j]]
        /\ now' = now
  BY DEF SetEntry, ExpiryOfNew
<1>2. left \subseteq Fresh
  BY DEF Room
<1>3. DOMAIN entries' = left \cup {k} /\ left \subseteq DOMAIN entries
  BY <1>1, <1>2 DEF Fresh
<1>4. [results |-> res, expiresAt |-> now + TTL] \in Entry
  BY CacheAssumption DEF Entry, CacheTypeOK
<1>5. \A j \in DOMAIN entries' : entries'[j] \in Entry
  BY <1>1, <1>3, <1>4 DEF CacheTypeOK
<1>6. CacheTypeOK'
  BY <1>1, <1>3, <1>5 DEF CacheTypeOK
<1>7. Fresh' \subseteq Fresh \cup {k}
  BY <1>2, <1>3 DEF Fresh
<1> QED
  BY <1>6, <1>7

\* The passing of time makes no key fresh.
LEMMA TickEffect ==
    ASSUME CacheTypeOK, Tick
    PROVE  CacheTypeOK' /\ Fresh' \subseteq Fresh
<1>1. now' = now + 1 /\ entries' = entries /\ now \in Nat
  BY DEF Tick, CacheTypeOK
<1>2. \A k \in DOMAIN entries : entries[k].expiresAt \in Nat
  BY DEF CacheTypeOK, Entry
<1> QED
  BY <1>1, <1>2 DEF CacheTypeOK, Fresh, Expired

-----------------------------------------------------------------------------
(* Type correctness.                                                         *)

\* Every variable has its type; the batch of a request is the one of its key.
LEMMA TypeInit == Init => TypeOK
<1> SUFFICES ASSUME Init PROVE TypeOK
  OBVIOUS
<1>1. CacheTypeOK
  BY CacheAssumption DEF Init, CacheInit, CacheTypeOK
<1>2. DOMAIN task = Requests /\ \A r \in Requests : task[r] \in [Queries[key[r]] -> TaskStates]
  BY DEF Init, TaskStates
<1>3. promSem \in Nat
  BY DEF Init
<1> QED
  BY <1>1, <1>2, <1>3 DEF Init, TypeOK, Phases

\* One goroutine of a batch moves on.
LEMMA TaskMoves ==
    ASSUME TypeOK, NEW r \in Requests, NEW q \in DOMAIN task[r], NEW v \in TaskStates,
           task' = [task EXCEPT ![r][q] = v], key' = key
    PROVE  /\ DOMAIN task' = Requests
           /\ \A s \in Requests : task'[s] \in [Queries[key'[s]] -> TaskStates]
           /\ \A s \in Requests \ {r} : task'[s] = task[s]
           /\ task'[r] = [task[r] EXCEPT ![q] = v]
  BY DEF TypeOK

\* A batch is started.
LEMMA BatchStarts ==
    ASSUME TypeOK, NEW r \in Requests, Start(r), key' = key
    PROVE  /\ DOMAIN task' = Requests
           /\ \A s \in Requests : task'[s] \in [Queries[key'[s]] -> TaskStates]
           /\ \A s \in Requests \ {r} : task'[s] = task[s]
           /\ task'[r] = [q \in Queries[key[r]] |-> "queued"]
  BY DEF TypeOK, Start, TaskStates

\* A finished batch is something a fetch may return.
LEMMA FinishedBatch ==
    ASSUME TypeOK, NEW r \in Requests, Unfinished(r) = {}
    PROVE  task[r] \in Results
<1>1. key[r] \in Keys /\ task[r] \in [Queries[key[r]] -> TaskStates]
  BY DEF TypeOK
<1>2. task[r] \in [Queries[key[r]] -> {"value", "nil", "aborted", "missing"}]
  BY <1>1 DEF Unfinished, TaskStates
<1>3. task[r] \in Batches
  BY <1>1, <1>2 DEF Batches
<1> QED
  BY <1>3, FetchAssumption

-----------------------------------------------------------------------------
(* The semaphore: the slots taken are exactly the queries that run.  A batch *)
(* is started only when the request has none unfinished, or its queries      *)
(* would be forgotten with their slots.                                      *)

SlotInv ==
    /\ IsFiniteSet(RunningTasks)
    /\ SlotsRespected
    /\ \A r \in Requests : pc[r] \notin {"current", "fetch"} => Unfinished(r) = {}

\* Before the first request no query runs and no slot is taken.
LEMMA SlotInit == Init => SlotInv
<1> SUFFICES ASSUME Init PROVE SlotInv
  OBVIOUS
<1>1. \A r \in Requests : task[r] = [q \in Queries[key[r]] |-> "missing"]
  BY DEF Init
<1>2. RunningTasks = {}
  BY <1>1 DEF RunningTasks
<1>3. \A r \in Requests : Unfinished(r) = {}
  BY <1>1 DEF Unfinished
<1>4. promSem = 0 /\ 0 <= Slots
  BY FetchAssumption DEF Init
<1> QED
  BY <1>2, <1>3, <1>4, FS_EmptySet DEF SlotInv, SlotsRespected

\* What runs is unchanged by a step that moves no goroutine in or out of "running".
LEMMA SameRunning ==
    ASSUME TypeOK, key' = key,
           \A r \in Requests : \A q \in Queries[key[r]] :
               task'[r][q] = "running" <=> task[r][q] = "running"
    PROVE  RunningTasks' = RunningTasks
  BY DEF RunningTasks

\* A goroutine that gets a slot, or gives one back, changes what runs by one.
LEMMA RunningGrows ==
    ASSUME TypeOK, NEW r \in Requests, NEW q \in DOMAIN task[r], task[r][q] # "running",
           task' = [task EXCEPT ![r][q] = "running"], key' = key
    PROVE  RunningTasks' = RunningTasks \cup {<<r, q>>} /\ <<r, q>> \notin RunningTasks
<1>1. q \in Queries[key[r]] /\ key[r] \in Keys
  BY DEF TypeOK
<1>2. <<r, q>> \in Requests \X UNION {Queries[k] : k \in Keys}
  BY <1>1
<1>3. task'[r] = [task[r] EXCEPT ![q] = "running"]
      /\ \A s \in Requests \ {r} : task'[s] = task[s]
  BY TaskMoves DEF TaskStates
<1> QED
  BY <1>1, <1>2, <1>3 DEF RunningTasks, TypeOK

\* A query that ends leaves the others running.
LEMMA RunningShrinks ==
    ASSUME TypeOK, NEW r \in Requests, NEW q \in DOMAIN task[r], task[r][q] = "running",
           NEW v \in TaskStates \ {"running"},
           task' = [task EXCEPT ![r][q] = v], key' = key
    PROVE  RunningTasks' = RunningTasks \ {<<r, q>>} /\ <<r, q>> \in RunningTasks
<1>1. q \in Queries[key[r]] /\ key[r] \in Keys
  BY DEF TypeOK
<1>2. <<r, q>> \in Requests \X UNION {Queries[k] : k \in Keys}
  BY <1>1
<1>3. task'[r] = [task[r] EXCEPT ![q] = v]
      /\ \A s \in Requests \ {r} : task'[s] = task[s]
  BY TaskMoves
<1> QED
  BY <1>1, <1>2, <1>3 DEF RunningTasks, TypeOK

\* Acquire, Skip and Finish keep the semaphore exact.
LEMMA SlotAcquire ==
    ASSUME TypeOK, SlotInv, NEW r \in Requests, NEW q \in DOMAIN task[r], Acquire(r, q)
    PROVE  SlotInv' /\ promSem' \in Nat
<1> USE FetchAssumption
<1>1. RunningTasks' = RunningTasks \cup {<<r, q>>} /\ <<r, q>> \notin RunningTasks
  BY RunningGrows DEF Acquire
<1>2. IsFiniteSet(RunningTasks') /\ Cardinality(RunningTasks') = Cardinality(RunningTasks) + 1
  BY <1>1, FS_AddElement DEF SlotInv
<1>3. promSem' = Cardinality(RunningTasks') /\ promSem' <= Slots /\ promSem' \in Nat
  BY <1>2 DEF Acquire, SlotFree, SlotInv, SlotsRespected, TypeOK
<1>4. pc[r] \in {"current", "fetch"}
  BY DEF Acquire, SlotInv, Unfinished
<1>5. \A s \in Requests \ {r} : Unfinished(s)' = Unfinished(s)
  BY TaskMoves DEF Acquire, Unfinished, TaskStates
<1> QED
  BY <1>2, <1>3, <1>4, <1>5 DEF Acquire, SlotInv, SlotsRespected

\* A query given up before it had a slot changes no count.
LEMMA SlotSkip ==
    ASSUME TypeOK, SlotInv, NEW r \in Requests, NEW q \in DOMAIN task[r], Skip(r, q)
    PROVE  SlotInv'
<1>1. task[r][q] = "queued" /\ task'[r] = [task[r] EXCEPT ![q] = "missing"]
      /\ \A s \in Requests \ {r} : task'[s] = task[s]
  BY TaskMoves DEF Skip, TaskStates
<1>2. \A s \in Requests : \A p \in Queries[key[s]] :
        task'[s][p] = "running" <=> task[s][p] = "running"
  BY <1>1 DEF TypeOK
<1>3. RunningTasks' = RunningTasks
  BY <1>2, SameRunning DEF Skip
<1>4. pc[r] \in {"current", "fetch"}
  BY DEF Skip, SlotInv, Unfinished
<1>5. \A s \in Requests \ {r} : Unfinished(s)' = Unfinished(s)
  BY <1>1 DEF Unfinished
<1> QED
  BY <1>3, <1>4, <1>5 DEF Skip, SlotInv, SlotsRespected

\* A query that ends gives its slot back.
LEMMA SlotFinish ==
    ASSUME TypeOK, SlotInv, NEW r \in Requests, NEW q \in DOMAIN task[r], Finish(r, q)
    PROVE  SlotInv' /\ promSem' \in Nat
<1> USE FetchAssumption
<1>0. PICK v \in {"value", "nil", "aborted"} : task' = [task EXCEPT ![r][q] = v]
  BY DEF Finish
<1>1. RunningTasks' = RunningTasks \ {<<r, q>>} /\ <<r, q>> \in RunningTasks
  BY <1>0, RunningShrinks DEF Finish, TaskStates
<1>2. IsFiniteSet(RunningTasks') /\ Cardinality(RunningTasks') = Cardinality(RunningTasks) - 1
  BY <1>1, FS_RemoveElement DEF SlotInv
<1>3. Cardinality(RunningTasks') \in Nat
  BY <1>2, FS_CardinalityType
<1>4. promSem' = Cardinality(RunningTasks') /\ promSem' <= Slots /\ promSem' \in Nat
  BY <1>2, <1>3 DEF Finish, ReleasedSlots, SlotInv, SlotsRespected, TypeOK
<1>5. pc[r] \in {"current", "fetch"}
  BY DEF Finish, SlotInv, Unfinished
<1>6. \A s \in Requests \ {r} : Unfinished(s)' = Unfinished(s)
  BY <1>0, TaskMoves DEF Finish, Unfinished, TaskStates
<1> QED
  BY <1>2, <1>4, <1>5, <1>6 DEF Finish, SlotInv, SlotsRespected

\* A step that starts a batch of a request with nothing unfinished, or none, keeps it too.
LEMMA SlotStart ==
    ASSUME TypeOK, SlotInv, NEW r \in Requests, pc[r] \notin {"current", "fetch"}, Start(r),
           pc' = [pc EXCEPT ![r] = "current"] \/ pc' = [pc EXCEPT ![r] = "fetch"],
           key' = key, promSem' = promSem
    PROVE  SlotInv'
<1>1. task'[r] = [q \in Queries[key[r]] |-> "queued"]
      /\ \A s \in Requests \ {r} : task'[s] = task[s]
  BY BatchStarts
<1>2. \A q \in Queries[key[r]] : task[r][q] # "running"
  BY DEF SlotInv, Unfinished, TypeOK
<1>3. RunningTasks' = RunningTasks
  BY <1>1, <1>2, SameRunning DEF TypeOK
<1>4. \A s \in Requests \ {r} : Unfinished(s)' = Unfinished(s) /\ pc'[s] = pc[s]
  BY <1>1 DEF Unfinished, TypeOK
<1>5. pc'[r] \in {"current", "fetch"}
  BY DEF TypeOK
<1> QED
  BY <1>3, <1>4, <1>5 DEF SlotInv, SlotsRespected

\* The steps that touch neither the batches nor the semaphore keep the count.
LEMMA SlotSame ==
    ASSUME TypeOK, SlotInv, UNCHANGED <<task, key, promSem>>,
           \A r \in Requests : Unfinished(r) # {} => pc'[r] = pc[r]
    PROVE  SlotInv'
<1>1. RunningTasks' = RunningTasks
  BY DEF RunningTasks
<1>2. \A r \in Requests : Unfinished(r)' = Unfinished(r)
  BY DEF Unfinished
<1> QED
  BY <1>1, <1>2 DEF SlotInv, SlotsRespected

-----------------------------------------------------------------------------
(* One step, action by action.                                               *)

\* Every step keeps the types and the count of the slots.
LEMMA TypeSlotNext == TypeOK /\ SlotInv /\ [Next]_vars => TypeOK' /\ SlotInv'
<1> SUFFICES ASSUME TypeOK, SlotInv, [Next]_vars PROVE TypeOK' /\ SlotInv'
  OBVIOUS
<1>1. ASSUME NEW r \in Requests, NEW q \in DOMAIN task[r], Acquire(r, q)
      PROVE TypeOK' /\ SlotInv'
  <2>1. SlotInv' /\ promSem' \in Nat
    BY <1>1, SlotAcquire
  <2>2. DOMAIN task' = Requests /\ \A s \in Requests : task'[s] \in [Queries[key'[s]] -> TaskStates]
    BY <1>1, TaskMoves DEF Acquire, TaskStates
  <2> QED
    BY <1>1, <2>1, <2>2 DEF Acquire, TypeOK, CacheTypeOK
<1>2. ASSUME NEW r \in Requests, NEW q \in DOMAIN task[r], Skip(r, q)
      PROVE TypeOK' /\ SlotInv'
  <2>1. DOMAIN task' = Requests /\ \A s \in Requests : task'[s] \in [Queries[key'[s]] -> TaskStates]
    BY <1>2, TaskMoves DEF Skip, TaskStates
  <2> QED
    BY <1>2, <2>1, SlotSkip DEF Skip, TypeOK, CacheTypeOK
<1>3. ASSUME NEW r \in Requests, NEW q \in DOMAIN task[r], Finish(r, q)
      PROVE TypeOK' /\ SlotInv'
  <2>1. SlotInv' /\ promSem' \in Nat
    BY <1>3, SlotFinish
  <2>2. PICK v \in {"value", "nil", "aborted"} : task' = [task EXCEPT ![r][q] = v]
    BY <1>3 DEF Finish
  <2>3. DOMAIN task' = Requests /\ \A s \in Requests : task'[s] \in [Queries[key'[s]] -> TaskStates]
    BY <1>3, <2>2, TaskMoves DEF Finish, TaskStates
  <2> QED
    BY <1>3, <2>1, <2>3 DEF Finish, TypeOK, CacheTypeOK
<1>4. ASSUME NEW r \in Requests, Arrive(r)
      PROVE TypeOK' /\ SlotInv'
  <2>1. SlotInv'
    BY <1>4, SlotStart DEF Arrive
  <2>2. DOMAIN task' = Requests /\ \A s \in Requests : task'[s] \in [Queries[key'[s]] -> TaskStates]
    BY <1>4, BatchStarts DEF Arrive
  <2> QED
    BY <1>4, <2>1, <2>2 DEF Arrive, TypeOK, CacheTypeOK, Phases
<1>5. ASSUME NEW r \in Requests, Refuse(r)
      PROVE TypeOK' /\ SlotInv'
  <2>1. SlotInv'
    BY <1>5, SlotSame DEF Refuse, SlotInv, TypeOK
  <2> QED
    BY <1>5, <2>1 DEF Refuse, TypeOK, CacheTypeOK, Phases
<1>6. ASSUME NEW r \in Requests, CurrentDone(r)
      PROVE TypeOK' /\ SlotInv'
  <2>1. SlotInv'
    BY <1>6, SlotSame DEF CurrentDone, TypeOK
  <2>2. pc' \in [Requests -> Phases]
    BY <1>6 DEF CurrentDone, TypeOK, Phases
  <2> QED
    BY <1>6, <2>1, <2>2 DEF CurrentDone, TypeOK, CacheTypeOK
<1>7. ASSUME NEW r \in Requests, CacheGet(r)
      PROVE TypeOK' /\ SlotInv'
  <2>1. SlotInv'
    BY <1>7, SlotSame DEF CacheGet, SlotInv, TypeOK
  <2>2. key[r] \in Fresh => entries[key[r]].results \in Results
    BY DEF TypeOK, CacheTypeOK, Fresh, Entry
  <2>3. pc' \in [Requests -> Phases] /\ answer' \in [Requests -> Results \cup {None}]
    BY <1>7, <2>2 DEF CacheGet, TypeOK, Phases
  <2> QED
    BY <1>7, <2>1, <2>3 DEF CacheGet, TypeOK, CacheTypeOK
<1>8. ASSUME NEW r \in Requests, JoinFlight(r)
      PROVE TypeOK' /\ SlotInv'
  <2>1. SlotInv'
    BY <1>8, SlotSame DEF JoinFlight, SlotInv, TypeOK
  <2>2. pc' \in [Requests -> Phases]
    BY <1>8 DEF JoinFlight, TypeOK, Phases
  <2>3. flight' \in [Keys -> Requests \cup {NoOne}] /\ joined' \in [Requests -> Requests \cup {NoOne}]
    BY <1>8 DEF JoinFlight, TypeOK
  <2> QED
    BY <1>8, <2>1, <2>2, <2>3 DEF JoinFlight, TypeOK, CacheTypeOK
<1>9. ASSUME NEW r \in Requests, DoubleCheck(r)
      PROVE TypeOK' /\ SlotInv'
  <2>1. CASE Found(key[r])
    <3>1. SlotInv'
      BY <1>9, <2>1, SlotSame DEF DoubleCheck, SlotInv, TypeOK
    <3>2. entries[key[r]].results \in Results
      BY <2>1 DEF Found, TypeOK, CacheTypeOK, Fresh, Entry
    <3> QED
      BY <1>9, <2>1, <3>1, <3>2 DEF DoubleCheck, TypeOK, CacheTypeOK, Phases
  <2>2. CASE ~Found(key[r])
    <3>1. SlotInv'
      BY <1>9, <2>2, SlotStart DEF DoubleCheck
    <3>2. DOMAIN task' = Requests
          /\ \A s \in Requests : task'[s] \in [Queries[key'[s]] -> TaskStates]
      BY <1>9, <2>2, BatchStarts DEF DoubleCheck
    <3> QED
      BY <1>9, <2>2, <3>1, <3>2 DEF DoubleCheck, TypeOK, CacheTypeOK, Phases
  <2> QED
    BY <2>1, <2>2
<1>10. ASSUME NEW r \in Requests, FetchDone(r)
      PROVE TypeOK' /\ SlotInv'
  <2>1. SlotInv'
    BY <1>10, SlotSame DEF FetchDone, TypeOK
  <2>2. task[r] \in Results /\ key[r] \in Keys
    BY <1>10, FinishedBatch DEF FetchDone, TypeOK
  <2>3. CacheTypeOK'
    BY <1>10, <2>2, SetEntryEffect DEF FetchDone, TypeOK, CacheTypeOK
  <2>4. pc' \in [Requests -> Phases] /\ answer' \in [Requests -> Results \cup {None}]
    BY <1>10, <2>2 DEF FetchDone, TypeOK, Phases
  <2> QED
    BY <1>10, <2>1, <2>3, <2>4 DEF FetchDone, TypeOK
<1>11. ASSUME NEW r \in Requests, FlightReturns(r)
      PROVE TypeOK' /\ SlotInv'
  <2>1. \A s \in Requests : pc'[s] = pc[s] \/ pc[s] \in {"wait", "return"}
    BY <1>11 DEF FlightReturns
  <2>2. SlotInv'
    BY <1>11, <2>1, SlotSame DEF FlightReturns, SlotInv
  <2>3. pc' \in [Requests -> Phases] /\ answer' \in [Requests -> Results \cup {None}]
        /\ flight' \in [Keys -> Requests \cup {NoOne}]
    BY <1>11 DEF FlightReturns, TypeOK, Phases
  <2> QED
    BY <1>11, <2>2, <2>3 DEF FlightReturns, TypeOK, CacheTypeOK
<1>12. ASSUME NEW r \in Requests, Cancel(r)
      PROVE TypeOK' /\ SlotInv'
  <2>1. SlotInv'
    BY <1>12, SlotSame DEF Cancel
  <2> QED
    BY <1>12, <2>1 DEF Cancel, TypeOK, CacheTypeOK
<1>13. CASE TimePasses
  <2>1. SlotInv'
    BY <1>13, SlotSame DEF TimePasses
  <2> QED
    BY <1>13, <2>1, TickEffect DEF TimePasses, TypeOK
<1>14. CASE UNCHANGED vars
  <2>1. SlotInv'
    BY <1>14, SlotSame DEF vars
  <2> QED
    BY <1>14, <2>1 DEF vars, TypeOK, CacheTypeOK
<1> QED
  BY <1>1, <1>2, <1>3, <1>4, <1>5, <1>6, <1>7, <1>8, <1>9, <1>10, <1>11, <1>12, <1>13, <1>14
  DEF Next, Step

\* Every variable keeps its type: what the cache holds and what a request is answered
\* with are results of a fetch.
THEOREM TypeCorrect == Spec => []TypeOK
  BY TypeInit, SlotInit, TypeSlotNext, PTL DEF Spec

\* The queries of all requests together never exceed the slots of promSem, and no slot
\* is lost: those taken are exactly the queries that run.
THEOREM SlotsAlwaysRespected == Spec => []SlotsRespected
<1>1. SlotInv => SlotsRespected
  BY DEF SlotInv
<1> QED
  BY <1>1, TypeInit, SlotInit, TypeSlotNext, PTL DEF Spec

-----------------------------------------------------------------------------
(* The singleflight: a request that looks again, fetches or is about to      *)
(* return is the leader that the flight of its key records, so there is one  *)
(* of them per key, and nobody else can fill the cache while it fetches.     *)

FlightInv ==
    \A r \in Requests :
        /\ pc[r] \in {"check", "fetch", "return"} => flight[key[r]] = r /\ joined[r] = r
        /\ pc[r] = "fetch" => key[r] \notin Fresh

\* Every step keeps one leader per key, and no leader fetches a key that is alive.
LEMMA FlightNext == TypeOK /\ FlightInv /\ [Next]_vars => FlightInv'
<1> SUFFICES ASSUME TypeOK, FlightInv, [Next]_vars PROVE FlightInv'
  OBVIOUS
<1> USE FetchAssumption
<1>1. ASSUME NEW r \in Requests, NEW q \in DOMAIN task[r],
             Acquire(r, q) \/ Skip(r, q) \/ Finish(r, q)
      PROVE FlightInv'
  BY <1>1 DEF Acquire, Skip, Finish, FlightInv, Fresh, Expired
<1>2. ASSUME NEW r \in Requests,
             Arrive(r) \/ Refuse(r) \/ CurrentDone(r) \/ CacheGet(r) \/ Cancel(r)
      PROVE FlightInv'
  <2>1. Fresh' = Fresh /\ UNCHANGED <<key, flight, joined>>
    BY <1>2 DEF Arrive, Refuse, CurrentDone, CacheGet, Cancel, Fresh, Expired
  <2>2. \A s \in Requests : pc'[s] \in {"check", "fetch", "return"} => pc'[s] = pc[s]
    BY <1>2 DEF Arrive, Refuse, CurrentDone, CacheGet, Cancel, TypeOK
  <2> QED
    BY <2>1, <2>2 DEF FlightInv
<1>3. ASSUME NEW r \in Requests, JoinFlight(r)
      PROVE FlightInv'
  <2>1. Fresh' = Fresh /\ key' = key
    BY <1>3 DEF JoinFlight, Fresh, Expired
  <2>2. CASE Leads(key[r])
    <3>1. flight[key[r]] = NoOne
      BY <2>2 DEF Leads
    <3>2. \A s \in Requests \ {r} :
            pc[s] \in {"check", "fetch", "return"} => key[s] # key[r]
      BY <3>1 DEF FlightInv
    <3>3. /\ pc' = [pc EXCEPT ![r] = "check"] /\ joined' = [joined EXCEPT ![r] = r]
          /\ flight' = [flight EXCEPT ![key[r]] = r]
      BY <1>3, <2>2 DEF JoinFlight
    <3> QED
      BY <2>1, <3>2, <3>3 DEF FlightInv, TypeOK
  <2>3. CASE ~Leads(key[r])
    BY <1>3, <2>1, <2>3 DEF JoinFlight, FlightInv, TypeOK
  <2> QED
    BY <2>2, <2>3
<1>4. ASSUME NEW r \in Requests, DoubleCheck(r)
      PROVE FlightInv'
  <2>1. Fresh' = Fresh /\ UNCHANGED <<key, flight, joined>>
    BY <1>4 DEF DoubleCheck, Fresh, Expired
  <2>2. pc'[r] = "fetch" => key[r] \notin Fresh
    BY <1>4 DEF DoubleCheck, Found, TypeOK
  <2>3. pc[r] = "check" /\ \A s \in Requests \ {r} : pc'[s] = pc[s]
    BY <1>4 DEF DoubleCheck, TypeOK
  <2> QED
    BY <2>1, <2>2, <2>3 DEF FlightInv
<1>5. ASSUME NEW r \in Requests, FetchDone(r)
      PROVE FlightInv'
  <2>1. pc[r] = "fetch" /\ pc' = [pc EXCEPT ![r] = "return"]
        /\ UNCHANGED <<key, flight, joined>>
    BY <1>5 DEF FetchDone
  <2>2. Fresh' \subseteq Fresh \cup {key[r]}
    <3>1. CASE Usable(r)
      <4>1. task[r] \in Results /\ key[r] \in Keys /\ SetEntry(key[r], task[r])
        BY <1>5, <3>1, FinishedBatch DEF FetchDone, TypeOK
      <4> QED
        BY <4>1, SetEntryEffect DEF TypeOK
    <3>2. CASE ~Usable(r)
      BY <1>5, <3>2 DEF FetchDone, Fresh, Expired
    <3> QED
      BY <3>1, <3>2
  <2>3. \A s \in Requests \ {r} : pc[s] = "fetch" => key[s] # key[r]
    BY <2>1 DEF FlightInv
  <2> QED
    BY <2>1, <2>2, <2>3 DEF FlightInv, TypeOK
<1>6. ASSUME NEW r \in Requests, FlightReturns(r)
      PROVE FlightInv'
  <2>1. pc[r] = "return" /\ joined[r] = r /\ flight[key[r]] = r
    BY <1>6 DEF FlightReturns, FlightInv
  <2>2. pc'[r] = "done"
    BY <1>6, <2>1 DEF FlightReturns
  <2>3. \A s \in Requests : pc'[s] \in {"check", "fetch", "return"} => pc'[s] = pc[s]
    BY <1>6 DEF FlightReturns
  <2>4. \A s \in Requests \ {r} :
            pc[s] \in {"check", "fetch", "return"} => key[s] # key[r]
    BY <2>1 DEF FlightInv
  <2>5. Fresh' = Fresh /\ UNCHANGED <<key, joined>>
        /\ flight' = [flight EXCEPT ![key[r]] = NoOne]
    BY <1>6 DEF FlightReturns, Fresh, Expired
  <2> QED
    BY <2>2, <2>3, <2>4, <2>5 DEF FlightInv, TypeOK
<1>7. CASE TimePasses
  <2>1. Fresh' \subseteq Fresh
    BY <1>7, TickEffect DEF TimePasses, TypeOK
  <2> QED
    BY <1>7, <2>1 DEF TimePasses, FlightInv
<1>8. CASE UNCHANGED vars
  BY <1>8 DEF vars, FlightInv, Fresh, Expired
<1> QED
  BY <1>1, <1>2, <1>3, <1>4, <1>5, <1>6, <1>7, <1>8 DEF Next, Step

\* A key is fetched by at most one request at a time, however many miss the cache.
THEOREM OneFetchPerKeyAlways == Spec => []OneFetchPerKey
<1>1. Init => FlightInv
  BY DEF Init, FlightInv
<1>2. FlightInv => OneFetchPerKey
  BY DEF FlightInv, OneFetchPerKey
<1> QED
  BY <1>1, <1>2, TypeCorrect, FlightNext, PTL DEF Spec

\* A key is fetched only while the cache can't serve it, so no fetch is wasted and Set
\* never evicts an entry of a full cache to store a key the cache already serves.
THEOREM FetchedOnlyIfStaleAlways == Spec => []FetchedOnlyIfStale
<1>1. Init => FlightInv
  BY DEF Init, FlightInv
<1>2. FlightInv => FetchedOnlyIfStale
  BY DEF FlightInv, FetchedOnlyIfStale
<1> QED
  BY <1>1, <1>2, TypeCorrect, FlightNext, PTL DEF Spec

-----------------------------------------------------------------------------
(* What requests are answered with.  A batch that is run to its end without  *)
(* being cancelled has no hole, so only such a batch is cached or returned;  *)
(* a follower waits for a leader with its own key; and a leader that returns *)
(* nothing was cancelled before.                                             *)

StoredComplete == \A k \in DOMAIN entries : entries[k].results \in Complete(k)

LeaderHasKey == \A k \in Keys : flight[k] # NoOne => key[flight[k]] = k

AnswerOK(r) ==
    /\ answer[r] # None => answer[r] \in Complete(key[r])
    /\ pc[r] = "wait" => joined[r] \in Requests /\ key[joined[r]] = key[r]
    /\ pc[r] = "fetch" /\ ~cancelled[r]
         => \A q \in Queries[key[r]] : task[r][q] \notin {"aborted", "missing"}
    /\ pc[r] = "return" /\ answer[r] = None => cancelled[r]
    /\ pc[r] = "done" /\ baseline[r] /\ answer[r] = None
         => joined[r] \in Requests /\ cancelled[joined[r]]

AnswerInv ==
    /\ StoredComplete
    /\ LeaderHasKey
    /\ \A r \in Requests : AnswerOK(r)

\* At the start nothing is cached or answered.
LEMMA AnswerInit == Init => AnswerInv
<1> SUFFICES ASSUME Init PROVE AnswerInv
  OBVIOUS
<1>1. StoredComplete
  BY DEF Init, CacheInit, StoredComplete
<1>2. LeaderHasKey
  BY DEF Init, LeaderHasKey
<1> QED
  BY <1>1, <1>2 DEF Init, AnswerInv, AnswerOK

\* A step of one request's goroutine, or of its batch, leaves the others as they are.
LEMMA OthersKeepAnswers ==
    ASSUME TypeOK, AnswerInv, NEW r \in Requests, key' = key, baseline' = baseline,
           \A s \in Requests : cancelled[s] => cancelled'[s],
           NEW s \in Requests \ {r},
           pc'[s] = pc[s], task'[s] = task[s], answer'[s] = answer[s],
           cancelled'[s] = cancelled[s], joined'[s] = joined[s]
    PROVE  AnswerOK(s)'
  BY DEF AnswerInv, AnswerOK

\* A Set of a complete result keeps the cache complete.
LEMMA SetKeepsComplete ==
    ASSUME TypeOK, StoredComplete, NEW k \in Keys, NEW res \in Complete(k), SetEntry(k, res)
    PROVE  StoredComplete'
<1>1. PICK left \in Room(Fresh) :
        entries' = [j \in left \cup {k} |->
                        IF j = k THEN [results |-> res, expiresAt |-> now + TTL]
                                 ELSE entries[j]]
  BY DEF SetEntry, ExpiryOfNew
<1>2. left \subseteq DOMAIN entries
  BY DEF Room, Fresh
<1> QED
  BY <1>1, <1>2 DEF StoredComplete, Complete

\* Every step keeps what is cached and answered complete.
LEMMA AnswerNext ==
    TypeOK /\ FlightInv /\ AnswerInv /\ [Next]_vars => AnswerInv'
<1> SUFFICES ASSUME TypeOK, FlightInv, AnswerInv, [Next]_vars PROVE AnswerInv'
  OBVIOUS
<1> USE FetchAssumption
<1>1. ASSUME NEW r \in Requests, NEW q \in DOMAIN task[r],
             Acquire(r, q) \/ Skip(r, q) \/ Finish(r, q)
      PROVE AnswerInv'
  <2>1. UNCHANGED <<cacheVars, pc, key, baseline, cancelled, joined, answer, flight>>
    BY <1>1 DEF Acquire, Skip, Finish
  <2>2. PICK v \in TaskStates :
            /\ task' = [task EXCEPT ![r][q] = v]
            /\ ~cancelled[r] => v \notin {"aborted", "missing"}
    BY <1>1 DEF Acquire, Skip, Finish, TaskStates
  <2>3. /\ \A s \in Requests \ {r} : task'[s] = task[s]
        /\ task'[r] = [task[r] EXCEPT ![q] = v]
    BY <2>1, <2>2, TaskMoves
  <2>4. StoredComplete' /\ LeaderHasKey'
    BY <2>1 DEF AnswerInv, StoredComplete, LeaderHasKey, Complete
  <2>5. AnswerOK(r)'
    BY <2>1, <2>2, <2>3 DEF AnswerInv, AnswerOK, TypeOK, Complete
  <2>6. \A s \in Requests \ {r} : AnswerOK(s)'
    BY <2>1, <2>3, OthersKeepAnswers
  <2> QED
    BY <2>4, <2>5, <2>6 DEF AnswerInv
<1>2. ASSUME NEW r \in Requests,
             Arrive(r) \/ Refuse(r) \/ CurrentDone(r) \/ Cancel(r)
      PROVE AnswerInv'
  <2>1. UNCHANGED <<cacheVars, key, baseline, joined, answer, flight>>
    BY <1>2 DEF Arrive, Refuse, CurrentDone, Cancel
  <2>2. StoredComplete' /\ LeaderHasKey'
    BY <2>1 DEF AnswerInv, StoredComplete, LeaderHasKey, Complete
  <2>3. /\ \A s \in Requests : cancelled[s] => cancelled'[s]
        /\ \A s \in Requests \ {r} :
             pc'[s] = pc[s] /\ task'[s] = task[s] /\ cancelled'[s] = cancelled[s]
    BY <1>2 DEF Arrive, Refuse, CurrentDone, Cancel, Start, TypeOK
  <2>4. \A s \in Requests \ {r} : AnswerOK(s)'
    BY <2>1, <2>3, OthersKeepAnswers
  <2>5. \/ pc'[r] \in {"current", "refused", "get"}
        \/ pc'[r] = "done" /\ ~baseline[r]
        \/ pc'[r] = pc[r] /\ task' = task /\ cancelled'[r]
    BY <1>2 DEF Arrive, Refuse, CurrentDone, Cancel, TypeOK
  <2>6. AnswerOK(r)'
    BY <2>1, <2>3, <2>5 DEF AnswerInv, AnswerOK, Complete
  <2> QED
    BY <2>2, <2>4, <2>6 DEF AnswerInv
<1>3. ASSUME NEW r \in Requests, CacheGet(r)
      PROVE AnswerInv'
  <2>1. UNCHANGED <<cacheVars, key, baseline, cancelled, task, joined, flight>>
    BY <1>3 DEF CacheGet
  <2>2. StoredComplete' /\ LeaderHasKey'
    BY <2>1 DEF AnswerInv, StoredComplete, LeaderHasKey, Complete
  <2>3. \A s \in Requests \ {r} : pc'[s] = pc[s] /\ answer'[s] = answer[s]
    BY <1>3 DEF CacheGet, TypeOK
  <2>4. \A s \in Requests \ {r} : AnswerOK(s)'
    BY <2>1, <2>3, OthersKeepAnswers
  <2>5. key[r] \in Fresh => /\ entries[key[r]].results \in Complete(key[r])
                            /\ entries[key[r]].results \in Results
    BY DEF AnswerInv, StoredComplete, Fresh, TypeOK, CacheTypeOK, Entry
  <2>6. AnswerOK(r)'
    BY <1>3, <2>1, <2>5 DEF CacheGet, AnswerInv, AnswerOK, TypeOK, Complete
  <2> QED
    BY <2>2, <2>4, <2>6 DEF AnswerInv
<1>4. ASSUME NEW r \in Requests, JoinFlight(r)
      PROVE AnswerInv'
  <2>1. UNCHANGED <<cacheVars, key, baseline, cancelled, task, answer>> /\ key[r] \in Keys
    BY <1>4 DEF JoinFlight, TypeOK
  <2>2. StoredComplete'
    BY <2>1 DEF AnswerInv, StoredComplete, Complete
  <2>3. \A s \in Requests \ {r} : pc'[s] = pc[s] /\ joined'[s] = joined[s]
    BY <1>4 DEF JoinFlight, TypeOK
  <2>4. \A s \in Requests \ {r} : AnswerOK(s)'
    BY <2>1, <2>3, OthersKeepAnswers
  <2>5. LeaderHasKey'
    BY <1>4, <2>1 DEF JoinFlight, AnswerInv, LeaderHasKey, TypeOK
  <2>6. ~Leads(key[r]) => flight[key[r]] \in Requests /\ key[flight[key[r]]] = key[r]
    BY <2>1 DEF Leads, AnswerInv, LeaderHasKey, TypeOK
  <2>7. \/ pc'[r] = "check"
        \/ pc'[r] = "wait" /\ joined'[r] = flight[key[r]] /\ ~Leads(key[r])
    BY <1>4 DEF JoinFlight, TypeOK
  <2>8. AnswerOK(r)'
    BY <2>1, <2>6, <2>7 DEF AnswerInv, AnswerOK, Complete
  <2> QED
    BY <2>2, <2>4, <2>5, <2>8 DEF AnswerInv
<1>5. ASSUME NEW r \in Requests, DoubleCheck(r)
      PROVE AnswerInv'
  <2>1. UNCHANGED <<cacheVars, key, baseline, cancelled, joined, flight>>
    BY <1>5 DEF DoubleCheck
  <2>2. StoredComplete' /\ LeaderHasKey'
    BY <2>1 DEF AnswerInv, StoredComplete, LeaderHasKey, Complete
  <2>3. \A s \in Requests \ {r} :
            pc'[s] = pc[s] /\ answer'[s] = answer[s] /\ task'[s] = task[s]
    BY <1>5 DEF DoubleCheck, Start, TypeOK
  <2>4. \A s \in Requests \ {r} : AnswerOK(s)'
    BY <2>1, <2>3, OthersKeepAnswers
  <2>5. \/ /\ pc'[r] = "return"
           /\ answer'[r] = entries[key[r]].results
           /\ key[r] \in Fresh
        \/ /\ pc'[r] = "fetch"
           /\ answer' = answer
           /\ task'[r] = [q \in Queries[key[r]] |-> "queued"]
    BY <1>5, BatchStarts DEF DoubleCheck, Found, TypeOK
  <2>6. key[r] \in Fresh => /\ entries[key[r]].results \in Complete(key[r])
                            /\ entries[key[r]].results \in Results
    BY DEF AnswerInv, StoredComplete, Fresh, TypeOK, CacheTypeOK, Entry
  <2>7. AnswerOK(r)'
    BY <2>1, <2>5, <2>6 DEF AnswerInv, AnswerOK, Complete
  <2> QED
    BY <2>2, <2>4, <2>7 DEF AnswerInv
<1>6. ASSUME NEW r \in Requests, FetchDone(r)
      PROVE AnswerInv'
  <2>1. /\ UNCHANGED <<key, baseline, cancelled, task, joined, flight>>
        /\ pc[r] = "fetch" /\ pc' = [pc EXCEPT ![r] = "return"]
    BY <1>6 DEF FetchDone
  <2>2. LeaderHasKey'
    BY <2>1 DEF AnswerInv, LeaderHasKey
  <2>3. \A s \in Requests \ {r} : pc'[s] = pc[s] /\ answer'[s] = answer[s]
    BY <1>6 DEF FetchDone, TypeOK
  <2>4. \A s \in Requests \ {r} : AnswerOK(s)'
    BY <2>1, <2>3, OthersKeepAnswers
  <2>5. CASE Usable(r)
    <3>1. \A q \in Queries[key[r]] : task[r][q] \in {"value", "nil"}
      BY <1>6, <2>1, <2>5
      DEF FetchDone, Usable, AnswerInv, AnswerOK, TypeOK, TaskStates, Unfinished
    <3>2. task[r] \in Complete(key[r]) /\ task[r] \in Results /\ key[r] \in Keys
      BY <1>6, <3>1, FinishedBatch DEF FetchDone, Complete, TypeOK
    <3>3. StoredComplete'
      BY <1>6, <2>5, <3>2, SetKeepsComplete DEF FetchDone, AnswerInv
    <3>4. answer'[r] = task[r] /\ pc'[r] = "return"
      BY <1>6, <2>5 DEF FetchDone, TypeOK
    <3>5. AnswerOK(r)'
      BY <2>1, <3>2, <3>4 DEF AnswerOK, Complete
    <3> QED
      BY <2>2, <2>4, <3>3, <3>5 DEF AnswerInv
  <2>6. CASE ~Usable(r)
    <3>1. UNCHANGED <<cacheVars, answer>> /\ cancelled[r] /\ pc'[r] = "return"
      BY <1>6, <2>6 DEF FetchDone, Usable, TypeOK
    <3>2. StoredComplete'
      BY <3>1 DEF AnswerInv, StoredComplete, Complete
    <3>3. AnswerOK(r)'
      BY <2>1, <3>1 DEF AnswerInv, AnswerOK, Complete
    <3> QED
      BY <2>2, <2>4, <3>2, <3>3 DEF AnswerInv
  <2> QED
    BY <2>5, <2>6
<1>7. ASSUME NEW r \in Requests, FlightReturns(r)
      PROVE AnswerInv'
  <2> DEFINE members == {w \in Requests : joined[w] = r /\ pc[w] \in {"wait", "return"}}
  <2>1. /\ UNCHANGED <<cacheVars, key, baseline, cancelled, task, joined>>
        /\ pc[r] = "return"
        /\ flight' = [flight EXCEPT ![key[r]] = NoOne]
        /\ answer' = [w \in Requests |-> IF w \in members THEN answer[r] ELSE answer[w]]
        /\ pc' = [w \in Requests |-> IF w \in members THEN "done" ELSE pc[w]]
    BY <1>7 DEF FlightReturns
  <2>2. StoredComplete' /\ LeaderHasKey'
    BY <2>1 DEF AnswerInv, StoredComplete, LeaderHasKey, Complete, TypeOK
  <2>3. answer[r] = None => cancelled[r]
    BY <2>1 DEF AnswerInv, AnswerOK
  <2>4. ASSUME NEW w \in members
        PROVE AnswerOK(w)'
    <3>1. key[w] = key[r] /\ joined[w] = r /\ w \in Requests
      BY DEF AnswerInv, AnswerOK, FlightInv
    <3>2. answer'[w] = answer[r] /\ pc'[w] = "done"
      BY <2>1
    <3>3. answer[r] # None => answer[r] \in Complete(key[r])
      BY DEF AnswerInv, AnswerOK
    <3> QED
      BY <2>1, <2>3, <3>1, <3>2, <3>3 DEF AnswerOK, Complete
  <2>5. ASSUME NEW w \in Requests \ members
        PROVE AnswerOK(w)'
    <3>1. answer'[w] = answer[w] /\ pc'[w] = pc[w]
      BY <2>1
    <3> HIDE DEF members
    <3> QED
      BY <2>1, <3>1 DEF AnswerInv, AnswerOK, Complete
  <2> QED
    BY <2>2, <2>4, <2>5 DEF AnswerInv
<1>8. CASE TimePasses
  BY <1>8 DEF TimePasses, Tick, AnswerInv, StoredComplete, LeaderHasKey, AnswerOK, Complete
<1>9. CASE UNCHANGED vars
  BY <1>9 DEF vars, AnswerInv, StoredComplete, LeaderHasKey, AnswerOK, Complete
<1> QED
  BY <1>1, <1>2, <1>3, <1>4, <1>5, <1>6, <1>7, <1>8, <1>9 DEF Next, Step

\* No cached result and no answer lacks a query of its request's key, or holds one that
\* a departing client cut short: neither the leader's own nor a follower's.
THEOREM BaselinesAreCompleteAlways == Spec => []BaselinesAreComplete
<1>1. Init => FlightInv
  BY DEF Init, FlightInv
<1>2. AnswerInv => BaselinesAreComplete
  BY DEF AnswerInv, AnswerOK, StoredComplete, BaselinesAreComplete
<1> QED
  BY <1>1, <1>2, TypeCorrect, FlightNext, AnswerInit, AnswerNext, PTL DEF Spec

\* A request that asked for the baseline goes without it only if the leader of its call
\* was cancelled: a failing query, an expiry or an eviction is never the reason.
THEOREM NoBaselineMeansCancelledLeaderAlways == Spec => []NoBaselineMeansCancelledLeader
<1>1. Init => FlightInv
  BY DEF Init, FlightInv
<1>2. AnswerInv => NoBaselineMeansCancelledLeader
  BY FetchAssumption DEF AnswerInv, AnswerOK, NoBaselineMeansCancelledLeader
<1> QED
  BY <1>1, <1>2, TypeCorrect, FlightNext, AnswerInit, AnswerNext, PTL DEF Spec
=============================================================================

----------------------------- MODULE MarketDataProofs --------------------------
(***************************************************************************)
(* Theorems about the market data provider, for any number of clients and  *)
(* workers and any policy.                                                 *)
(***************************************************************************)
EXTENDS MarketData, FiniteSetTheorems, SequenceTheorems, TLAPS

\* The steps of one client, its upstream call included.
Moves(c) == CacheHit(c) \/ CacheMiss(c) \/ ClientStep(c) \/ Answer(c)

LEMMA StepCases ==
  ASSUME [Next]_vars
  PROVE  (\E c \in Clients : Moves(c)) \/ Dispatch \/ Release \/ Tick \/ UNCHANGED vars
BY DEF Next, Moves

\* How long a client sleeps between attempts.
LEMMA DelayType ==
  ASSUME NEW n \in 1..Attempts, NEW r \in Nat
  PROVE  Delay(n, r) \in Nat
<1> DEFINE x == BaseBackoff * 2 ^ (n - 1)
           m == Max({x, r})
<1>1. n - 1 \in Nat /\ BaseBackoff \in Nat /\ MaxBackoff \in Nat
  BY PolicyAssumption
<1>2. 2 ^ (n - 1) \in Int
  BY <1>1
<1>3. x \in Int
  BY <1>1, <1>2
<1> HIDE DEF x
<1>4. m \in {x, r} /\ \A y \in {x, r} : m >= y
  <2>1. \E y \in {x, r} : \A z \in {x, r} : y >= z
    <3>1. x >= r \/ r >= x
      BY <1>3
    <3> QED
      BY <1>3, <3>1
  <2> QED
    BY <2>1 DEF Max
<1>5. m \in Nat
  BY <1>3, <1>4
<1> HIDE DEF m
<1>6. Min({MaxBackoff, m}) \in {MaxBackoff, m}
  <2>1. \E y \in {MaxBackoff, m} : \A z \in {MaxBackoff, m} : y <= z
    <3>1. MaxBackoff <= m \/ m <= MaxBackoff
      BY <1>1, <1>5
    <3> QED
      BY <1>1, <1>5, <3>1
  <2> QED
    BY <2>1 DEF Min
<1> QED
  BY <1>1, <1>5, <1>6 DEF Delay, m, x

\* A timer is counted down to its end.
LEMMA CountDown ==
  ASSUME NEW n \in Nat
  PROVE  /\ Less(n) \in Nat
         /\ n > 0 => Less(n) = n - 1
         /\ n = 0 => Less(n) = 0
<1> DEFINE m == Max({0, n - 1})
<1>1. m \in {0, n - 1} /\ \A y \in {0, n - 1} : m >= y
  <2>1. \E y \in {0, n - 1} : \A z \in {0, n - 1} : y >= z
    <3>1. 0 >= n - 1 \/ n - 1 >= 0
      OBVIOUS
    <3> QED
      BY <3>1
  <2> QED
    BY <2>1 DEF Max
<1> QED
  BY <1>1 DEF Less

--------------------------------------------------------------------------------
(***************************************************************************)
(* The pool.                                                               *)
(***************************************************************************)

\* Only what a client waits for is called, and once.
Queued ==
    /\ \A i \in DOMAIN queue : call[queue[i]] = "queued"
    /\ \A i, j \in DOMAIN queue : queue[i] = queue[j] => i = j
    /\ \A c \in Clients : call[c] = "queued" => \E i \in DOMAIN queue : queue[i] = c
    /\ \A c \in Clients : call[c] # "none" => pc[c] = "wait"

\* The workers make no more calls than there are workers.
Manned == Cardinality(Running) + abandoned <= Workers

PoolInv ==
    /\ TypeOK
    /\ Queued
    /\ Manned
    /\ \A c \in Clients : pc[c] = "backoff" => attempt[c] < Attempts

LEMMA RunningFinite == IsFiniteSet(Running) /\ Cardinality(Running) \in Nat
<1>1. Running \subseteq Clients /\ IsFiniteSet(Clients)
  BY PolicyAssumption DEF Running
<1> QED
  BY <1>1, FS_Subset, FS_CardinalityType

LEMMA PoolInit == Init => PoolInv
<1> SUFFICES ASSUME Init PROVE PoolInv
  OBVIOUS
<1>1. TypeOK
  <2>1. queue \in Seq(Clients)
    BY DEF Init
  <2> QED
    BY <2>1, PolicyAssumption DEF Init, TypeOK, NoEntry
<1>2. Running = {} /\ queue = <<>> /\ abandoned = 0
  BY DEF Init, Running
<1>3. Manned
  BY <1>2, FS_EmptySet, PolicyAssumption DEF Manned
<1> QED
  BY <1>1, <1>2, <1>3 DEF Init, PoolInv, Queued

\* The pc, provider, attempt and timer after an attempt that failed.
LEMMA FailedType ==
  ASSUME PoolInv, NEW c \in Clients, NEW R \in SUBSET Nat, AttemptFailed(c, R)
  PROVE  /\ pc' \in [Clients -> {"idle", "throttle", "sleep", "wait", "store", "backoff",
                                 "served", "failed"}]
         /\ provider' \in [Clients -> 1..Providers]
         /\ attempt' \in [Clients -> 1..Attempts]
         /\ timer' \in [Clients -> Nat]
         /\ pc'[c] \in {"backoff", "throttle", "failed"}
         /\ pc'[c] = "backoff" => attempt'[c] < Attempts
         /\ \A d \in Clients \ {c} : /\ pc'[d] = pc[d] /\ provider'[d] = provider[d]
                                     /\ attempt'[d] = attempt[d] /\ timer'[d] = timer[d]
<1> USE PolicyAssumption DEF PoolInv, TypeOK, Goto
<1>1. CASE /\ attempt[c] < Attempts
           /\ \E r \in R : timer' = [timer EXCEPT ![c] = Delay(attempt[c], r)]
           /\ pc' = [pc EXCEPT ![c] = "backoff"]
           /\ UNCHANGED <<provider, attempt>>
  <2>1. PICK r \in R : timer' = [timer EXCEPT ![c] = Delay(attempt[c], r)]
    BY <1>1
  <2>2. Delay(attempt[c], r) \in Nat
    BY DelayType
  <2> QED
    BY <1>1, <2>1, <2>2
<1>2. CASE /\ attempt[c] = Attempts /\ provider[c] < Providers
           /\ provider' = [provider EXCEPT ![c] = @ + 1]
           /\ attempt' = [attempt EXCEPT ![c] = 1]
           /\ pc' = [pc EXCEPT ![c] = "throttle"]
           /\ UNCHANGED timer
  BY <1>2
<1>3. CASE /\ attempt[c] = Attempts /\ provider[c] = Providers
           /\ pc' = [pc EXCEPT ![c] = "failed"]
           /\ UNCHANGED <<timer, provider, attempt>>
  BY <1>3
<1> QED
  BY <1>1, <1>2, <1>3 DEF AttemptFailed

\* Taking c out of the queue keeps the others, in their order.
LEMMA Withdrawn ==
  ASSUME TypeOK, Queued, NEW i \in DOMAIN queue, NEW q, q = RemoveAt(queue, i)
  PROVE  /\ q \in Seq(Clients)
         /\ \A j \in DOMAIN q : \E k \in DOMAIN queue : q[j] = queue[k] /\ k # i
         /\ \A j, k \in DOMAIN q : q[j] = q[k] => j = k
         /\ \A k \in DOMAIN queue : k # i => \E j \in DOMAIN q : q[j] = queue[k]
<1> DEFINE n == Len(queue)
<1>1. /\ n \in Nat /\ DOMAIN queue = 1..n /\ i \in 1..n /\ queue \in Seq(Clients)
  BY DEF TypeOK
<1>2. /\ SubSeq(queue, 1, i-1) \in Seq(Clients) /\ Len(SubSeq(queue, 1, i-1)) = i - 1
      /\ \A j \in 1..(i-1) : SubSeq(queue, 1, i-1)[j] = queue[j]
  BY <1>1
<1>3. /\ SubSeq(queue, i+1, n) \in Seq(Clients) /\ Len(SubSeq(queue, i+1, n)) = n - i
      /\ \A j \in 1..(n-i) : SubSeq(queue, i+1, n)[j] = queue[j+i]
  BY <1>1
<1>4. /\ q \in Seq(Clients) /\ Len(q) = n - 1 /\ DOMAIN q = 1..(n-1)
      /\ \A j \in 1..(n-1) : q[j] = IF j < i THEN queue[j] ELSE queue[j+1]
  <2> DEFINE a == SubSeq(queue, 1, i-1)
             b == SubSeq(queue, i+1, n)
  <2>1. q = a \o b
    BY DEF RemoveAt
  <2> HIDE DEF a, b, n
  <2>2. /\ a \in Seq(Clients) /\ Len(a) = i - 1 /\ \A j \in 1..(i-1) : a[j] = queue[j]
        /\ b \in Seq(Clients) /\ Len(b) = n - i /\ \A j \in 1..(n-i) : b[j] = queue[j+i]
    BY <1>2, <1>3 DEF a, b
  <2>3. q \in Seq(Clients) /\ Len(q) = n - 1
    <3>1. q \in Seq(Clients) /\ Len(q) = Len(a) + Len(b)
      BY <2>1, <2>2, ConcatProperties
    <3>2. (i - 1) + (n - i) = n - 1
      BY <1>1
    <3> QED
      BY <2>2, <3>1, <3>2
  <2>4. DOMAIN q = 1..(n-1)
    BY <2>3
  <2>5. ASSUME NEW j \in 1..(n-1), j < i PROVE q[j] = queue[j]
    BY <1>1, <2>1, <2>2, <2>5, ConcatProperties
  <2>6. ASSUME NEW j \in 1..(n-1), ~(j < i) PROVE q[j] = queue[j+1]
    <3>1. j - (i-1) \in 1..(n-i) /\ (j - (i-1)) + i = j + 1
      BY <1>1, <2>6
    <3>4. j \in 1..Len(a) + Len(b) /\ ~(j <= Len(a)) /\ Len(a) = i - 1
      BY <1>1, <2>2, <2>6
    <3>2. q[j] = b[j - (i-1)]
      BY <2>1, <2>2, <3>4, ConcatProperties
    <3>3. b[j - (i-1)] = queue[(j - (i-1)) + i]
      BY <2>2, <3>1
    <3> QED
      BY <3>1, <3>2, <3>3
  <2> QED
    BY <2>3, <2>4, <2>5, <2>6
<1> HIDE DEF n
<1>5. \A j \in DOMAIN q : \E k \in DOMAIN queue : q[j] = queue[k] /\ k # i
  <2> TAKE j \in DOMAIN q
  <2>1. CASE j < i
    BY <1>1, <1>4, <2>1
  <2>2. CASE ~(j < i)
    <3>1. j + 1 \in DOMAIN queue /\ j + 1 # i /\ q[j] = queue[j+1]
      BY <1>1, <1>4, <2>2
    <3> QED
      BY <3>1
  <2> QED
    BY <2>1, <2>2
<1>6. ASSUME NEW j \in DOMAIN q, NEW k \in DOMAIN q, q[j] = q[k] PROVE j = k
  <2> DEFINE at(x) == IF x < i THEN x ELSE x + 1
  <2>1. at(j) \in DOMAIN queue /\ at(k) \in DOMAIN queue
    BY <1>1, <1>4
  <2>2. queue[at(j)] = queue[at(k)]
    BY <1>4, <1>6
  <2>3. at(j) = at(k)
    BY <2>1, <2>2 DEF Queued
  <2> QED
    BY <1>1, <1>4, <2>3
<1>7. \A k \in DOMAIN queue : k # i => \E j \in DOMAIN q : q[j] = queue[k]
  <2> SUFFICES ASSUME NEW k \in DOMAIN queue, k # i PROVE \E j \in DOMAIN q : q[j] = queue[k]
    OBVIOUS
  <2>1. CASE k < i
    BY <1>1, <1>4, <2>1
  <2>2. CASE k > i
    <3>1. k - 1 \in DOMAIN q /\ q[k-1] = queue[k]
      BY <1>1, <1>4, <2>2
    <3> QED
      BY <3>1
  <2> QED
    BY <1>1, <2>1, <2>2
<1> QED
  BY <1>4, <1>5, <1>6, <1>7

\* cancel() takes the one call of c out of the queue.
LEMMA CancelLeaves ==
  ASSUME TypeOK, Queued, NEW c \in Clients, TimeoutQueued(c)
  PROVE  \E i \in DOMAIN queue :
            /\ queue[i] = c
            /\ \A j \in DOMAIN queue' : \E k \in DOMAIN queue : queue'[j] = queue[k] /\ k # i
            /\ \A j, k \in DOMAIN queue' : queue'[j] = queue'[k] => j = k
            /\ \A k \in DOMAIN queue : k # i => \E j \in DOMAIN queue' : queue'[j] = queue[k]
<1>1. PICK i \in DOMAIN queue : queue[i] = c /\ queue' = RemoveAt(queue, i)
  BY DEF TimeoutQueued
<1> QED
  BY <1>1, Withdrawn

\* The oldest call leaves the queue.
LEMMA Dispatched ==
  ASSUME TypeOK, Queued, queue # <<>>
  PROVE  /\ Head(queue) \in Clients /\ call[Head(queue)] = "queued"
         /\ Tail(queue) \in Seq(Clients)
         /\ \A j \in DOMAIN Tail(queue) : j + 1 \in DOMAIN queue /\ Tail(queue)[j] = queue[j+1]
         /\ \A j \in DOMAIN Tail(queue) : Tail(queue)[j] # Head(queue)
         /\ \A j, k \in DOMAIN Tail(queue) : Tail(queue)[j] = Tail(queue)[k] => j = k
         /\ \A c \in Clients \ {Head(queue)} : call[c] = "queued" =>
               \E j \in DOMAIN Tail(queue) : Tail(queue)[j] = c
<1> DEFINE n == Len(queue)
           t == Tail(queue)
           h == Head(queue)
<1>1. n \in Nat /\ n > 0 /\ DOMAIN queue = 1..n /\ queue \in Seq(Clients)
  BY DEF TypeOK
<1>2. h = queue[1] /\ 1 \in DOMAIN queue
  BY <1>1
<1>3. /\ t \in Seq(Clients) /\ DOMAIN t = 1..(n-1)
      /\ \A j \in 1..(n-1) : t[j] = queue[j+1]
  BY <1>1
<1> HIDE DEF n, t, h
<1>4. h \in Clients /\ call[h] = "queued"
  BY <1>1, <1>2 DEF Queued
<1>5. \A j \in DOMAIN t : j + 1 \in DOMAIN queue /\ t[j] = queue[j+1]
  BY <1>1, <1>3
<1>6. \A j \in DOMAIN t : t[j] # h
  BY <1>1, <1>2, <1>3, <1>5 DEF Queued
<1>7. \A j, k \in DOMAIN t : t[j] = t[k] => j = k
  BY <1>1, <1>3, <1>5 DEF Queued
<1>8. ASSUME NEW c \in Clients \ {h}, call[c] = "queued" PROVE \E j \in DOMAIN t : t[j] = c
  <2>1. PICK i \in DOMAIN queue : queue[i] = c
    BY <1>8 DEF Queued
  <2>2. i - 1 \in DOMAIN t /\ t[i-1] = c
    BY <1>1, <1>2, <1>3, <1>8, <2>1
  <2> QED
    BY <2>2
<1> QED
  BY <1>3, <1>4, <1>5, <1>6, <1>7, <1>8 DEF h, t

LEMMA PoolTypeStep ==
  ASSUME PoolInv, [Next]_vars, Manned'
  PROVE  TypeOK' /\ \A c \in Clients : pc'[c] = "backoff" => attempt'[c] < Attempts
<1> USE PolicyAssumption DEF PoolInv, TypeOK, Goto, NoEntry
<1>k. \A c \in Clients : Key[c] \in Keys
  BY DEF Keys
<1>1. ASSUME NEW c \in Clients, CacheHit(c) \/ CacheMiss(c)
      PROVE  TypeOK' /\ \A d \in Clients : pc'[d] = "backoff" => attempt'[d] < Attempts
  <2>1. CASE CacheHit(c)
    BY <2>1 DEF CacheHit
  <2>2. CASE CacheMiss(c)
    <3>1. cache' \in [Keys -> [left : -1..Ttl, by : 0..Providers]]
      <4>1. NoEntry \in [left : -1..Ttl, by : 0..Providers]
        OBVIOUS
      <4> QED
        BY <1>k, <2>2, <4>1 DEF CacheMiss
    <3> QED
      BY <2>2, <3>1 DEF CacheMiss
  <2> QED
    BY <1>1, <2>1, <2>2
<1>2. ASSUME NEW c \in Clients, Throttle(c) \/ Receive(c) \/ Retry(c)
      PROVE  TypeOK' /\ \A d \in Clients : pc'[d] = "backoff" => attempt'[d] < Attempts
  <2>1. CASE Throttle(c)
    <3>1. timer' \in [Clients -> Nat] /\ slack' \in Nat
      BY <2>1 DEF Throttle
    <3> QED
      BY <2>1, <3>1 DEF Throttle
  <2>3. CASE Receive(c)
    BY <2>3 DEF Receive
  <2>2. CASE Retry(c)
    <3>1. attempt[c] + 1 \in 1..Attempts
      BY <2>2 DEF Retry
    <3> QED
      BY <2>2, <3>1 DEF Retry
  <2> QED
    BY <1>2, <2>1, <2>2, <2>3
<1>3. ASSUME NEW c \in Clients, Submit(c)
      PROVE  TypeOK' /\ \A d \in Clients : pc'[d] = "backoff" => attempt'[d] < Attempts
  BY <1>3 DEF Submit
<1>4. ASSUME NEW c \in Clients, Store(c)
      PROVE  TypeOK' /\ \A d \in Clients : pc'[d] = "backoff" => attempt'[d] < Attempts
  <2>1. cache' \in [Keys -> [left : -1..Ttl, by : 0..Providers]]
    <3>1. CASE cache' = cache
      BY <3>1
    <3>2. CASE cache' = [cache EXCEPT ![Key[c]] = [left |-> Ttl, by |-> provider[c]]]
      BY <1>k, <3>2
    <3> QED
      BY <1>4, <3>1, <3>2 DEF Store
  <2> QED
    BY <1>4, <2>1 DEF Store
<1>5. ASSUME NEW c \in Clients, Raised(c)
      PROVE  TypeOK' /\ \A d \in Clients : pc'[d] = "backoff" => attempt'[d] < Attempts
  BY <1>5, FailedType DEF Raised
<1>6. ASSUME NEW c \in Clients, TimeoutQueued(c)
      PROVE  TypeOK' /\ \A d \in Clients : pc'[d] = "backoff" => attempt'[d] < Attempts
  <2>1. queue' \in Seq(Clients)
    <3>1. PICK i \in DOMAIN queue : queue' = RemoveAt(queue, i)
      BY <1>6 DEF TimeoutQueued
    <3> QED
      BY <3>1, Withdrawn
  <2>2. AttemptFailed(c, {0}) /\ {0} \in SUBSET Nat
    BY <1>6 DEF TimeoutQueued
  <2> QED
    BY <1>6, <2>1, <2>2, FailedType DEF TimeoutQueued
<1>7. ASSUME NEW c \in Clients, TimeoutRunning(c)
      PROVE  TypeOK' /\ \A d \in Clients : pc'[d] = "backoff" => attempt'[d] < Attempts
  <2>1. abandoned' \in 0..Workers
    <3>1. Cardinality(Running)' \in Nat /\ Cardinality(Running)' + abandoned' <= Workers
      <4>1. Running' \subseteq Clients
        BY DEF Running
      <4> QED
        BY <4>1, FS_Subset, FS_CardinalityType DEF Manned
    <3> QED
      BY <1>7, <3>1 DEF TimeoutRunning
  <2>2. AttemptFailed(c, {0}) /\ {0} \in SUBSET Nat
    BY <1>7 DEF TimeoutRunning
  <2>3. starved' \subseteq Clients
    BY <1>7 DEF TimeoutRunning
  <2> QED
    BY <1>7, <2>1, <2>2, <2>3, FailedType DEF TimeoutRunning
<1>8. ASSUME NEW c \in Clients, Answer(c)
      PROVE  TypeOK' /\ \A d \in Clients : pc'[d] = "backoff" => attempt'[d] < Attempts
  BY <1>8 DEF Answer
<1>9. CASE Dispatch
  BY <1>9, Dispatched DEF Dispatch, WorkerFree
<1>10. CASE Release
  BY <1>10 DEF Release
<1>11. CASE Tick
  <2>1. timer' \in [Clients -> Nat] /\ slack' \in Nat
    BY <1>11, CountDown DEF Tick
  <2>2. cache' \in [Keys -> [left : -1..Ttl, by : 0..Providers]]
    <3> SUFFICES ASSUME NEW k \in Keys PROVE cache'[k] \in [left : -1..Ttl, by : 0..Providers]
      BY <1>11 DEF Tick
    <3>1. cache[k] \in [left : -1..Ttl, by : 0..Providers]
      OBVIOUS
    <3>2. cache'[k] = IF cache[k].left >= 0 THEN [cache[k] EXCEPT !.left = @ - 1]
                      ELSE cache[k]
      BY <1>11 DEF Tick
    <3>3. CASE cache[k].left >= 0
      <4>1. cache[k].left - 1 \in -1..Ttl
        BY <3>1, <3>3
      <4>2. cache'[k] = [left |-> cache[k].left - 1, by |-> cache[k].by]
        BY <3>1, <3>2, <3>3
      <4> QED
        BY <3>1, <4>1, <4>2
    <3>4. CASE ~(cache[k].left >= 0)
      BY <3>1, <3>2, <3>4
    <3> QED
      BY <3>3, <3>4
  <2> QED
    BY <1>11, <2>1, <2>2 DEF Tick
<1>12. CASE UNCHANGED vars
  BY <1>12 DEF vars
<1> QED
  BY <1>1, <1>2, <1>3, <1>4, <1>5, <1>6, <1>7, <1>8, <1>9, <1>10, <1>11, <1>12, StepCases
     DEF Moves, ClientStep

\* A call ends for its client only: all that is said of the others stands.
LEMMA QueuedStep ==
  ASSUME PoolInv, [Next]_vars
  PROVE  Queued'
<1> USE DEF PoolInv, TypeOK, Goto, Running
<1>1. ASSUME NEW c \in Clients,
             \/ CacheHit(c) \/ CacheMiss(c) \/ Throttle(c) \/ Retry(c) \/ Store(c)
      PROVE  Queued'
  <2>1. pc[c] # "wait" /\ UNCHANGED <<queue, call>> /\ \A d \in Clients \ {c} : pc'[d] = pc[d]
    BY <1>1 DEF CacheHit, CacheMiss, Throttle, Retry, Store
  <2> QED
    BY <2>1 DEF Queued
<1>2. ASSUME NEW c \in Clients, Submit(c) PROVE Queued'
  <2> DEFINE n == Len(queue)
  <2>1. /\ pc[c] = "sleep" /\ pc' = [pc EXCEPT ![c] = "wait"]
        /\ call' = [call EXCEPT ![c] = "queued"]
    BY <1>2 DEF Submit
  <2>2. /\ n \in Nat /\ DOMAIN queue = 1..n /\ DOMAIN queue' = 1..(n+1)
        /\ \A i \in 1..n : queue'[i] = queue[i] /\ queue[i] \in Clients
        /\ queue'[n+1] = c
    BY <1>2 DEF Submit
  <2>3. \A i \in 1..n : queue[i] # c
    BY <2>1, <2>2 DEF Queued
  <2> HIDE DEF n
  <2>4. \A i \in DOMAIN queue' : call'[queue'[i]] = "queued"
    BY <2>1, <2>2, <2>3 DEF Queued
  <2>5. \A i, j \in DOMAIN queue' : queue'[i] = queue'[j] => i = j
    <3> SUFFICES ASSUME NEW i \in DOMAIN queue', NEW j \in DOMAIN queue', queue'[i] = queue'[j]
                 PROVE  i = j
      OBVIOUS
    <3>0. n \in Nat /\ i \in 1..(n+1) /\ j \in 1..(n+1)
      BY <2>2
    <3>1. \A k \in 1..(n+1) : k \in 1..n \/ k = n+1
      BY <3>0
    <3>2. CASE i \in 1..n /\ j \in 1..n
      BY <2>2, <3>2 DEF Queued
    <3> QED
      BY <2>2, <2>3, <3>0, <3>1, <3>2
  <2>6. ASSUME NEW d \in Clients, call'[d] = "queued"
        PROVE  \E i \in DOMAIN queue' : queue'[i] = d
    <3>1. CASE d = c
      <4>1. n+1 \in DOMAIN queue'
        BY <2>2
      <4> QED
        BY <2>2, <3>1, <4>1
    <3>2. CASE d # c
      <4>1. PICK i \in DOMAIN queue : queue[i] = d
        BY <2>1, <2>6, <3>2 DEF Queued
      <4>2. i \in DOMAIN queue'
        BY <2>2
      <4> QED
        BY <2>2, <4>1, <4>2
    <3> QED
      BY <3>1, <3>2
  <2>7. \A d \in Clients : call'[d] # "none" => pc'[d] = "wait"
    BY <2>1 DEF Queued
  <2> QED
    BY <2>4, <2>5, <2>6, <2>7 DEF Queued
<1>3. ASSUME NEW c \in Clients, call[c] # "queued", call' = [call EXCEPT ![c] = "none"],
             queue' = queue, \A d \in Clients \ {c} : pc'[d] = pc[d]
      PROVE  Queued'
  BY <1>3 DEF Queued
<1>4. ASSUME NEW c \in Clients, Receive(c) PROVE Queued'
  BY <1>3, <1>4 DEF Receive
<1>5. ASSUME NEW c \in Clients, Raised(c) PROVE Queued'
  <2>1. \A d \in Clients \ {c} : pc'[d] = pc[d]
    BY <1>5, FailedType, PolicyAssumption DEF Raised
  <2> QED
    BY <1>3, <1>5, <2>1 DEF Raised
<1>6. ASSUME NEW c \in Clients, TimeoutRunning(c) PROVE Queued'
  <2>1. AttemptFailed(c, {0}) /\ {0} \in SUBSET Nat
    BY <1>6 DEF TimeoutRunning
  <2>2. \A d \in Clients \ {c} : pc'[d] = pc[d]
    BY <2>1, FailedType
  <2> QED
    BY <1>3, <1>6, <2>2 DEF TimeoutRunning
<1>7. ASSUME NEW c \in Clients, TimeoutQueued(c) PROVE Queued'
  <2>1. AttemptFailed(c, {0}) /\ {0} \in SUBSET Nat
    BY <1>7 DEF TimeoutQueued
  <2>2. \A d \in Clients \ {c} : pc'[d] = pc[d]
    BY <2>1, FailedType
  <2>3. PICK i \in DOMAIN queue :
           /\ queue[i] = c
           /\ \A j \in DOMAIN queue' : \E k \in DOMAIN queue : queue'[j] = queue[k] /\ k # i
           /\ \A j, k \in DOMAIN queue' : queue'[j] = queue'[k] => j = k
           /\ \A k \in DOMAIN queue : k # i => \E j \in DOMAIN queue' : queue'[j] = queue[k]
    BY <1>7, CancelLeaves
  <2>5. call' = [call EXCEPT ![c] = "none"]
    BY <1>7 DEF TimeoutQueued
  <2>6. \A k \in DOMAIN queue : k # i => queue[k] # c /\ queue[k] \in Clients
    BY <2>3 DEF Queued
  <2>7. \A j \in DOMAIN queue' : call'[queue'[j]] = "queued"
    BY <2>3, <2>5, <2>6 DEF Queued
  <2>8. ASSUME NEW d \in Clients, call'[d] = "queued"
        PROVE  \E j \in DOMAIN queue' : queue'[j] = d
    <3>1. d # c /\ call[d] = "queued"
      BY <2>5, <2>8
    <3>2. PICK k \in DOMAIN queue : queue[k] = d
      BY <3>1 DEF Queued
    <3> QED
      BY <2>3, <3>1, <3>2
  <2>9. \A d \in Clients : call'[d] # "none" => pc'[d] = "wait"
    BY <2>2, <2>5 DEF Queued
  <2> QED
    BY <2>3, <2>7, <2>8, <2>9 DEF Queued
<1>8. ASSUME NEW c \in Clients, Answer(c) PROVE Queued'
  <2>1. /\ call[c] \in {"running", "late"} /\ UNCHANGED <<queue, pc>>
        /\ \E s \in {"answered", "raised"} : call' = [call EXCEPT ![c] = s]
    BY <1>8 DEF Answer
  <2> QED
    BY <2>1 DEF Queued
<1>9. CASE Dispatch
  <2> DEFINE h == Head(queue)
             t == Tail(queue)
  <2>1. /\ h \in Clients /\ call[h] = "queued"
        /\ \A j \in DOMAIN t : j + 1 \in DOMAIN queue /\ t[j] = queue[j+1]
        /\ \A j \in DOMAIN t : t[j] # h
        /\ \A j, k \in DOMAIN t : t[j] = t[k] => j = k
        /\ \A c \in Clients \ {h} : call[c] = "queued" => \E j \in DOMAIN t : t[j] = c
        /\ t \in Seq(Clients)
    BY <1>9, Dispatched DEF Dispatch, WorkerFree
  <2>2. /\ queue' = t /\ pc' = pc
        /\ \E s \in {"running", "late"} : call' = [call EXCEPT ![h] = s]
    BY <1>9 DEF Dispatch
  <2> HIDE DEF h, t
  <2>3. \A j \in DOMAIN t : call'[t[j]] = "queued"
    BY <2>1, <2>2 DEF Queued
  <2>4. \A c \in Clients : call'[c] = "queued" => \E j \in DOMAIN t : t[j] = c
    BY <2>1, <2>2
  <2>5. \A c \in Clients : call'[c] # "none" => pc'[c] = "wait"
    BY <2>1, <2>2 DEF Queued
  <2> QED
    BY <2>1, <2>2, <2>3, <2>4, <2>5 DEF Queued
<1>10. CASE Release \/ Tick \/ UNCHANGED vars
  BY <1>10 DEF Release, Tick, vars, Queued
<1> QED
  BY <1>1, <1>2, <1>4, <1>5, <1>6, <1>7, <1>8, <1>9, <1>10, StepCases DEF Moves, ClientStep

\* A worker is taken only when one is free, and held by a call given up.
LEMMA MannedStep ==
  ASSUME PoolInv, [Next]_vars
  PROVE  Manned'
<1> USE RunningFinite DEF PoolInv, TypeOK, Manned
<1>1. ASSUME NEW c \in Clients, Running' \subseteq Running, abandoned' = abandoned
      PROVE  Manned'
  <2>1. Cardinality(Running') <= Cardinality(Running) /\ Cardinality(Running') \in Nat
    BY <1>1, FS_Subset, FS_CardinalityType
  <2> QED
    BY <1>1, <2>1, PolicyAssumption
<1>2. ASSUME NEW c \in Clients, Moves(c), ~TimeoutRunning(c) PROVE Manned'
  <2>1. Running' \subseteq Running /\ abandoned' = abandoned
    BY <1>2 DEF Running, Moves, ClientStep, CacheHit, CacheMiss, Throttle, Submit, Receive,
       Store, Raised, TimeoutQueued, Retry, Answer
  <2> QED
    BY <1>1, <2>1
<1>3. ASSUME NEW c \in Clients, TimeoutRunning(c) PROVE Manned'
  <2>1. c \in Running /\ Running' = Running \ {c} /\ abandoned' = abandoned + 1
    BY <1>3 DEF TimeoutRunning, Running
  <2> QED
    <3>1. Cardinality(Running') = Cardinality(Running) - 1
      BY <2>1, FS_RemoveElement
    <3> QED
      BY <2>1, <3>1, PolicyAssumption
<1>4. CASE Dispatch
  <2>1. Head(queue) \in Clients
    BY <1>4, Dispatched DEF Dispatch, WorkerFree
  <2>2. Running' = Running \cup {Head(queue)} /\ abandoned' = abandoned
    BY <1>4, <2>1 DEF Dispatch, Running
  <2>3. Cardinality(Running) + abandoned < Workers
    BY <1>4 DEF Dispatch, WorkerFree
  <2>4. Cardinality(Running') <= Cardinality(Running) + 1 /\ Cardinality(Running') \in Nat
    <3>1. \/ Cardinality(Running') = Cardinality(Running)
          \/ Cardinality(Running') = Cardinality(Running) + 1
      BY <2>2, FS_AddElement
    <3> QED
      BY <3>1
  <2> QED
    BY <2>2, <2>3, <2>4, PolicyAssumption
<1>5. CASE Release
  <2>1. Running' = Running /\ abandoned' = abandoned - 1
    BY <1>5 DEF Release, Running
  <2> QED
    BY <2>1, PolicyAssumption
<1>6. CASE Tick \/ UNCHANGED vars
  <2>1. Running' = Running /\ abandoned' = abandoned
    BY <1>6 DEF Tick, vars, Running
  <2> QED
    BY <2>1
<1> QED
  BY <1>2, <1>3, <1>4, <1>5, <1>6, StepCases

LEMMA PoolInductive == PoolInv /\ [Next]_vars => PoolInv'
BY PoolTypeStep, QueuedStep, MannedStep DEF PoolInv

LEMMA PoolAlways == Spec => []PoolInv
BY PoolInit, PoolInductive, PTL DEF Spec

\* The variables always have their types.
THEOREM TypeCorrect == Spec => []TypeOK
BY PoolAlways, PTL DEF PoolInv

\* The pool makes the calls that clients wait for, each once, and no others.
THEOREM ServesWaiters == Spec => []PoolServesWaiters
<1>1. ASSUME PoolInv, NEW c \in Clients
      PROVE  Cardinality({i \in DOMAIN queue : queue[i] = c})
                 = IF call[c] = "queued" THEN 1 ELSE 0
  <2> DEFINE mine == {i \in DOMAIN queue : queue[i] = c}
  <2>1. CASE call[c] = "queued"
    <3>1. PICK i \in DOMAIN queue : queue[i] = c
      BY <1>1, <2>1 DEF PoolInv, Queued
    <3>2. mine = {i}
      BY <1>1, <3>1 DEF PoolInv, Queued
    <3> QED
      BY <2>1, <3>2, FS_Singleton
  <2>2. CASE call[c] # "queued"
    <3>1. mine = {}
      BY <1>1, <2>2 DEF PoolInv, Queued
    <3> QED
      BY <2>2, <3>1, FS_EmptySet
  <2> QED
    BY <2>1, <2>2
<1>2. PoolInv => PoolServesWaiters
  BY <1>1 DEF PoolServesWaiters, PoolInv, Queued
<1> QED
  BY <1>2, PoolAlways, PTL

--------------------------------------------------------------------------------
(***************************************************************************)
(* The throttle.                                                           *)
(***************************************************************************)

\* c sleeps up to a slot that has not come yet.
Sleeping(c) == pc[c] = "sleep" /\ timer[c] > 0

Spaced ==
    /\ \A c \in Clients : Sleeping(c) => slack >= timer[c] + Interval
    /\ \A c, d \in Clients : Sleeping(c) /\ Sleeping(d) /\ c # d =>
          timer[d] >= timer[c] + Interval \/ timer[d] <= timer[c] - Interval

\* A step that sends nobody to sleep and reserves nothing keeps the spacing.
LEMMA StillSpaced ==
  ASSUME Spaced, slack' = slack,
         \A c \in Clients : Sleeping(c)' => Sleeping(c) /\ timer'[c] = timer[c]
  PROVE  Spaced'
BY DEF Spaced

LEMMA SpacedStep ==
  ASSUME PoolInv, Spaced, [Next]_vars
  PROVE  Spaced'
<1> USE DEF PoolInv, TypeOK, Goto
<1>n. Interval \in Nat /\ Interval > 0 /\ slack \in Nat /\ \A c \in Clients : timer[c] \in Nat
  BY PolicyAssumption
<1>1. ASSUME NEW c \in Clients, Throttle(c) PROVE Spaced'
  <2>1. /\ timer' = [timer EXCEPT ![c] = slack] /\ slack' = slack + Interval
        /\ pc[c] = "throttle" /\ pc' = [pc EXCEPT ![c] = "sleep"]
    BY <1>1 DEF Throttle
  <2>2. \A d \in Clients \ {c} : timer'[d] = timer[d] /\ (Sleeping(d)' <=> Sleeping(d))
    BY <2>1 DEF Sleeping
  <2>3. timer'[c] = slack
    BY <2>1
  <2>4. \A d \in Clients : Sleeping(d)' => slack' >= timer'[d] + Interval
    BY <1>n, <2>1, <2>2, <2>3 DEF Spaced
  <2>5. \A d \in Clients \ {c} : Sleeping(d)' => timer'[d] <= timer'[c] - Interval
    BY <1>n, <2>2, <2>3 DEF Spaced
  <2>6. ASSUME NEW d \in Clients, NEW e \in Clients, Sleeping(d)', Sleeping(e)', d # e
        PROVE  timer'[e] >= timer'[d] + Interval \/ timer'[e] <= timer'[d] - Interval
    <3>0. timer'[d] \in Nat /\ timer'[e] \in Nat
      BY <1>n, <2>1
    <3>1. CASE d = c \/ e = c
      BY <1>n, <2>5, <2>6, <3>0, <3>1
    <3>2. CASE d # c /\ e # c
      BY <2>2, <2>6, <3>2 DEF Spaced
    <3> QED
      BY <3>1, <3>2
  <2> QED
    BY <2>4, <2>6 DEF Spaced
<1>2. ASSUME NEW c \in Clients,
             \/ CacheHit(c) \/ CacheMiss(c) \/ Submit(c) \/ Receive(c) \/ Store(c)
             \/ Retry(c) \/ Answer(c)
      PROVE  Spaced'
  <2>1. slack' = slack /\ \A d \in Clients : Sleeping(d)' => Sleeping(d) /\ timer'[d] = timer[d]
    BY <1>2 DEF CacheHit, CacheMiss, Submit, Receive, Store, Retry, Answer, Sleeping
  <2> QED
    BY <2>1, StillSpaced
<1>3. ASSUME NEW c \in Clients, Raised(c) \/ TimeoutQueued(c) \/ TimeoutRunning(c)
      PROVE  Spaced'
  <2>1. slack' = slack /\ \E R \in SUBSET Nat : AttemptFailed(c, R)
    BY <1>3, PolicyAssumption DEF Raised, TimeoutQueued, TimeoutRunning
  <2>2. /\ pc'[c] # "sleep"
        /\ \A d \in Clients \ {c} : pc'[d] = pc[d] /\ timer'[d] = timer[d]
    BY <2>1, FailedType
  <2>3. \A d \in Clients : Sleeping(d)' => Sleeping(d) /\ timer'[d] = timer[d]
    BY <2>2 DEF Sleeping
  <2> QED
    BY <2>1, <2>3, StillSpaced
<1>4. CASE Dispatch \/ Release \/ UNCHANGED vars
  <2>1. slack' = slack /\ \A d \in Clients : Sleeping(d)' => Sleeping(d) /\ timer'[d] = timer[d]
    BY <1>4 DEF Dispatch, Release, vars, Sleeping
  <2> QED
    BY <2>1, StillSpaced
<1>5. CASE Tick
  <2>1. \A d \in Clients : /\ timer'[d] = Less(timer[d])
                           /\ pc'[d] = pc[d]
    BY <1>5 DEF Tick
  <2>2. \A d \in Clients : Sleeping(d)' => Sleeping(d) /\ timer'[d] = timer[d] - 1
    <3> SUFFICES ASSUME NEW d \in Clients, Sleeping(d)'
                 PROVE  Sleeping(d) /\ timer'[d] = timer[d] - 1
      OBVIOUS
    <3>1. pc[d] = "sleep" /\ Less(timer[d]) > 0 /\ timer[d] \in Nat
      BY <1>n, <2>1 DEF Sleeping
    <3>2. timer[d] > 0
      <4>1. timer[d] = 0 => Less(timer[d]) = 0
        BY <3>1, CountDown
      <4> QED
        BY <3>1, <4>1
    <3>3. Less(timer[d]) = timer[d] - 1
      BY <3>1, <3>2, CountDown
    <3> QED
      BY <2>1, <3>1, <3>2, <3>3 DEF Sleeping
  <2>3. slack' = IF slack > 0 THEN slack - 1 ELSE 0
    BY <1>5, <1>n, CountDown DEF Tick
  <2>4. \A d \in Clients : Sleeping(d)' => slack' >= timer'[d] + Interval
    BY <1>n, <2>2, <2>3 DEF Spaced
  <2>5. ASSUME NEW d \in Clients, NEW e \in Clients, Sleeping(d)', Sleeping(e)', d # e
        PROVE  timer'[e] >= timer'[d] + Interval \/ timer'[e] <= timer'[d] - Interval
    <3>1. timer[e] >= timer[d] + Interval \/ timer[e] <= timer[d] - Interval
      BY <2>2, <2>5 DEF Spaced
    <3> QED
      BY <1>n, <2>2, <2>5, <3>1
  <2> QED
    BY <2>4, <2>5 DEF Spaced
<1> QED
  BY <1>1, <1>2, <1>3, <1>4, <1>5, StepCases DEF Moves, ClientStep

LEMMA SpacedAlways == Spec => []Spaced
<1>1. Init => Spaced
  BY DEF Init, Spaced, Sleeping
<1>2. PoolInv /\ Spaced /\ [Next]_vars => Spaced'
  BY SpacedStep
<1> QED
  BY <1>1, <1>2, PoolAlways, PTL DEF Spec

\* No two threads that sleep up to their slots have slots too close.
THEOREM RequestsSpaced == Spec => []SlotsSpaced
<1>1. Spaced => SlotsSpaced
  BY DEF Spaced, SlotsSpaced, Sleeping
<1> QED
  BY <1>1, SpacedAlways, PTL

--------------------------------------------------------------------------------
(***************************************************************************)
(* Why a request is refused.                                               *)
(***************************************************************************)

\* A healthy provider does not raise, and it answers a call that was not late
\* in time; a client that has passed one has found no worker in time.
Cause(c) ==
    /\ call[c] = "raised" => provider[c] \notin Healthy
    /\ call[c] = "running" /\ provider[c] \in Healthy => timer[c] > 0
    /\ pc[c] \in {"throttle", "sleep", "wait", "backoff"} =>
          \A h \in Healthy : h < provider[c] => c \in starved
    /\ pc[c] = "failed" /\ Healthy # {} => c \in starved

\* An attempt at a healthy provider fails only if it found no worker in time.
LEMMA FailedForCause ==
  ASSUME PoolInv, NEW c \in Clients, Cause(c),
         pc[c] = "wait", NEW R \in SUBSET Nat, AttemptFailed(c, R),
         call' = [call EXCEPT ![c] = "none"], starved \subseteq starved',
         provider[c] \in Healthy => c \in starved'
  PROVE  Cause(c)'
<1> USE PolicyAssumption DEF PoolInv, TypeOK, Goto
<1>1. call'[c] = "none"
  OBVIOUS
<1>2. \A h \in Healthy : h < provider[c] => c \in starved'
  BY DEF Cause
<1>3. CASE pc'[c] = "backoff" /\ provider' = provider
  BY <1>1, <1>2, <1>3 DEF Cause
<1>4. CASE pc'[c] = "throttle" /\ provider'[c] = provider[c] + 1
  <2>1. \A h \in Healthy : h < provider'[c] => h < provider[c] \/ h = provider[c]
    BY <1>4
  <2> QED
    BY <1>1, <1>2, <1>4, <2>1 DEF Cause
<1>5. CASE pc'[c] = "failed" /\ provider[c] = Providers
  <2>1. \A h \in Healthy : h < provider[c] \/ h = provider[c]
    BY <1>5
  <2> QED
    BY <1>1, <1>2, <1>5, <2>1 DEF Cause
<1> QED
  BY <1>3, <1>4, <1>5 DEF AttemptFailed

LEMMA CauseStep ==
  ASSUME PoolInv, \A c \in Clients : Cause(c), [Next]_vars
  PROVE  \A c \in Clients : Cause(c)'
<1> USE DEF PoolInv, TypeOK, Goto
<1>0. ASSUME NEW c \in Clients, pc'[c] = pc[c], call'[c] = call[c],
             provider'[c] = provider[c], timer'[c] = timer[c],
             c \in starved => c \in starved'
      PROVE  Cause(c)'
  BY <1>0 DEF Cause
<1>1. ASSUME NEW c \in Clients, Raised(c) \/ TimeoutQueued(c) \/ TimeoutRunning(c),
             NEW d \in Clients
      PROVE  Cause(d)'
  <2>1. /\ pc[c] = "wait" /\ call' = [call EXCEPT ![c] = "none"]
        /\ \E R \in SUBSET Nat : AttemptFailed(c, R)
        /\ starved \subseteq starved'
    BY <1>1, PolicyAssumption DEF Raised, TimeoutQueued, TimeoutRunning
  <2>2. provider[c] \in Healthy => c \in starved'
    BY <1>1 DEF Raised, TimeoutQueued, TimeoutRunning, Running, Cause
  <2>3. CASE d = c
    BY <2>1, <2>2, <2>3, FailedForCause
  <2>4. CASE d # c
    <3>1. pc'[d] = pc[d] /\ provider'[d] = provider[d] /\ timer'[d] = timer[d]
      BY <2>1, <2>4, FailedType
    <3> QED
      BY <1>0, <2>1, <2>4, <3>1
  <2> QED
    BY <2>3, <2>4
<1>2. ASSUME NEW c \in Clients, CacheHit(c) \/ CacheMiss(c), NEW d \in Clients
      PROVE  Cause(d)'
  <2>1. CASE d = c
    <3>1. call[c] = "none" /\ call' = call
      BY <1>2 DEF CacheHit, CacheMiss, Queued
    <3>2. CASE CacheHit(c)
      BY <2>1, <3>1, <3>2 DEF CacheHit, Cause
    <3>3. CASE CacheMiss(c)
      <4>1. \A h \in Healthy : ~(h < 1)
        BY PolicyAssumption
      <4> QED
        BY <2>1, <3>1, <3>3, <4>1 DEF CacheMiss, Cause
    <3> QED
      BY <1>2, <3>2, <3>3
  <2>2. CASE d # c
    BY <1>0, <1>2, <2>2 DEF CacheHit, CacheMiss
  <2> QED
    BY <2>1, <2>2
<1>3. ASSUME NEW c \in Clients,
             \/ Throttle(c) \/ Submit(c) \/ Receive(c) \/ Store(c) \/ Retry(c),
             NEW d \in Clients
      PROVE  Cause(d)'
  <2>1. CASE d = c
    <3>1. call'[c] \in {"none", "queued"}
      BY <1>3 DEF Throttle, Submit, Receive, Store, Retry, Queued
    <3> QED
      BY <1>3, <2>1, <3>1 DEF Throttle, Submit, Receive, Store, Retry, Cause
  <2>2. CASE d # c
    BY <1>0, <1>3, <2>2 DEF Throttle, Submit, Receive, Store, Retry
  <2> QED
    BY <2>1, <2>2
<1>4. ASSUME NEW c \in Clients, Answer(c), NEW d \in Clients PROVE Cause(d)'
  BY <1>4 DEF Answer, Cause
<1>5. ASSUME Dispatch, NEW d \in Clients PROVE Cause(d)'
  <2>1. Head(queue) \in Clients
    BY <1>5, Dispatched DEF Dispatch, WorkerFree
  <2>2. CASE d = Head(queue)
    <3>1. call'[d] = "running" => timer[d] = Timeout
      BY <1>5, <2>1, <2>2 DEF Dispatch
    <3>2. call'[d] \in {"running", "late"} /\ Timeout > 0
      BY <1>5, <2>1, <2>2, PolicyAssumption DEF Dispatch
    <3> QED
      BY <1>5, <3>1, <3>2 DEF Dispatch, Cause
  <2>3. CASE d # Head(queue)
    BY <1>0, <1>5, <2>1, <2>3 DEF Dispatch
  <2> QED
    BY <2>2, <2>3
<1>6. ASSUME Tick, NEW d \in Clients PROVE Cause(d)'
  <2>1. /\ timer'[d] = Less(timer[d]) /\ timer[d] \in Nat
        /\ call[d] = "running" /\ provider[d] \in Healthy => timer[d] > 1
    BY <1>6 DEF Tick
  <2>2. call[d] = "running" /\ provider[d] \in Healthy => timer'[d] > 0
    <3> SUFFICES ASSUME timer[d] > 1 PROVE timer'[d] > 0
      BY <2>1
    <3>1. Less(timer[d]) = timer[d] - 1
      BY <2>1, CountDown
    <3> QED
      BY <2>1, <3>1
  <2> QED
    BY <1>6, <2>2 DEF Tick, Cause
<1>7. CASE Release \/ UNCHANGED vars
  BY <1>0, <1>7 DEF Release, vars
<1> QED
  BY <1>1, <1>2, <1>3, <1>4, <1>5, <1>6, <1>7, StepCases DEF Moves, ClientStep

LEMMA CauseAlways == Spec => [](\A c \in Clients : Cause(c))
<1>1. Init => \A c \in Clients : Cause(c)
  <2> SUFFICES ASSUME Init, NEW c \in Clients PROVE Cause(c)
    OBVIOUS
  <2> QED
    BY DEF Init, Cause
<1>2. PoolInv /\ (\A c \in Clients : Cause(c)) /\ [Next]_vars => \A c \in Clients : Cause(c)'
  BY CauseStep
<1>3. (\A c \in Clients : Cause(c)') <=> (\A c \in Clients : Cause(c))'
  OBVIOUS
<1> QED
  BY <1>1, <1>2, <1>3, PoolAlways, PTL DEF Spec

\* With a healthy provider a request is refused only if it found no worker.
THEOREM RefusedForCause == Spec => []RefusedOnlyIfStarved
<1>1. (\A c \in Clients : Cause(c)) => RefusedOnlyIfStarved
  BY DEF Cause, RefusedOnlyIfStarved
<1> QED
  BY <1>1, CauseAlways, PTL

================================================================================

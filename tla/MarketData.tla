------------------------------- MODULE MarketData ------------------------------
(***************************************************************************)
(* ResilientMarketDataProvider: the one provider object that all threads   *)
(* of a process share, with its cache, its request-rate throttle and its   *)
(* pool of worker threads.                                                 *)
(*                                                                         *)
(* A "client" is a thread that calls get_history again and again.  The     *)
(* upstream calls are made by the pool's workers; a call cannot be         *)
(* interrupted, so one that has been given up keeps its worker until it    *)
(* ends by itself, if ever.                                                *)
(*                                                                         *)
(* Times are what is left of them: Tick counts every timer down, and a     *)
(* timer that has run out stays at its end until its thread gets to run,   *)
(* however late that is.                                                   *)
(***************************************************************************)
EXTENDS Integers, Sequences, FiniteSets, FiniteSetsExt, SequencesExt

CONSTANTS
    Clients,     \* threads that call get_history
    Key,         \* [client -> (ticker, start, end) it asks for]
    Providers,   \* how many providers: primary, fallback, tertiary
    Healthy,     \* providers that answer within Timeout of being called
    Workers,     \* max_workers of the pool
    Attempts,    \* ProviderPolicy.attempts
    Timeout,     \* ProviderPolicy.timeout_seconds
    Interval,    \* 1 / ProviderPolicy.requests_per_second
    BaseBackoff, \* ProviderPolicy.base_backoff_seconds
    MaxBackoff,  \* ProviderPolicy.max_backoff_seconds
    RetryAfters, \* what a Retry-After header may ask for; 0 when there is none
    Ttl          \* ProviderPolicy.cache_ttl_seconds

ASSUME PolicyAssumption ==
    /\ Providers \in 1..3 /\ Attempts \in Nat \ {0} /\ Workers \in Nat \ {0}
    /\ Timeout \in Nat \ {0} /\ Interval \in Nat \ {0} /\ Ttl \in Nat
    /\ BaseBackoff \in Nat /\ MaxBackoff \in Nat /\ BaseBackoff <= MaxBackoff
    /\ RetryAfters \subseteq Nat /\ 0 \in RetryAfters
    /\ Healthy \subseteq 1..Providers
    /\ IsFiniteSet(Clients)

VARIABLES
    pc,        \* where each client is in get_history
    provider,  \* the provider it is trying
    attempt,   \* and for which time
    timer,     \* what is left of its sleep or of its wait for an answer
    call,      \* its upstream call
    queue,     \* calls waiting for a worker
    abandoned, \* workers held by calls that were given up
    slack,     \* _next_request_at, from now on; 0 when in the past
    cache,     \* per key: what is left of the entry, and who supplied it
    starved    \* clients of whose request a call found no worker in time
               \* (history)

vars == <<pc, provider, attempt, timer, call, queue, abandoned, slack, cache, starved>>

Keys == {Key[c] : c \in Clients}
NoEntry == [left |-> -1, by |-> 0]

TypeOK ==
    /\ pc \in [Clients -> {"idle", "throttle", "sleep", "wait", "store", "backoff",
                           "served", "failed"}]
    /\ provider \in [Clients -> 1..Providers]
    /\ attempt \in [Clients -> 1..Attempts]
    /\ timer \in [Clients -> Nat]
    /\ call \in [Clients -> {"none", "queued", "running", "late", "answered", "raised"}]
    /\ queue \in Seq(Clients)
    /\ abandoned \in 0..Workers
    /\ slack \in Nat
    /\ cache \in [Keys -> [left : -1..Ttl, by : 0..Providers]]
    /\ starved \subseteq Clients

Init ==
    /\ pc = [c \in Clients |-> "idle"]
    /\ provider = [c \in Clients |-> 1]
    /\ attempt = [c \in Clients |-> 1]
    /\ timer = [c \in Clients |-> 0]
    /\ call = [c \in Clients |-> "none"]
    /\ queue = <<>>
    /\ abandoned = 0
    /\ slack = 0
    /\ cache = [k \in Keys |-> NoEntry]
    /\ starved = {}

--------------------------------------------------------------------------------
Goto(c, s) == pc' = [pc EXCEPT ![c] = s]

Running == {c \in Clients : call[c] \in {"running", "late"}}

\* _cache_get: an entry is good up to and including the end of its TTL.
Hit(k) == Ttl > 0 /\ cache[k].left >= 0

CacheHit(c) ==
    /\ pc[c] \in {"idle", "served", "failed"}
    /\ Hit(Key[c])
    /\ Goto(c, "served")
    /\ UNCHANGED <<provider, attempt, timer, call, queue, abandoned, slack, cache,
                   starved>>

\* Mutated form of CacheMiss: an expired entry counts its TTL on.
CacheMissKept(c) ==
    /\ pc[c] \in {"idle", "served", "failed"}
    /\ ~Hit(Key[c])
    /\ Goto(c, "throttle")
    /\ provider' = [provider EXCEPT ![c] = 1]
    /\ attempt' = [attempt EXCEPT ![c] = 1]
    /\ cache' = [cache EXCEPT ![Key[c]].left = @ - 1]
    /\ starved' = starved \ {c}
    /\ UNCHANGED <<timer, call, queue, abandoned, slack>>

\* No entry, or one that has expired and is deleted: begin with the primary.
CacheMiss(c) ==
    /\ pc[c] \in {"idle", "served", "failed"}
    /\ ~Hit(Key[c])
    /\ Goto(c, "throttle")
    /\ provider' = [provider EXCEPT ![c] = 1]
    /\ attempt' = [attempt EXCEPT ![c] = 1]
    /\ cache' = [cache EXCEPT ![Key[c]] = NoEntry]
    /\ starved' = starved \ {c}
    /\ UNCHANGED <<timer, call, queue, abandoned, slack>>

\* Mutated form of Throttle: the next slot is counted from now.
ThrottleFromNow(c) ==
    /\ pc[c] = "throttle"
    /\ timer' = [timer EXCEPT ![c] = slack]
    /\ slack' = Interval
    /\ Goto(c, "sleep")
    /\ UNCHANGED <<provider, attempt, call, queue, abandoned, cache, starved>>

\* _throttle: reserve the next slot under the lock, sleep up to it outside.
Throttle(c) ==
    /\ pc[c] = "throttle"
    /\ timer' = [timer EXCEPT ![c] = slack]
    /\ slack' = slack + Interval
    /\ Goto(c, "sleep")
    /\ UNCHANGED <<provider, attempt, call, queue, abandoned, cache, starved>>

\* executor.submit, and result(timeout) begins to wait.
Submit(c) ==
    /\ pc[c] = "sleep" /\ timer[c] = 0
    /\ queue' = Append(queue, c)
    /\ call' = [call EXCEPT ![c] = "queued"]
    /\ timer' = [timer EXCEPT ![c] = Timeout]
    /\ Goto(c, "wait")
    /\ UNCHANGED <<provider, attempt, abandoned, slack, cache, starved>>

--------------------------------------------------------------------------------
(***************************************************************************)
(* The pool                                                                *)
(***************************************************************************)

WorkerFree == queue # <<>> /\ Cardinality(Running) + abandoned < Workers

\* A free worker takes the oldest call.  Its client has waited from submit on: a
\* call that spent part of the timeout in the queue is late.
Dispatch ==
    /\ WorkerFree
    /\ call' = [call EXCEPT ![Head(queue)] =
                  IF timer[Head(queue)] = Timeout THEN "running" ELSE "late"]
    /\ queue' = Tail(queue)
    /\ UNCHANGED <<pc, provider, attempt, timer, abandoned, slack, cache, starved>>

\* The upstream call returns bars, or raises; bars that are empty or stale by
\* _validate_freshness count as raised.
Answer(c) ==
    /\ c \in Running
    /\ \/ call' = [call EXCEPT ![c] = "answered"]
       \/ provider[c] \notin Healthy /\ call' = [call EXCEPT ![c] = "raised"]
    /\ UNCHANGED <<pc, provider, attempt, timer, queue, abandoned, slack, cache, starved>>

\* A call that was given up ends: its result goes nowhere.
Release ==
    /\ abandoned > 0
    /\ abandoned' = abandoned - 1
    /\ UNCHANGED <<pc, provider, attempt, timer, call, queue, slack, cache, starved>>

--------------------------------------------------------------------------------
(***************************************************************************)
(* The outcome of an attempt                                               *)
(***************************************************************************)

\* min(max_backoff, max(base * 2 ** (attempt - 1), retry_after))
Delay(n, retryAfter) ==
    Min({MaxBackoff, Max({BaseBackoff * 2 ^ (n - 1), retryAfter})})

\* Mutated form of AttemptFailed: the attempts of the providers add up.
AttemptFailedOnce(c, retryAfters) ==
    \/ /\ attempt[c] < Attempts
       /\ \E r \in retryAfters : timer' = [timer EXCEPT ![c] = Delay(attempt[c], r)]
       /\ Goto(c, "backoff")
       /\ UNCHANGED <<provider, attempt>>
    \/ /\ attempt[c] = Attempts
       /\ Goto(c, "failed")
       /\ UNCHANGED <<timer, provider, attempt>>

\* Back off before the next attempt; after the last one turn to the next
\* provider; after the last provider raise.
AttemptFailed(c, retryAfters) ==
    \/ /\ attempt[c] < Attempts
       /\ \E r \in retryAfters : timer' = [timer EXCEPT ![c] = Delay(attempt[c], r)]
       /\ Goto(c, "backoff")
       /\ UNCHANGED <<provider, attempt>>
    \/ /\ attempt[c] = Attempts /\ provider[c] < Providers
       /\ provider' = [provider EXCEPT ![c] = @ + 1]
       /\ attempt' = [attempt EXCEPT ![c] = 1]
       /\ Goto(c, "throttle")
       /\ UNCHANGED timer
    \/ /\ attempt[c] = Attempts /\ provider[c] = Providers
       /\ Goto(c, "failed")
       /\ UNCHANGED <<timer, provider, attempt>>

\* Good bars: the wait is over, what remains is to cache and return them.
Receive(c) ==
    /\ pc[c] = "wait" /\ call[c] = "answered"
    /\ call' = [call EXCEPT ![c] = "none"]
    /\ timer' = [timer EXCEPT ![c] = 0]
    /\ Goto(c, "store")
    /\ UNCHANGED <<provider, attempt, queue, abandoned, slack, cache, starved>>

\* _cache_put: whatever another thread put there meanwhile is replaced.
Store(c) ==
    /\ pc[c] = "store"
    /\ cache' = IF Ttl = 0 THEN cache
                ELSE [cache EXCEPT ![Key[c]] = [left |-> Ttl, by |-> provider[c]]]
    /\ Goto(c, "served")
    /\ UNCHANGED <<provider, attempt, timer, call, queue, abandoned, slack, starved>>

Raised(c) ==
    /\ pc[c] = "wait" /\ call[c] = "raised"
    /\ AttemptFailed(c, RetryAfters)
    /\ call' = [call EXCEPT ![c] = "none"]
    /\ UNCHANGED <<queue, abandoned, slack, cache, starved>>

\* Mutated form of TimeoutQueued: the call is not cancelled.
TimeoutQueuedKept(c) ==
    /\ pc[c] = "wait" /\ timer[c] = 0 /\ call[c] = "queued"
    /\ AttemptFailed(c, {0})
    /\ call' = [call EXCEPT ![c] = "none"]
    /\ starved' = starved \cup {c}
    /\ UNCHANGED <<queue, abandoned, slack, cache>>

\* The timeout passes before a worker takes the call: cancel() withdraws it.
TimeoutQueued(c) ==
    /\ pc[c] = "wait" /\ timer[c] = 0 /\ call[c] = "queued"
    /\ \E i \in DOMAIN queue : queue[i] = c /\ queue' = RemoveAt(queue, i)
    /\ AttemptFailed(c, {0})
    /\ call' = [call EXCEPT ![c] = "none"]
    /\ starved' = starved \cup {c}
    /\ UNCHANGED <<abandoned, slack, cache>>

\* The timeout passes while a worker makes the call: cancel() does nothing.
TimeoutRunning(c) ==
    /\ pc[c] = "wait" /\ timer[c] = 0 /\ c \in Running
    /\ abandoned' = abandoned + 1
    /\ AttemptFailed(c, {0})
    /\ call' = [call EXCEPT ![c] = "none"]
    /\ starved' = IF call[c] = "late" THEN starved \cup {c} ELSE starved
    /\ UNCHANGED <<queue, slack, cache>>

\* Mutated form of Retry: attempts are not counted.
RetryUncounted(c) ==
    /\ pc[c] = "backoff" /\ timer[c] = 0
    /\ Goto(c, "throttle")
    /\ UNCHANGED <<provider, attempt, timer, call, queue, abandoned, slack, cache, starved>>

Retry(c) ==
    /\ pc[c] = "backoff" /\ timer[c] = 0
    /\ attempt' = [attempt EXCEPT ![c] = @ + 1]
    /\ Goto(c, "throttle")
    /\ UNCHANGED <<provider, timer, call, queue, abandoned, slack, cache, starved>>

\* What is left of n time units when one has passed.
Less(n) == Max({0, n - 1})

\* Time passes for everybody.  A healthy provider answers a call that is not
\* late before the timeout passes; a free worker does not wait for a tick.
Tick ==
    /\ ~WorkerFree
    /\ \A c \in Clients :
          call[c] = "running" /\ provider[c] \in Healthy => timer[c] > 1
    /\ timer' = [c \in Clients |-> Less(timer[c])]
    /\ slack' = Less(slack)
    /\ cache' = [k \in Keys |-> IF cache[k].left >= 0
                                THEN [cache[k] EXCEPT !.left = @ - 1] ELSE cache[k]]
    /\ UNCHANGED <<pc, provider, attempt, call, queue, abandoned, starved>>

\* What a client does by itself once it has called get_history.
ClientStep(c) ==
    \/ Throttle(c) \/ Submit(c) \/ Receive(c) \/ Store(c) \/ Raised(c)
    \/ TimeoutQueued(c) \/ TimeoutRunning(c) \/ Retry(c)

Next ==
    \/ \E c \in Clients : CacheHit(c) \/ CacheMiss(c) \/ ClientStep(c) \/ Answer(c)
    \/ Dispatch \/ Release \/ Tick

Spec == Init /\ [][Next]_vars

\* Client threads run, workers take calls, time passes, and a healthy provider
\* answers.  No fairness for the others: their calls may hang for ever.
FairSpec ==
    /\ Spec
    /\ WF_vars(Dispatch) /\ WF_vars(Tick)
    /\ \A c \in Clients : WF_vars(ClientStep(c))
    /\ \A c \in Clients : WF_vars(provider[c] \in Healthy /\ Answer(c))

--------------------------------------------------------------------------------
\* Requests are spaced: no two threads that sleep up to their slots have slots
\* closer than 1 / requests_per_second, and the next slot to be given out is
\* as far behind all of them, although only the reservation is locked.
SlotsSpaced ==
    LET sleeping == {c \in Clients : pc[c] = "sleep" /\ timer[c] > 0}
    IN  \A c \in sleeping :
            /\ slack >= timer[c] + Interval
            /\ \A d \in sleeping \ {c} :
                  timer[d] >= timer[c] + Interval \/ timer[d] <= timer[c] - Interval

\* "configurable fallback provider": a request is refused although one of its
\* providers is healthy only if a call of it found no worker in time.  That
\* does happen: the pool is shared, so a provider that hangs starves the
\* healthy one behind it.
RefusedOnlyIfStarved ==
    \A c \in Clients : pc[c] = "failed" /\ Healthy # {} => c \in starved

\* Every call of get_history ends, also when upstream calls hang for ever and
\* hold every worker: the timeout runs for queued calls as well.
EveryRequestEnds ==
    \A c \in Clients : pc[c] = "throttle" ~> pc[c] \in {"served", "failed"}

\* The pool makes calls for clients that wait for them and for nobody else: a
\* call withdrawn by its timeout is never made, and no client has two calls.
PoolServesWaiters ==
    /\ \A c \in Clients : call[c] # "none" => pc[c] = "wait"
    /\ \A c \in Clients :
          Cardinality({i \in DOMAIN queue : queue[i] = c})
              = IF call[c] = "queued" THEN 1 ELSE 0

================================================================================

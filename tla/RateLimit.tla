------------------------------ MODULE RateLimit ------------------------------
(***************************************************************************)
(* RedisRateLimit, called before logins, refreshes, searches and           *)
(* acquisitions: the requests of one client in one scope, counted in a key *)
(* of Redis per window.  A request reads the clock, then waits for Redis;  *)
(* the counter it names may have expired by the time it is incremented.    *)
(*                                                                         *)
(* A window is named by the second it starts at.  Limits that are zero     *)
(* switch the check off and are left out.                                  *)
(***************************************************************************)
EXTENDS Naturals

CONSTANTS
  Requests,     \* requests of the client that may run at the same time
  Limit,        \* *_RATE_LIMIT_REQUESTS
  Window,       \* *_RATE_LIMIT_WINDOW_SECONDS
  Production,   \* settings.ENVIRONMENT == "production"
  MaxDelay,     \* seconds from reading the clock to the script: connecting,
                \* sending, and what the client library retries
  MaxTime,      \* bound: the last second
  MaxCount      \* bound: no request arrives when the counter is that high

ASSUME LimitAssumption == Limit \in Nat \ {0} /\ Window \in Nat \ {0}
ASSUME DelayAssumption == MaxDelay \in Nat /\ MaxDelay <= Window + 2
ASSUME BoundsAssumption == MaxTime \in Nat /\ MaxCount \in Nat
ASSUME ProductionAssumption == Production \in BOOLEAN

VARIABLES
  now,          \* int(time.time())
  counter,      \* per window: its key in Redis
  request,      \* per request: where it is
  admitted,     \* per window: requests let in since Redis last lost its keys
  prompt        \* ... those of them counted at most a second after arriving

vars == <<now, counter, request, admitted, prompt>>

Time == 0..MaxTime

\* bucket = now // window
Start(t) == t - (t % Window)

NoKey == [count |-> 0, expires |-> 0]
IdleRequest == [pc |-> "idle", at |-> 0, until |-> 0]

Key == {NoKey} \cup [count : Nat \ {0}, expires : Nat \ {0}]

TypeOK ==
  /\ now \in Time
  /\ counter \in [Time -> Key]
  /\ request \in [Requests -> [pc : {"idle", "counting", "refused"}, at : Time, until : Nat]]
  /\ admitted \in [Time -> Nat]
  /\ prompt \in [Time -> Nat]

Init ==
  /\ now = 0
  /\ counter = [b \in Time |-> NoKey]
  /\ request = [r \in Requests |-> IdleRequest]
  /\ admitted = [b \in Time |-> 0]
  /\ prompt = [b \in Time |-> 0]

-----------------------------------------------------------------------------
BucketOf(r) == Start(request[r].at)

\* Mutant: EXPIRE is called before INCR, when there is no key to expire.
IncrementedUnexpiring(k) == [count |-> k.count + 1, expires |-> k.expires]

\* Mutant: the key lives for one window.
IncrementedForWindow(k) ==
  [count   |-> k.count + 1,
   expires |-> IF k.count = 0 THEN now + Window ELSE k.expires]

\* _FIXED_WINDOW_SCRIPT, atomic in Redis.
Incremented(k) ==
  [count   |-> k.count + 1,
   expires |-> IF k.count = 0 THEN now + Window + 1 ELSE k.expires]

\* Mutant: the last second of the window instead of the first of the next.
RetryEarly(t) == Window - (t % Window) - 1

\* max(1, .) in the code changes nothing: the remainder is below Window.
RetryAfter(t) == Window - (t % Window)

Counted(r) == [counter EXCEPT ![BucketOf(r)] = Incremented(@)]

Admit(r) ==
  /\ request' = [request EXCEPT ![r] = IdleRequest]
  /\ admitted' = [admitted EXCEPT ![BucketOf(r)] = @ + 1]
  /\ prompt' = IF now <= request[r].at + 1
                 THEN [prompt EXCEPT ![BucketOf(r)] = @ + 1] ELSE prompt

\* 429 with Retry-After, which the client counts from the answer on.
Refuse(r) ==
  /\ request' = [request EXCEPT ![r].pc = "refused",
                                ![r].until = now + RetryAfter(request[r].at)]
  /\ UNCHANGED <<admitted, prompt>>

\* 503
Unavailable(r) ==
  /\ request' = [request EXCEPT ![r] = IdleRequest]
  /\ UNCHANGED <<admitted, prompt>>

-----------------------------------------------------------------------------
Arrive(r) ==
  /\ request[r].pc # "counting"
  /\ counter[Start(now)].count < MaxCount
  /\ request' = [request EXCEPT ![r] = [pc |-> "counting", at |-> now, until |-> 0]]
  /\ UNCHANGED <<now, counter, admitted, prompt>>

Count(r) ==
  /\ request[r].pc = "counting"
  /\ counter' = Counted(r)
  /\ IF counter'[BucketOf(r)].count <= Limit THEN Admit(r) ELSE Refuse(r)
  /\ UNCHANGED now

\* RedisError, with the script executed or not.
CountFails(r) ==
  /\ request[r].pc = "counting"
  /\ counter' \in {counter, Counted(r)}
  /\ IF Production THEN Unavailable(r) ELSE Admit(r)
  /\ UNCHANGED now

\* The client library sends the command again after a lost answer.
CountAgain(r) ==
  /\ request[r].pc = "counting"
  /\ counter[BucketOf(r)].count < MaxCount
  /\ counter' = Counted(r)
  /\ UNCHANGED <<now, request, admitted, prompt>>

\* A second passes; keys whose time is over are gone.
Tick ==
  /\ now < MaxTime
  /\ \A r \in Requests : request[r].pc = "counting" => now < request[r].at + MaxDelay
  /\ now' = now + 1
  /\ counter' = [b \in Time |-> IF counter[b].expires = now + 1 THEN NoKey ELSE counter[b]]
  /\ UNCHANGED <<request, admitted, prompt>>

RedisRestarts ==
  /\ counter' = [b \in Time |-> NoKey]
  /\ admitted' = [b \in Time |-> 0]
  /\ prompt' = [b \in Time |-> 0]
  /\ UNCHANGED <<now, request>>

Next ==
  \/ \E r \in Requests : Arrive(r) \/ Count(r) \/ CountFails(r) \/ CountAgain(r)
  \/ Tick \/ RedisRestarts

Spec == Init /\ [][Next]_vars

-----------------------------------------------------------------------------
(* Properties.                                                             *)

\* In production no window lets in more requests than the limit, although each
\* names its counter before it waits for Redis: the key lives a second longer
\* than its window (rate_limit.py:46), which covers every request that is
\* counted within a second.  Slower ones may find the counter gone and count
\* from one again; that happens at most once per window.
WithinLimit ==
  Production => \A b \in Time : prompt[b] <= Limit /\ admitted[b] <= 2 * Limit

\* A client that heeds Retry-After comes back in a later window, where the
\* counter that refused it plays no part (rate_limit.py:61), however long the
\* answer took.
RetryInLaterWindow ==
  \A r \in Requests : request[r].pc = "refused" => request[r].until >= BucketOf(r) + Window
=============================================================================

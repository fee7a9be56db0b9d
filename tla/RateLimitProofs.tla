-------------------------- MODULE RateLimitProofs --------------------------
(***************************************************************************)
(* WithinLimit and RetryInLaterWindow for every limit, window, number of   *)
(* concurrent requests and delay up to two seconds over a window.          *)
(***************************************************************************)
EXTENDS RateLimit, TLAPS

LEMMA Remainder == ASSUME NEW t \in Nat PROVE t % Window \in 0..(Window - 1) /\ t % Window <= t
  BY LimitAssumption

LEMMA WindowOf ==
  ASSUME NEW t \in Time
  PROVE  Start(t) \in Time /\ Start(t) <= t /\ t < Start(t) + Window
  BY Remainder, LimitAssumption, BoundsAssumption DEF Start, Time

\* While its key is there, a window's admissions are counted by it, or by it
\* and one key before it that has expired; a key that is gone has had its time.
KeyCounts(b) ==
  LET k == counter[b] IN
  /\ k = NoKey =>
       \/ admitted[b] = 0
       \/ now >= b + Window + 1 /\ admitted[b] <= Limit
       \/ now >= b + 2 * Window + 2 /\ admitted[b] <= 2 * Limit
  /\ k # NoKey =>
       /\ k.expires > now /\ k.expires >= b + Window + 1
       /\ \/ admitted[b] <= k.count /\ admitted[b] <= Limit
          \/ /\ k.expires >= b + 2 * Window + 2
             /\ admitted[b] <= Limit + k.count /\ admitted[b] <= 2 * Limit

\* Prompt requests meet the first key only: they are counted at the latest in
\* the first second of the next window.
PromptCounts(b) ==
  \/ prompt[b] = 0
  \/ prompt[b] <= Limit /\ now >= b + Window + 1
  \/ counter[b] # NoKey /\ prompt[b] <= counter[b].count /\ prompt[b] <= Limit

Delayed(r) ==
  request[r].pc = "counting" => request[r].at <= now /\ now <= request[r].at + MaxDelay

RateInv ==
  /\ TypeOK
  /\ Production => \A b \in Time : KeyCounts(b) /\ PromptCounts(b)
  /\ \A r \in Requests : Delayed(r)
  /\ RetryInLaterWindow

LEMMA RateInit == Init => RateInv
  BY BoundsAssumption DEF Init, RateInv, TypeOK, Key, NoKey, IdleRequest, Time, KeyCounts,
     PromptCounts, Delayed, RetryInLaterWindow

-----------------------------------------------------------------------------
LEMMA CountedKey ==
  ASSUME TypeOK, NEW b \in Time
  PROVE  /\ counter[b] \in Key
         /\ Incremented(counter[b]) \in Key \ {NoKey}
         /\ Incremented(counter[b]).count = counter[b].count + 1
         /\ counter[b] = NoKey => Incremented(counter[b]).expires = now + Window + 1
         /\ counter[b] # NoKey => Incremented(counter[b]).expires = counter[b].expires
<1>1. counter[b] \in Key
  BY DEF TypeOK
<1>2. CASE counter[b] = NoKey
  BY <1>1, <1>2, LimitAssumption DEF TypeOK, Time, Key, NoKey, Incremented
<1>3. CASE counter[b] \in [count : Nat \ {0}, expires : Nat \ {0}]
  BY <1>1, <1>3 DEF Key, NoKey, Incremented
<1>. QED  BY <1>1, <1>2, <1>3 DEF Key

LEMMA TypeStep == TypeOK /\ [Next]_vars => TypeOK'
<1> SUFFICES ASSUME TypeOK, [Next]_vars PROVE TypeOK'
  OBVIOUS
<1>1. ASSUME NEW r \in Requests PROVE BucketOf(r) \in Time
  BY WindowOf DEF TypeOK, BucketOf
<1>2. ASSUME NEW r \in Requests PROVE Counted(r) \in [Time -> Key]
  BY <1>1, CountedKey DEF TypeOK, Counted
<1>3. ASSUME NEW t \in Time PROVE now + RetryAfter(t) \in Nat
  BY Remainder, LimitAssumption DEF TypeOK, Time, RetryAfter
<1>4. ASSUME NEW r \in Requests, Arrive(r) PROVE TypeOK'
  BY <1>4 DEF Arrive, TypeOK
<1>5. ASSUME NEW r \in Requests, Admit(r)
      PROVE  request' \in [Requests -> [pc : {"idle", "counting", "refused"}, at : Time, until : Nat]]
             /\ admitted' \in [Time -> Nat] /\ prompt' \in [Time -> Nat]
  <2>1. IdleRequest \in [pc : {"idle", "counting", "refused"}, at : Time, until : Nat]
    BY BoundsAssumption DEF IdleRequest, Time
  <2>2. request' \in [Requests -> [pc : {"idle", "counting", "refused"}, at : Time, until : Nat]]
    BY <1>5, <2>1 DEF Admit, TypeOK
  <2>3. admitted' \in [Time -> Nat]
    BY <1>1, <1>5 DEF Admit, TypeOK
  <2>4. prompt' \in [Time -> Nat]
    BY <1>1, <1>5 DEF Admit, TypeOK
  <2>. QED  BY <2>2, <2>3, <2>4
<1>6. ASSUME NEW r \in Requests, Count(r) PROVE TypeOK'
  <2>1. CASE Admit(r)
    BY <1>2, <1>5, <1>6, <2>1 DEF Count, TypeOK
  <2>2. CASE Refuse(r)
    <3>1. now + RetryAfter(request[r].at) \in Nat
      BY <1>3 DEF TypeOK
    <3>. QED  BY <1>2, <1>6, <2>2, <3>1 DEF Count, Refuse, TypeOK
  <2>. QED  BY <1>6, <2>1, <2>2 DEF Count
<1>7. ASSUME NEW r \in Requests, CountFails(r) PROVE TypeOK'
  <2>1. counter' \in [Time -> Key] /\ now' \in Time
    BY <1>2, <1>7 DEF CountFails, TypeOK
  <2>2. CASE Admit(r)
    BY <1>5, <2>1, <2>2 DEF TypeOK
  <2>3. CASE Unavailable(r)
    BY <2>1, <2>3, BoundsAssumption DEF Unavailable, TypeOK, IdleRequest, Time
  <2>. QED  BY <1>7, <2>2, <2>3 DEF CountFails
<1>8. ASSUME NEW r \in Requests, CountAgain(r) PROVE TypeOK'
  BY <1>2, <1>8 DEF CountAgain, TypeOK
<1>9. CASE Tick
  BY <1>9, BoundsAssumption DEF Tick, TypeOK, Time, Key
<1>10. CASE RedisRestarts
  BY <1>10 DEF RedisRestarts, TypeOK, Key
<1>11. CASE UNCHANGED vars
  BY <1>11 DEF vars, TypeOK
<1>. QED  BY <1>4, <1>6, <1>7, <1>8, <1>9, <1>10, <1>11 DEF Next

\* A request is at most MaxDelay seconds old when it is counted, so what is
\* counted for a window finds its time all but over.
LEMMA DelayStep == RateInv /\ [Next]_vars => \A r \in Requests : Delayed(r)'
<1> SUFFICES ASSUME RateInv, [Next]_vars, NEW r \in Requests PROVE Delayed(r)'
  OBVIOUS
<1>1. /\ now \in Nat /\ MaxDelay \in Nat /\ request[r].at \in Nat /\ Delayed(r)
      /\ request \in [Requests -> [pc : {"idle", "counting", "refused"}, at : Time, until : Nat]]
  BY DelayAssumption DEF RateInv, TypeOK, Time
<1>2. CASE Tick
  BY <1>1, <1>2 DEF Tick, Delayed
<1>3. ASSUME NEW q \in Requests, Arrive(q) PROVE Delayed(r)'
  BY <1>1, <1>3 DEF Arrive, Delayed
<1>4. ASSUME NEW q \in Requests, Count(q) \/ CountFails(q) \/ CountAgain(q) PROVE Delayed(r)'
  BY <1>1, <1>4 DEF Count, CountFails, CountAgain, Admit, Refuse, Unavailable, IdleRequest,
     Delayed
<1>5. CASE RedisRestarts \/ UNCHANGED vars
  BY <1>1, <1>5 DEF RedisRestarts, vars, Delayed
<1>. QED  BY <1>2, <1>3, <1>4, <1>5 DEF Next

LEMMA RetryStep == RateInv /\ [Next]_vars => RetryInLaterWindow'
<1> SUFFICES ASSUME RateInv, [Next]_vars, NEW r \in Requests, request'[r].pc = "refused"
             PROVE  request'[r].until >= BucketOf(r)' + Window
  BY DEF RetryInLaterWindow
<1>1. request \in [Requests -> [pc : {"idle", "counting", "refused"}, at : Time, until : Nat]]
  BY DEF RateInv, TypeOK
<1>2. CASE request'[r] = request[r]
  BY <1>2 DEF RateInv, RetryInLaterWindow, BucketOf
<1>3. CASE Count(r) /\ Refuse(r)
  <2>1. request'[r].at = request[r].at
        /\ request'[r].until = now + RetryAfter(request[r].at)
    BY <1>1, <1>3 DEF Refuse
  <2>2. request[r].at \in Nat /\ now \in Nat /\ request[r].at <= now /\ BucketOf(r)' = BucketOf(r)
    BY <1>1, <1>3, <2>1 DEF Count, RateInv, TypeOK, Time, Delayed, BucketOf
  <2>. QED  BY <2>1, <2>2, Remainder, LimitAssumption DEF RetryAfter, BucketOf, Start
<1>4. ASSUME NEW q \in Requests, Arrive(q) PROVE request'[r] = request[r]
  BY <1>1, <1>4 DEF Arrive
<1>5. ASSUME NEW q \in Requests, Admit(q) \/ Unavailable(q) PROVE request'[r] = request[r]
  BY <1>1, <1>5 DEF Admit, Unavailable, IdleRequest
<1>6. ASSUME NEW q \in Requests, Refuse(q), q # r PROVE request'[r] = request[r]
  BY <1>1, <1>6 DEF Refuse
<1>7. CASE UNCHANGED request
  BY <1>2, <1>7
<1>. QED
  BY <1>2, <1>3, <1>4, <1>5, <1>6, <1>7 DEF Next, vars, Count, CountFails, CountAgain,
     Tick, RedisRestarts

-----------------------------------------------------------------------------
(* The counters and what they let in.                                      *)

\* A request finds the key of its window as it has always been, or as the
\* second of its kind, but never as a third.
LEMMA CountedInTime ==
  ASSUME RateInv, NEW r \in Requests, request[r].pc = "counting"
  PROVE  /\ BucketOf(r) \in Time /\ BucketOf(r) <= now
         /\ now < BucketOf(r) + 2 * Window + 2
         /\ now <= request[r].at + 1 => now < BucketOf(r) + Window + 1
<1>1. request[r].at \in Time /\ now \in Time /\ Delayed(r)
  BY DEF RateInv, TypeOK
<1>2. /\ BucketOf(r) \in Time /\ BucketOf(r) <= request[r].at
      /\ request[r].at < BucketOf(r) + Window
  BY <1>1, WindowOf DEF BucketOf
<1>. QED  BY <1>1, <1>2, LimitAssumption, DelayAssumption DEF Delayed, Time

\* One increment, whether its request is let in or not.
LEMMA IncrementStep ==
  ASSUME RateInv, Production, NEW r \in Requests, request[r].pc = "counting",
         counter' = Counted(r), now' = now,
         \/ Admit(r) /\ counter'[BucketOf(r)].count <= Limit
         \/ UNCHANGED <<admitted, prompt>>,
         NEW b \in Time
  PROVE  KeyCounts(b)' /\ PromptCounts(b)'
<1> DEFINE k == counter[b]
           n == Incremented(counter[b])
<1>1. /\ admitted \in [Time -> Nat] /\ prompt \in [Time -> Nat] /\ counter \in [Time -> Key]
      /\ now \in Nat /\ b \in Nat /\ Limit \in Nat \ {0} /\ Window \in Nat \ {0}
  BY LimitAssumption DEF RateInv, TypeOK, Time
<1>2. KeyCounts(b) /\ PromptCounts(b)
  BY DEF RateInv
<1>3. CASE b # BucketOf(r)
  <2>1. counter'[b] = counter[b] /\ admitted'[b] = admitted[b] /\ prompt'[b] = prompt[b]
    BY <1>1, <1>3 DEF Counted, Admit
  <2>. QED  BY <1>2, <2>1 DEF KeyCounts, PromptCounts
<1>4. CASE b = BucketOf(r)
  <2>1. counter'[b] = n
    BY <1>1, <1>4 DEF Counted
  <2>2. /\ n # NoKey /\ n.count \in Nat /\ n.count = k.count + 1 /\ k.count \in Nat
        /\ k = NoKey => n.expires = now + Window + 1
        /\ k # NoKey => n.expires = k.expires
        /\ k = NoKey => k.count = 0
        /\ k.expires \in Nat
    BY CountedKey DEF RateInv, Key, NoKey
  <2>3. /\ b <= now /\ now < b + 2 * Window + 2
        /\ now <= request[r].at + 1 => now < b + Window + 1
    BY <1>4, CountedInTime
  <2>4. \/ /\ admitted'[b] = admitted[b] + 1 /\ n.count <= Limit
           /\ \/ prompt'[b] = prompt[b]
              \/ prompt'[b] = prompt[b] + 1 /\ now < b + Window + 1
        \/ admitted'[b] = admitted[b] /\ prompt'[b] = prompt[b]
    BY <1>1, <1>4, <2>1, <2>3 DEF Admit
  <2>5. admitted[b] \in Nat /\ prompt[b] \in Nat
    BY <1>1
  <2> HIDE DEF n, k
  <2>6. KeyCounts(b)'
    BY <1>1, <1>2, <2>1, <2>2, <2>3, <2>4, <2>5 DEF KeyCounts, k
  <2>7. PromptCounts(b)'
    BY <1>1, <1>2, <2>1, <2>2, <2>3, <2>4, <2>5 DEF PromptCounts, k
  <2>. QED  BY <2>6, <2>7
<1>. QED  BY <1>3, <1>4

LEMMA CountsStep ==
  RateInv /\ [Next]_vars => (Production => \A b \in Time : KeyCounts(b) /\ PromptCounts(b))'
<1> SUFFICES ASSUME RateInv, [Next]_vars, Production, NEW b \in Time
             PROVE  KeyCounts(b)' /\ PromptCounts(b)'
  BY DEF Time
<1>1. KeyCounts(b) /\ PromptCounts(b)
  BY DEF RateInv
<1>2. /\ now \in Nat /\ b \in Nat /\ Limit \in Nat \ {0} /\ Window \in Nat \ {0}
      /\ counter \in [Time -> Key] /\ admitted[b] \in Nat /\ prompt[b] \in Nat
  BY LimitAssumption DEF RateInv, TypeOK, Time
<1>3. ASSUME NEW r \in Requests, Arrive(r) PROVE KeyCounts(b)' /\ PromptCounts(b)'
  BY <1>1, <1>3 DEF Arrive, KeyCounts, PromptCounts
<1>4. ASSUME NEW r \in Requests, Count(r) \/ CountFails(r) \/ CountAgain(r)
      PROVE  KeyCounts(b)' /\ PromptCounts(b)'
  <2>1. request[r].pc = "counting" /\ now' = now
    BY <1>4 DEF Count, CountFails, CountAgain
  <2>2. CASE counter' = Counted(r)
    <3>1. \/ Admit(r) /\ counter'[BucketOf(r)].count <= Limit
          \/ UNCHANGED <<admitted, prompt>>
      BY <1>4 DEF Count, CountFails, CountAgain, Refuse, Unavailable
    <3>. QED  BY <2>1, <2>2, <3>1, IncrementStep
  <2>3. CASE UNCHANGED <<counter, admitted, prompt>>
    BY <1>1, <2>1, <2>3 DEF KeyCounts, PromptCounts
  <2>. QED  BY <1>4, <2>2, <2>3 DEF Count, CountFails, CountAgain, Unavailable
<1>5. CASE Tick
  <2>1. /\ now' = now + 1 /\ admitted'[b] = admitted[b] /\ prompt'[b] = prompt[b]
        /\ counter'[b] = IF counter[b].expires = now + 1 THEN NoKey ELSE counter[b]
    BY <1>2, <1>5 DEF Tick
  <2>2. counter[b] \in Key /\ NoKey.expires # now + 1
    BY <1>2 DEF NoKey
  <2>3. counter[b] # NoKey => counter[b].count \in Nat /\ counter[b].expires \in Nat
    BY <2>2 DEF Key
  <2>4. CASE counter'[b] = counter[b]
    BY <1>1, <1>2, <2>1, <2>2, <2>3, <2>4 DEF KeyCounts, PromptCounts
  <2>5. CASE counter[b] # NoKey /\ counter[b].expires = now + 1
    BY <1>1, <1>2, <2>1, <2>3, <2>5 DEF KeyCounts, PromptCounts
  <2>. QED  BY <2>1, <2>2, <2>4, <2>5
<1>6. CASE RedisRestarts
  BY <1>6 DEF RedisRestarts, KeyCounts, PromptCounts
<1>7. CASE UNCHANGED vars
  BY <1>1, <1>7 DEF vars, KeyCounts, PromptCounts
<1>. QED  BY <1>3, <1>4, <1>5, <1>6, <1>7 DEF Next

LEMMA Inductive == Spec => []RateInv
<1>1. RateInv /\ [Next]_vars => RateInv'
  BY TypeStep, DelayStep, RetryStep, CountsStep DEF RateInv
<1>. QED  BY RateInit, <1>1, PTL DEF Spec

-----------------------------------------------------------------------------
\* Every reachable state is well typed; in particular every counter that is
\* there has an expiry (rate_limit.py:12-18).
THEOREM RateTypes == Spec => []TypeOK
<1>1. RateInv => TypeOK
  BY DEF RateInv
<1>. QED  BY <1>1, Inductive, PTL

\* No window lets in more than the limit of requests that are counted within a
\* second, nor more than twice the limit in all (rate_limit.py:42-66).
THEOREM LimitHolds == Spec => []WithinLimit
<1>1. RateInv => WithinLimit
  <2> SUFFICES ASSUME RateInv, Production, NEW b \in Time
               PROVE  prompt[b] <= Limit /\ admitted[b] <= 2 * Limit
    BY DEF WithinLimit
  <2>1. KeyCounts(b) /\ PromptCounts(b) /\ admitted[b] \in Nat /\ prompt[b] \in Nat
    BY DEF RateInv, TypeOK
  <2>. QED  BY <2>1, LimitAssumption DEF KeyCounts, PromptCounts
<1>. QED  BY <1>1, Inductive, PTL

\* Whoever heeds Retry-After comes back in a later window (rate_limit.py:61).
THEOREM RetryHeeded == Spec => []RetryInLaterWindow
<1>1. RateInv => RetryInLaterWindow
  BY DEF RateInv
<1>. QED  BY <1>1, Inductive, PTL
=============================================================================

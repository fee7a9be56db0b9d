------------------------ MODULE ProviderSearchProofs ------------------------
(***************************************************************************)
(* The token, its lock, the lock in Redis and the time of an answer, for   *)
(* any number of searches and credentials and for any times.               *)
(***************************************************************************)
EXTENDS ProviderSearch, TLAPS

CallRecord ==
  [at : {"none", "lock", "post", "get"}, cred : Credentials \cup {NoOne},
   with : Credentials \cup {NoOne}, again : BOOLEAN]

\* What every step of the client may rely on.
ClientInv ==
  /\ call \in [Searches -> CallRecord]
  /\ tokenLock \in Searches \cup {NoOne}
  /\ TokenMatches
  /\ TokenLockLeft

LEMMA ClientInit == SpotifyInit => ClientInv
  BY SpotifyAssumption DEF SpotifyInit, ClientInv, CallRecord, NoCall, TokenMatches, TokenLockLeft

\* The step of one call: the new record of the call, and the lock.
LEMMA CallMoves ==
  ASSUME ClientInv, NEW r \in Searches, NEW x \in CallRecord,
         call' = [call EXCEPT ![r] = x],
         x.at = "get" => x.with = x.cred,
         \/ tokenLock' = NoOne
         \/ tokenLock' = r /\ x.at = "post"
         \/ tokenLock' = tokenLock /\ tokenLock # r
         \/ tokenLock' = tokenLock /\ x.at = "post"
  PROVE  ClientInv'
<1>1. call' \in [Searches -> CallRecord] /\ tokenLock' \in Searches \cup {NoOne}
  BY DEF ClientInv
<1>2. TokenMatches'
  BY DEF ClientInv, TokenMatches
<1>3. TokenLockLeft'
  BY SpotifyAssumption DEF ClientInv, TokenLockLeft
<1>. QED  BY <1>1, <1>2, <1>3 DEF ClientInv

\* A call that waits for no lock it holds.
Waits(r) == call[r].at # "post"

LEMMA NotHolder == ASSUME ClientInv, NEW r \in Searches, Waits(r) PROVE tokenLock # r
  BY DEF ClientInv, TokenLockLeft, Waits

LEMMA GetRecord ==
  ASSUME NEW x \in CallRecord, Serves(x.cred)
  PROVE  /\ Get(x) \in CallRecord /\ Get(x).at = "get" /\ Get(x).with = Get(x).cred
  BY DEF CallRecord, Serves, Get

LEMMA PostRecord ==
  ASSUME NEW x \in CallRecord, NEW at \in {"lock", "post"}
  PROVE  [x EXCEPT !.at = at] \in CallRecord /\ [x EXCEPT !.at = at].at = at
  BY DEF CallRecord

LEMMA InLockStep ==
  ASSUME ClientInv, NEW r \in Searches, NEW x \in CallRecord, InLock(r, x)
  PROVE  ClientInv'
<1>1. CASE ~x.again /\ Serves(x.cred)
  BY <1>1, GetRecord, CallMoves DEF InLock
<1>2. CASE ~(~x.again /\ Serves(x.cred))
  BY <1>2, PostRecord, CallMoves DEF InLock
<1>. QED  BY <1>1, <1>2

LEMMA GetTokenStep ==
  ASSUME ClientInv, NEW r \in Searches, Waits(r), NEW x \in CallRecord, GetToken(r, x)
  PROVE  ClientInv'
<1>1. CASE ~x.again /\ Serves(x.cred)
  BY <1>1, GetRecord, CallMoves, NotHolder DEF GetToken
<1>2. CASE ~(~x.again /\ Serves(x.cred)) /\ tokenLock = NoOne /\ InLock(r, x)
  BY <1>2, InLockStep
<1>3. CASE ~(~x.again /\ Serves(x.cred))
           /\ call' = [call EXCEPT ![r] = [x EXCEPT !.at = "lock"]] /\ UNCHANGED tokenLock
  BY <1>3, PostRecord, CallMoves, NotHolder
<1>. QED  BY <1>1, <1>2, <1>3 DEF GetToken

LEMMA LeaveStep == ASSUME ClientInv, NEW r \in Searches, Leave(r) PROVE ClientInv'
<1>1. NoCall \in CallRecord /\ NoCall.at = "none"
  BY DEF CallRecord, NoCall
<1>. QED  BY <1>1, CallMoves DEF Leave

\* Every step a search takes in the client keeps the tokens and their lock in
\* order.
LEMMA ClientStep ==
  ASSUME ClientInv, NEW r \in Searches,
         \/ call[r].at = "none" /\ \E c \in Credentials : Enter(r, c)
         \/ LockGranted(r) \/ PostAnswered(r) \/ PostFails(r) \/ Unauthorized(r)
         \/ Limited(r) \/ GetEnds(r) \/ Cancelled(r)
         \/ SpotifyLost \/ SpotifyTick \/ UNCHANGED spotifyVars
  PROVE  ClientInv'
<1>1. call[r] \in CallRecord
  BY DEF ClientInv
<1>2. ASSUME NEW c \in Credentials, call[r].at = "none", Enter(r, c) PROVE ClientInv'
  <2>1. Calling(c) \in CallRecord
    BY DEF Calling, NoCall, CallRecord
  <2>. QED  BY <1>2, <2>1, GetTokenStep DEF Enter, Waits
<1>3. CASE LockGranted(r)
  BY <1>1, <1>3, InLockStep DEF LockGranted
<1>4. CASE PostAnswered(r)
  <2> DEFINE x == [call[r] EXCEPT !.at = "get", !.with = call[r].cred]
  <2>1. x \in CallRecord /\ x.with = x.cred
    BY <1>1 DEF CallRecord
  <2>2. call' = [call EXCEPT ![r] = x]
    BY <1>4 DEF PostAnswered, ClientInv
  <2>3. tokenLock' = NoOne
    BY <1>4 DEF PostAnswered
  <2> HIDE DEF x
  <2>. QED  BY <2>1, <2>2, <2>3, CallMoves
<1>5. CASE Unauthorized(r)
  <2>1. [call[r] EXCEPT !.again = TRUE] \in CallRecord /\ Waits(r)
    BY <1>1, <1>5 DEF CallRecord, Unauthorized, Waits
  <2>. QED  BY <1>5, <2>1, GetTokenStep DEF Unauthorized
<1>6. CASE PostFails(r) \/ Limited(r) \/ GetEnds(r) \/ Cancelled(r)
  BY <1>6, LeaveStep DEF PostFails, Limited, GetEnds, Cancelled
<1>7. CASE SpotifyLost
  BY <1>7, SpotifyAssumption DEF SpotifyLost, ClientInv, CallRecord, NoCall, TokenMatches,
     TokenLockLeft
<1>8. CASE SpotifyTick \/ UNCHANGED spotifyVars
  BY <1>8 DEF SpotifyTick, spotifyVars, ClientInv, TokenMatches, TokenLockLeft
<1>. QED  BY <1>2, <1>3, <1>4, <1>5, <1>6, <1>7, <1>8

-----------------------------------------------------------------------------
(* The searches.                                                           *)

\* What the polls may add, if the search did not get the lock.
Waited(mine) == IF mine THEN 0 ELSE Timeout + PollTime

\* The time a search may have taken when it reaches the end of where it is.
Latest(pc, mine) ==
  CASE pc = "get"     -> RedisTime
    [] pc = "acquire" -> 2 * RedisTime
    [] pc = "wait"    -> 2 * RedisTime + Timeout + PollTime
    [] pc = "call"    -> 2 * RedisTime + Timeout + Waited(mine)
    [] pc = "store"   -> 3 * RedisTime + Timeout + Waited(mine)
    [] pc = "release" -> 4 * RedisTime + Timeout
    [] OTHER          -> 0

SearchPC == {"idle", "get", "acquire", "wait", "call", "store", "release"}

SearchRecord ==
  [pc : SearchPC, left : Nat, wait : Nat, mine : BOOLEAN, since : Nat, age : Nat]

LockRecord == [by : Searches \cup {NoOne, Lost}, left : Nat]

\* The clocks of a search: it is in time, and its next poll will be.
TimeOK(s) ==
  /\ s.age + s.left <= Latest(s.pc, s.mine) /\ s.left <= Timeout + PollTime
  /\ s.pc \in {"get", "wait"} => ~s.mine
  /\ s.pc = "wait" /\ s.wait > 0 => s.age + s.wait <= 2 * RedisTime + Timeout

\* The lock in Redis that the search r has set, k: it lives from its SET on, and
\* longer than what is left of the call if that began within the margin.
HoldsLock(r, s, k) ==
  /\ s.pc = "acquire" /\ s.mine /\ s.since < LockLife => k.by = r /\ k.left + s.since >= LockLife
  /\ s.pc = "call" /\ s.mine /\ s.since < Margin => k.by = r /\ k.left > s.left

\* A search is in time, and has the lock it set for as long as it counts on it.
SearchOK(r) ==
  LET s == search[r] IN
  /\ TimeOK(s)
  /\ s.pc = "call" <=> call[r].at # "none"
  /\ HoldsLock(r, s, lock)

SearchInv ==
  /\ ClientInv
  /\ search \in [Searches -> SearchRecord]
  /\ lock \in LockRecord
  /\ \A r \in Searches : SearchOK(r)

\* A whole number of seconds, and what the timeout has beyond them.
LEMMA LifeAndMargin ==
  LockLife \in Nat /\ Margin \in Nat /\ LockLife = Timeout + Margin /\ Margin > Second
<1>1. ASSUME NEW t \in Nat, NEW n \in Nat \ {0}
      PROVE  /\ t \div n \in Nat /\ t % n \in 0..n - 1 /\ t = (t \div n) * n + (t % n)
             /\ (t \div n + 2) * n = (t \div n) * n + 2 * n
  OBVIOUS
<1>2. Timeout \in Nat /\ Second \in Nat \ {0}
  BY TimesAssumption
<1> DEFINE whole == Timeout \div Second
           rest == Timeout % Second
           ticks == whole * Second
<1>3. /\ whole \in Nat /\ rest \in 0..Second - 1 /\ Timeout = ticks + rest
      /\ (whole + 2) * Second = ticks + 2 * Second
  BY <1>1, <1>2
<1>4. ticks \in Nat
  BY <1>2, <1>3
<1>5. LockLife = (whole + 2) * Second /\ Margin = 2 * Second - rest
  BY DEF LockLife, Margin
<1> HIDE DEF whole, rest, ticks
<1>. QED  BY <1>2, <1>3, <1>4, <1>5

LEMMA SearchConstants ==
  /\ Timeout \in Nat /\ RedisTime \in Nat /\ Pause \in Nat /\ PollTime \in Nat
  /\ PollTime = Pause + RedisTime
  BY TimesAssumption DEF PollTime

\* A search at rest.
LEMMA IdleOK ==
  /\ IdleSearch \in SearchRecord /\ IdleSearch.pc = "idle" /\ IdleSearch.left = 0
  /\ IdleSearch.age = 0 /\ IdleSearch.mine = FALSE /\ TimeOK(IdleSearch)
  /\ \A r, k : HoldsLock(r, IdleSearch, k)
  BY SearchConstants DEF IdleSearch, SearchRecord, SearchPC, TimeOK, HoldsLock, Latest

LEMMA SearchInit == Init => SearchInv
<1> SUFFICES ASSUME Init PROVE SearchInv
  OBVIOUS
<1>1. ClientInv
  BY ClientInit DEF Init
<1>2. search = [r \in Searches |-> IdleSearch]
  BY DEF Init
<1>3. lock \in LockRecord
  BY DEF Init, NoLock, LockRecord
<1>4. ASSUME NEW r \in Searches PROVE SearchOK(r)
  BY <1>2, <1>4, IdleOK DEF Init, SpotifyInit, SearchOK, NoCall
<1>. QED  BY <1>1, <1>2, <1>3, <1>4, IdleOK DEF SearchInv

\* Steps of the client that leave the call going, and those that end it.
Goes(r) ==
  \/ call[r].at = "none" /\ \E c \in Credentials : Enter(r, c)
  \/ LockGranted(r) \/ PostAnswered(r) \/ Unauthorized(r)

Ends(r) == PostFails(r) \/ Limited(r) \/ GetEnds(r) \/ Cancelled(r)

LEMMA CallGoes ==
  ASSUME ClientInv, NEW r \in Searches, Goes(r)
  PROVE  /\ call'[r].at # "none"
         /\ \A q \in Searches \ {r} : call'[q] = call[q]
<1>1. call[r] \in CallRecord /\ DOMAIN call = Searches
  BY DEF ClientInv
<1>2. ASSUME NEW x \in CallRecord, InLock(r, x) \/ GetToken(r, x)
      PROVE  \E y \in CallRecord : y.at # "none" /\ call' = [call EXCEPT ![r] = y]
  <2>1. Serves(x.cred) => Get(x) \in CallRecord /\ Get(x).at = "get"
    BY GetRecord
  <2>2. \A at \in {"lock", "post"} :
          [x EXCEPT !.at = at] \in CallRecord /\ [x EXCEPT !.at = at].at = at
    BY PostRecord
  <2>. QED  BY <1>2, <2>1, <2>2 DEF InLock, GetToken
<1>3. ASSUME NEW c \in Credentials PROVE Calling(c) \in CallRecord
  BY DEF Calling, NoCall, CallRecord
<1>4. [call[r] EXCEPT !.again = TRUE] \in CallRecord
  BY <1>1 DEF CallRecord
<1>5. \/ \E y \in CallRecord : y.at # "none" /\ call' = [call EXCEPT ![r] = y]
      \/ PostAnswered(r)
  BY <1>1, <1>2, <1>3, <1>4 DEF Goes, Enter, LockGranted, Unauthorized
<1>6. PostAnswered(r) => call'[r].at = "get" /\ \A q \in Searches \ {r} : call'[q] = call[q]
  BY <1>1 DEF PostAnswered, CallRecord
<1>. QED  BY <1>1, <1>5, <1>6

LEMMA CallEnds ==
  ASSUME ClientInv, NEW r \in Searches, Ends(r)
  PROVE  /\ call'[r].at = "none"
         /\ \A q \in Searches \ {r} : call'[q] = call[q]
  BY DEF ClientInv, Ends, PostFails, Limited, GetEnds, Cancelled, Leave, NoCall

\* One search moves; the others keep what they have.
LEMMA SearchMoves ==
  ASSUME SearchInv, ClientInv', NEW r \in Searches, NEW x \in SearchRecord,
         search' = [search EXCEPT ![r] = x],
         \A q \in Searches \ {r} : call'[q] = call[q],
         lock' \in LockRecord,
         \A q \in Searches \ {r} : lock.by = q => lock' = lock,
         TimeOK(x),
         x.pc = "call" <=> call'[r].at # "none",
         HoldsLock(r, x, lock')
  PROVE  SearchInv'
<1>1. search' \in [Searches -> SearchRecord]
  BY DEF SearchInv
<1>2. SearchOK(r)'
  <2>1. search'[r] = x
    BY DEF SearchInv
  <2>2. TimeOK(search[r])' /\ HoldsLock(r, search[r], lock)'
    BY <2>1 DEF TimeOK, HoldsLock, Latest, Waited, PollTime, LockLife, Margin
  <2>. QED  BY <2>1, <2>2 DEF SearchOK
<1>3. ASSUME NEW q \in Searches \ {r} PROVE SearchOK(q)'
  <2>1. search'[q] = search[q] /\ call'[q] = call[q] /\ SearchOK(q)
    BY DEF SearchInv
  <2>2. TimeOK(search[q])'
    BY <2>1 DEF SearchOK, TimeOK, Latest, Waited, PollTime
  <2>3. HoldsLock(q, search[q], lock)'
    BY <2>1, LifeAndMargin DEF SearchOK, HoldsLock, LockLife, Margin
  <2>. QED  BY <2>1, <2>2, <2>3 DEF SearchOK
<1>. QED  BY <1>1, <1>2, <1>3 DEF SearchInv

LEMMA SearchTypes ==
  ASSUME SearchInv, NEW r \in Searches
  PROVE  /\ search[r] \in SearchRecord /\ SearchOK(r) /\ ClientInv /\ lock \in LockRecord
         /\ DOMAIN search = Searches
  BY DEF SearchInv

\* A search that is over holds nothing; its lock is left to expire.
LEMMA EndStep ==
  ASSUME SearchInv, ClientInv', NEW r \in Searches, End(r),
         call'[r].at = "none", \A q \in Searches \ {r} : call'[q] = call[q]
  PROVE  SearchInv'
<1>1. /\ search' = [search EXCEPT ![r] = IdleSearch]
      /\ lock' = IF lock.by = r THEN [lock EXCEPT !.by = Lost] ELSE lock
  BY DEF End, Update
<1>2. lock' \in LockRecord
  BY <1>1, SearchTypes DEF LockRecord
<1>3. \A q \in Searches \ {r} : lock.by = q => lock' = lock
  BY <1>1
<1>. QED  BY <1>1, <1>2, <1>3, IdleOK, SearchMoves

\* Where a search goes on, and what it keeps.
LEMMA AtRecord ==
  ASSUME SearchInv, NEW r \in Searches, NEW pc \in SearchPC, NEW time \in Nat
  PROVE  /\ At(r, pc, time) \in SearchRecord
         /\ At(r, pc, time).pc = pc /\ At(r, pc, time).left = time
         /\ At(r, pc, time).age = search[r].age /\ At(r, pc, time).mine = search[r].mine
  BY SearchTypes DEF At, SearchRecord

\* A search goes on to another part of its code, without a lock to count on.
LEMMA OnwardsStep ==
  ASSUME SearchInv, ClientInv', NEW r \in Searches, search[r].pc # "idle",
         NEW x \in SearchRecord, Update(r, x),
         x.pc \in {"acquire", "wait", "store", "release"}, x.pc = "acquire" => ~x.mine,
         TimeOK(x),
         call'[r].at = "none", \A q \in Searches \ {r} : call'[q] = call[q],
         lock' \in LockRecord,
         \A q \in Searches \ {r} : lock.by = q => lock' = lock
  PROVE  SearchInv'
<1>1. search' = [search EXCEPT ![r] = x]
  BY DEF Update
<1>2. HoldsLock(r, x, lock')
  BY DEF HoldsLock
<1>. QED  BY <1>1, <1>2, SearchMoves

\* After the call, or instead of it: a release if there is a token.
LEMMA FinishStep ==
  ASSUME SearchInv, ClientInv', NEW r \in Searches, Finish(r),
         search[r].pc \in {"acquire", "wait", "call", "store"},
         call'[r].at = "none", \A q \in Searches \ {r} : call'[q] = call[q]
  PROVE  SearchInv'
<1>1. CASE search[r].mine
  <2> DEFINE x == At(r, "release", RedisTime)
  <2>1. Update(r, x) /\ lock' = lock
    BY <1>1 DEF Finish
  <2>2. /\ x \in SearchRecord /\ x.pc = "release" /\ x.left = RedisTime
        /\ x.age = search[r].age
    BY SearchConstants, AtRecord DEF SearchPC
  <2> HIDE DEF x
  <2>3. TimeOK(x)
    BY <1>1, <2>2, SearchTypes, SearchConstants
    DEF SearchOK, SearchRecord, TimeOK, Latest, Waited
  <2>4. lock' \in LockRecord
    BY <2>1, SearchTypes
  <2>. QED  BY <2>1, <2>2, <2>3, <2>4, OnwardsStep
<1>2. CASE ~search[r].mine
  BY <1>2, EndStep DEF Finish
<1>. QED  BY <1>1, <1>2

\* The provider is called with the lock, or without it.  What is left of the
\* margin when the search is told of its lock is what the lock outlives the call.
LEMMA CallProviderStep ==
  ASSUME SearchInv, NEW r \in Searches, CallProvider(r),
         \/ search[r].pc = "acquire" /\ search[r].mine
         \/ search[r].pc = "wait"
  PROVE  SearchInv'
<1>1. /\ search[r] \in SearchRecord /\ SearchOK(r) /\ ClientInv /\ lock \in LockRecord
      /\ Timeout \in Nat /\ RedisTime \in Nat /\ PollTime \in Nat
  BY SearchTypes, SearchConstants
<1>2. call[r].at = "none"
  BY <1>1 DEF SearchOK
<1>3. CASE /\ \E c \in Credentials : Enter(r, c)
           /\ Update(r, [At(r, "call", Timeout) EXCEPT !.since = search[r].since])
           /\ lock' = lock
  <2> DEFINE y == At(r, "call", Timeout)
             x == [y EXCEPT !.since = search[r].since]
  <2>1. /\ y \in SearchRecord /\ y.pc = "call" /\ y.left = Timeout /\ y.age = search[r].age
        /\ y.mine = search[r].mine
    BY <1>1, AtRecord DEF SearchPC
  <2>2. search' = [search EXCEPT ![r] = x]
    BY <1>3 DEF Update
  <2> HIDE DEF y
  <2>3. /\ x \in SearchRecord /\ x.pc = "call" /\ x.left = Timeout /\ x.age = search[r].age
        /\ x.mine = search[r].mine /\ x.since = search[r].since
    BY <1>1, <2>1 DEF SearchRecord
  <2> HIDE DEF x
  <2>4. ClientInv' /\ call'[r].at # "none" /\ \A q \in Searches \ {r} : call'[q] = call[q]
    BY <1>1, <1>2, <1>3, ClientStep, CallGoes DEF Goes
  <2>5. TimeOK(x)
    BY <1>1, <2>3 DEF SearchOK, SearchRecord, TimeOK, Latest, Waited
  <2>6. HoldsLock(r, x, lock)
    BY <1>1, <2>3, LifeAndMargin DEF SearchOK, SearchRecord, LockRecord, TimeOK, HoldsLock
  <2>. QED  BY <1>1, <1>2, <1>3, <2>2, <2>3, <2>4, <2>5, <2>6, SearchMoves
<1>4. CASE Refused /\ Finish(r)
  <2>1. ClientInv' /\ call' = call
    BY <1>1, <1>4, ClientStep DEF Refused, spotifyVars
  <2>. QED  BY <1>2, <1>4, <2>1, FinishStep
<1>. QED  BY <1>3, <1>4 DEF CallProvider

-----------------------------------------------------------------------------
(* The actions, one after the other.                                       *)

LEMMA BeginKeeps == ASSUME SearchInv, NEW r \in Searches, Begin(r) PROVE SearchInv'
<1>1. search' = [search EXCEPT ![r] = [IdleSearch EXCEPT !.pc = "get", !.left = RedisTime]]
  BY DEF Begin, Update
<1> DEFINE x == [IdleSearch EXCEPT !.pc = "get", !.left = RedisTime]
<1>2. x \in SearchRecord /\ x.pc = "get" /\ x.left = RedisTime /\ x.age = 0
      /\ x.mine = FALSE
  BY IdleOK, SearchConstants DEF SearchRecord, SearchPC
<1>3. search' = [search EXCEPT ![r] = x]
  BY <1>1
<1> HIDE DEF x
<1>4. call' = call /\ lock' = lock /\ ClientInv' /\ call[r].at = "none"
  BY SearchTypes, ClientStep DEF Begin, spotifyVars, redisVars, SearchOK
<1>5. TimeOK(x) /\ HoldsLock(r, x, lock)
  BY <1>2, SearchConstants DEF TimeOK, HoldsLock, Latest
<1>6. lock' \in LockRecord
  BY <1>4, SearchTypes
<1>. QED  BY <1>2, <1>3, <1>4, <1>5, <1>6, SearchMoves

\* A search that touches Redis and not the client.
LEMMA OutsideCall ==
  ASSUME SearchInv, NEW r \in Searches, search[r].pc # "call", UNCHANGED spotifyVars
  PROVE  ClientInv' /\ call' = call /\ call'[r].at = "none"
  BY SearchTypes, ClientStep DEF spotifyVars, SearchOK

LEMMA SearchFields ==
  ASSUME SearchInv, NEW r \in Searches
  PROVE  /\ search[r].mine \in BOOLEAN
         /\ search[r].age \in Nat /\ search[r].left \in Nat /\ search[r].wait \in Nat
         /\ search[r].since \in Nat /\ TimeOK(search[r]) /\ HoldsLock(r, search[r], lock)
  BY SearchTypes DEF SearchOK, SearchRecord

LEMMA CacheGetKeeps == ASSUME SearchInv, NEW r \in Searches, CacheGet(r) PROVE SearchInv'
<1>1. search[r].pc = "get" /\ ClientInv' /\ call' = call /\ call'[r].at = "none"
  BY OutsideCall DEF CacheGet
<1>2. CASE Hit /\ End(r)
  BY <1>1, <1>2, EndStep
<1>3. CASE Update(r, At(r, "acquire", RedisTime)) /\ UNCHANGED lock
  <2> DEFINE x == At(r, "acquire", RedisTime)
  <2>1. /\ x \in SearchRecord /\ x.pc = "acquire" /\ x.left = RedisTime /\ x.age = search[r].age
        /\ x.mine = search[r].mine /\ Update(r, x)
    BY <1>3, SearchConstants, AtRecord DEF SearchPC
  <2> HIDE DEF x
  <2>2. TimeOK(x) /\ ~x.mine
    BY <1>1, <2>1, SearchFields, SearchConstants DEF TimeOK, Latest
  <2>3. lock' \in LockRecord
    BY <1>3, SearchTypes
  <2>. QED  BY <1>1, <1>3, <2>1, <2>2, <2>3, OnwardsStep
<1>. QED  BY <1>2, <1>3 DEF CacheGet

LEMMA SetLockKeeps == ASSUME SearchInv, NEW r \in Searches, SetLock(r) PROVE SearchInv'
<1> DEFINE x == [search[r] EXCEPT !.mine = TRUE, !.since = 0]
<1>1. /\ search[r].pc = "acquire" /\ lock.by = NoOne /\ lock' = [by |-> r, left |-> LockLife]
      /\ search' = [search EXCEPT ![r] = x]
  BY DEF SetLock, Update
<1>2. ClientInv' /\ call' = call /\ call'[r].at = "none"
  BY <1>1, OutsideCall DEF SetLock
<1>3. /\ x \in SearchRecord /\ x.pc = "acquire" /\ x.left = search[r].left
      /\ x.age = search[r].age /\ x.since = 0
  BY <1>1, SearchTypes DEF SearchRecord
<1> HIDE DEF x
<1>4. TimeOK(x)
  BY <1>1, <1>3, SearchFields DEF TimeOK, Latest
<1>5. HoldsLock(r, x, lock') /\ lock' \in LockRecord
  BY <1>1, <1>3, LifeAndMargin DEF HoldsLock, LockRecord
<1>6. \A q \in Searches \ {r} : lock.by = q => lock' = lock
  BY <1>1, SpotifyAssumption
<1>. QED  BY <1>1, <1>2, <1>3, <1>4, <1>5, <1>6, SearchMoves

LEMMA AcquiredKeeps == ASSUME SearchInv, NEW r \in Searches, Acquired(r) PROVE SearchInv'
  BY CallProviderStep DEF Acquired

\* A wait begins: its deadline is a timeout away.
LEMMA NotAcquiredKeeps == ASSUME SearchInv, NEW r \in Searches, NotAcquired(r) PROVE SearchInv'
<1> DEFINE y == At(r, "wait", PollTime)
           x == [y EXCEPT !.mine = FALSE, !.wait = Timeout]
<1>1. /\ search[r].pc = "acquire" /\ Update(r, x)
      /\ lock' = IF lock.by = r THEN [lock EXCEPT !.by = Lost] ELSE lock
  BY DEF NotAcquired
<1>2. ClientInv' /\ call' = call /\ call'[r].at = "none"
  BY <1>1, OutsideCall DEF NotAcquired
<1>3. /\ y \in SearchRecord /\ y.pc = "wait" /\ y.left = PollTime /\ y.age = search[r].age
     
  BY SearchConstants, AtRecord DEF SearchPC
<1> HIDE DEF y
<1>4. /\ x \in SearchRecord /\ x.pc = "wait" /\ x.left = PollTime /\ x.age = search[r].age
      /\ x.mine = FALSE /\ x.wait = Timeout
  BY <1>3, SearchConstants DEF SearchRecord
<1> HIDE DEF x
<1>5. TimeOK(x)
  BY <1>1, <1>4, SearchFields, SearchConstants DEF TimeOK, Latest
<1>6. lock' \in LockRecord
  BY <1>1, SearchTypes DEF LockRecord
<1>. QED  BY <1>1, <1>2, <1>4, <1>5, <1>6, OnwardsStep

\* Another poll begins only while the deadline has not come.
LEMMA PollMissesKeeps == ASSUME SearchInv, NEW r \in Searches, PollMisses(r) PROVE SearchInv'
<1> DEFINE x == [search[r] EXCEPT !.left = PollTime]
<1>1. search[r].pc = "wait" /\ search[r].wait > 0 /\ Update(r, x) /\ lock' = lock
  BY DEF PollMisses, redisVars
<1>2. ClientInv' /\ call' = call /\ call'[r].at = "none"
  BY <1>1, OutsideCall DEF PollMisses
<1>3. /\ x \in SearchRecord /\ x.pc = "wait" /\ x.left = PollTime /\ x.age = search[r].age
      /\ x.mine = search[r].mine /\ x.wait = search[r].wait
  BY <1>1, SearchTypes, SearchConstants DEF SearchRecord
<1> HIDE DEF x
<1>4. TimeOK(x)
  BY <1>1, <1>3, SearchFields, SearchConstants DEF TimeOK, Latest
<1>5. lock' \in LockRecord
  BY <1>1, SearchTypes
<1>. QED  BY <1>1, <1>2, <1>3, <1>4, <1>5, OnwardsStep

LEMMA WaitKeeps == ASSUME SearchInv, NEW r \in Searches, PollHits(r) \/ GiveUp(r) PROVE SearchInv'
<1>1. CASE PollHits(r)
  BY <1>1, OutsideCall, EndStep DEF PollHits
<1>2. CASE GiveUp(r)
  BY <1>2, CallProviderStep DEF GiveUp
<1>. QED  BY <1>1, <1>2

LEMMA CallStepKeeps == ASSUME SearchInv, NEW r \in Searches, CallStep(r) PROVE SearchInv'
<1>1. Goes(r) /\ search' = search /\ lock' = lock /\ search[r].pc = "call"
  BY DEF CallStep, Goes, redisVars
<1>2. ClientInv' /\ call'[r].at # "none" /\ \A q \in Searches \ {r} : call'[q] = call[q]
  BY <1>1, SearchTypes, ClientStep, CallGoes DEF CallStep
<1>3. search' = [search EXCEPT ![r] = search[r]]
  BY <1>1 DEF SearchInv
<1>4. search[r] \in SearchRecord /\ SearchOK(r) /\ lock' \in LockRecord
  BY <1>1, SearchTypes
<1>. QED  BY <1>1, <1>2, <1>3, <1>4, SearchMoves DEF SearchOK

LEMMA CallAnsweredKeeps == ASSUME SearchInv, NEW r \in Searches, CallAnswered(r) PROVE SearchInv'
<1>1. search[r].pc = "call" /\ lock' = lock /\ GetEnds(r)
  BY DEF CallAnswered, redisVars
<1> DEFINE x == At(r, "store", RedisTime)
<1>2. Update(r, x)
  BY DEF CallAnswered
<1>3. ClientInv' /\ call'[r].at = "none" /\ \A q \in Searches \ {r} : call'[q] = call[q]
  BY <1>1, SearchTypes, ClientStep, CallEnds DEF Ends
<1>4. /\ x \in SearchRecord /\ x.pc = "store" /\ x.left = RedisTime /\ x.age = search[r].age
      /\ x.mine = search[r].mine
  BY SearchConstants, AtRecord DEF SearchPC
<1> HIDE DEF x
<1>5. TimeOK(x)
  BY <1>1, <1>4, SearchFields, SearchConstants DEF TimeOK, Latest, Waited
<1>6. lock' \in LockRecord
  BY <1>1, SearchTypes
<1>. QED  BY <1>1, <1>2, <1>3, <1>4, <1>5, <1>6, OnwardsStep

LEMMA CallFailsKeeps == ASSUME SearchInv, NEW r \in Searches, CallFails(r) PROVE SearchInv'
<1>1. Ends(r) /\ search[r].pc = "call" /\ Finish(r)
  BY DEF CallFails, Ends
<1>2. ClientInv' /\ call'[r].at = "none" /\ \A q \in Searches \ {r} : call'[q] = call[q]
  BY <1>1, SearchTypes, ClientStep, CallEnds DEF Ends
<1>. QED  BY <1>1, <1>2, FinishStep

LEMMA CacheSetKeeps == ASSUME SearchInv, NEW r \in Searches, CacheSet(r) PROVE SearchInv'
<1>1. search[r].pc = "store" /\ Finish(r) /\ UNCHANGED spotifyVars
  BY DEF CacheSet
<1>. QED  BY <1>1, OutsideCall, FinishStep

LEMMA ReleaseLockKeeps == ASSUME SearchInv, NEW r \in Searches, ReleaseLock(r) PROVE SearchInv'
<1>1. search[r].pc = "release" /\ ClientInv' /\ call' = call /\ call'[r].at = "none"
  BY OutsideCall DEF ReleaseLock
<1>2. CASE Update(r, IdleSearch) /\ lock' = Deleted(r)
  <2>1. lock' \in LockRecord
    BY <1>2, SearchTypes DEF Deleted, NoLock, LockRecord
  <2>2. \A q \in Searches \ {r} : lock.by = q => lock' = lock
    BY <1>2 DEF Deleted
  <2>. QED  BY <1>1, <1>2, <2>1, <2>2, IdleOK, SearchMoves DEF Update
<1>3. CASE End(r)
  BY <1>1, <1>3, EndStep
<1>. QED  BY <1>2, <1>3 DEF ReleaseLock

LEMMA RestartKeeps == ASSUME SearchInv, ProcessRestarts PROVE SearchInv'
<1>1. /\ SpotifyLost
      /\ search' = [r \in Searches |-> IdleSearch]
      /\ lock' = IF lock.by \in Searches THEN [lock EXCEPT !.by = Lost] ELSE lock
  BY DEF ProcessRestarts
<1>2. PICK r \in Searches : search[r].pc # "idle"
  BY DEF ProcessRestarts
<1>3. ClientInv'
  BY <1>1, <1>2, SearchTypes, ClientStep
<1>4. lock' \in LockRecord
  BY <1>1, <1>2, SearchTypes DEF LockRecord
<1>5. ASSUME NEW q \in Searches PROVE SearchOK(q)'
  <2>1. search'[q] = IdleSearch /\ call'[q] = NoCall
    BY <1>1 DEF SpotifyLost
  <2>2. TimeOK(search[q])' /\ HoldsLock(q, search[q], lock)'
    BY <2>1, IdleOK DEF TimeOK, HoldsLock, Latest
  <2>. QED  BY <2>1, <2>2, IdleOK DEF SearchOK, NoCall
<1>. QED  BY <1>1, <1>3, <1>4, <1>5, IdleOK DEF SearchInv

\* A tick brings every deadline nearer by as much as it makes a search older.
LEMMA Ticks ==
  ASSUME NEW s \in SearchRecord, s.left > 0, TimeOK(s),
         NEW x, x = Older(s)
  PROVE  /\ x \in SearchRecord /\ TimeOK(x)
         /\ x.pc = s.pc /\ x.mine = s.mine /\ x.left = s.left - 1
         /\ x.since = IF Holds(s) THEN s.since + 1 ELSE s.since
<1> DEFINE left  == s.left - 1
           age   == s.age + 1
           wait  == IF s.wait > 0 THEN s.wait - 1 ELSE 0
           since == IF Holds(s) THEN s.since + 1 ELSE s.since
<1>1. left \in Nat /\ age \in Nat /\ wait \in Nat /\ since \in Nat
  BY DEF SearchRecord
<1>2. x = [s EXCEPT !.left = left, !.age = age, !.wait = wait, !.since = since]
  BY DEF Older
<1>3. s.age \in Nat /\ s.left \in Nat /\ s.wait \in Nat
  BY DEF SearchRecord
<1>4. left = s.left - 1 /\ age = s.age + 1 /\ (wait > 0 => wait = s.wait - 1 /\ s.wait > 0)
  BY <1>3
<1>5. since = IF Holds(s) THEN s.since + 1 ELSE s.since
  OBVIOUS
<1> HIDE DEF left, age, wait, since
<1>6. /\ x \in SearchRecord /\ x.pc = s.pc /\ x.mine = s.mine
      /\ x.left = left /\ x.age = age /\ x.wait = wait /\ x.since = since
  BY <1>1, <1>2 DEF SearchRecord
<1>7. TimeOK(x)
  <2>1. age + left = s.age + s.left /\ left <= s.left
    BY <1>3, <1>4
  <2>2. wait > 0 => s.wait > 0 /\ age + wait = s.age + s.wait
    BY <1>3, <1>4
  <2>3. s.left <= Timeout + PollTime => left <= Timeout + PollTime
    BY <1>1, <1>3, <2>1, SearchConstants
  <2>. QED  BY <1>6, <2>1, <2>2, <2>3 DEF TimeOK
<1>. QED  BY <1>4, <1>5, <1>6, <1>7

LEMMA TickKeeps == ASSUME SearchInv, Tick PROVE SearchInv'
<1>1. /\ \A r \in Searches : search[r].pc # "idle" => search[r].left > 0
      /\ SpotifyTick /\ lock' = Shorter(lock, NoLock)
      /\ search' = [r \in Searches |-> IF search[r].pc = "idle" THEN IdleSearch ELSE Older(search[r])]
  BY DEF Tick
<1>2. ClientInv' /\ call' = call
  BY <1>1 DEF SearchInv, SpotifyTick, ClientInv, TokenMatches, TokenLockLeft
<1>3. lock \in LockRecord
  BY DEF SearchInv
<1>4. /\ lock' \in LockRecord
      /\ lock.left > 1 => lock'.by = lock.by /\ lock'.left = lock.left - 1
  <2>1. CASE lock.left > 1
    <3> DEFINE left == lock.left - 1
    <3>1. left \in Nat
      BY <1>3, <2>1 DEF LockRecord
    <3>2. lock' = [lock EXCEPT !.left = left]
      BY <1>1, <2>1 DEF Shorter
    <3> HIDE DEF left
    <3>3. lock' \in LockRecord /\ lock'.by = lock.by /\ lock'.left = left
      BY <1>3, <3>1, <3>2 DEF LockRecord
    <3>. QED  BY <3>3 DEF left
  <2>2. CASE ~(lock.left > 1)
    BY <1>1, <2>2 DEF Shorter, NoLock, LockRecord
  <2>. QED  BY <2>1, <2>2
<1>5. ASSUME NEW r \in Searches PROVE search'[r] \in SearchRecord /\ SearchOK(r)'
  <2>1. search[r] \in SearchRecord /\ SearchOK(r) /\ TimeOK(search[r])
        /\ HoldsLock(r, search[r], lock)
    BY SearchTypes DEF SearchOK
  <2>2. CASE search[r].pc = "idle"
    <3>1. search'[r] = IdleSearch
      BY <1>1, <2>2
    <3>2. TimeOK(search[r])' /\ HoldsLock(r, search[r], lock)'
      BY <3>1, IdleOK DEF TimeOK, HoldsLock, Latest
    <3>. QED  BY <1>2, <2>1, <2>2, <3>1, <3>2, IdleOK DEF SearchOK
  <2>3. CASE search[r].pc # "idle"
    <3>1. search'[r] = Older(search[r]) /\ search[r].left > 0
      BY <1>1, <2>3
    <3> DEFINE x == Older(search[r])
    <3>2. /\ x \in SearchRecord /\ TimeOK(x)
          /\ x.pc = search[r].pc /\ x.mine = search[r].mine
          /\ x.left = search[r].left - 1
          /\ x.since = IF Holds(search[r]) THEN search[r].since + 1 ELSE search[r].since
      BY <2>1, <3>1, Ticks
    <3> HIDE DEF x
    <3>3. ASSUME search[r].pc = "acquire", search[r].mine PROVE HoldsLock(r, x, lock')
      BY <1>3, <1>4, <2>1, <3>2, <3>3, LifeAndMargin
      DEF HoldsLock, Holds, LockRecord, SearchRecord
    <3>4. ASSUME search[r].pc = "call", search[r].mine PROVE HoldsLock(r, x, lock')
      BY <1>3, <1>4, <2>1, <3>1, <3>2, <3>4, LifeAndMargin
      DEF HoldsLock, Holds, LockRecord, SearchRecord
    <3>5. HoldsLock(r, x, lock')
      <4>1. CASE ~(search[r].pc \in {"acquire", "call"} /\ search[r].mine)
        BY <3>2, <4>1 DEF HoldsLock
      <4>. QED  BY <3>3, <3>4, <4>1
    <3>6. search'[r] = x
      BY <3>1 DEF x
    <3>7. TimeOK(search[r])' /\ HoldsLock(r, search[r], lock)'
      BY <3>2, <3>5, <3>6 DEF TimeOK, HoldsLock, Latest, Waited, PollTime, LockLife, Margin
    <3>. QED  BY <1>2, <2>1, <2>3, <3>2, <3>6, <3>7 DEF SearchOK
  <2>. QED  BY <2>2, <2>3
<1>6. search' \in [Searches -> SearchRecord]
  BY <1>1, <1>5
<1>. QED  BY <1>2, <1>4, <1>5, <1>6 DEF SearchInv

LEMMA SearchNext == SearchInv /\ [Next]_vars => SearchInv'
<1> SUFFICES ASSUME SearchInv, [Next]_vars PROVE SearchInv'
  OBVIOUS
<1>1. ASSUME NEW r \in Searches, SearchStep(r) PROVE SearchInv'
  BY <1>1, BeginKeeps, CacheGetKeeps, SetLockKeeps, AcquiredKeeps, NotAcquiredKeeps,
     PollMissesKeeps, WaitKeeps, CallStepKeeps, CallAnsweredKeeps, CallFailsKeeps, CacheSetKeeps,
     ReleaseLockKeeps DEF SearchStep
<1>2. CASE UNCHANGED vars
  BY <1>2 DEF vars, spotifyVars, redisVars, SearchInv, SearchOK, ClientInv, TokenMatches,
     TokenLockLeft, TimeOK, HoldsLock, Latest, Waited, PollTime, LockLife, Margin
<1>. QED  BY <1>1, <1>2, RestartKeeps, TickKeeps DEF Next

LEMMA Inductive == Spec => []SearchInv
  BY SearchInit, SearchNext, PTL DEF Spec

-----------------------------------------------------------------------------
(* The lives of what expires.                                              *)

EntryLife == 0..FullTTL \cup 0..EmptyTTL

TokenRecord == [for : Credentials \cup {NoOne}, left : 0..TokenLife]

LivesInv ==
  /\ token \in TokenRecord /\ window \in 0..MaxRetryAfter
  /\ lock.left <= LockLife /\ (lock.left = 0 <=> lock = NoLock)
  /\ entry \in EntryLife

LEMMA LivesInit == Init => LivesInv
<1> SUFFICES ASSUME Init PROVE LivesInv
  OBVIOUS
<1>1. token \in TokenRecord /\ window \in 0..MaxRetryAfter
  BY SpotifyAssumption DEF Init, SpotifyInit, NoToken, TokenRecord
<1>2. lock.left <= LockLife /\ (lock.left = 0 <=> lock = NoLock)
  BY LifeAndMargin DEF Init, NoLock
<1>3. entry \in EntryLife
  BY TimesAssumption DEF Init, EntryLife
<1>. QED  BY <1>1, <1>2, <1>3 DEF LivesInv

\* What a search does in the client.
InClient(r) ==
  \/ \E c \in Credentials : Enter(r, c)
  \/ LockGranted(r) \/ PostAnswered(r) \/ Unauthorized(r)
  \/ Ends(r) \/ UNCHANGED spotifyVars

LEMMA StepInClient ==
  ASSUME SearchInv, NEW r \in Searches, SearchStep(r)
  PROVE  InClient(r)
<1>1. CallProvider(r) => InClient(r)
  BY DEF CallProvider, Refused, InClient
<1>2. SetLock(r) \/ Acquired(r) \/ NotAcquired(r) \/ PollMisses(r) \/ GiveUp(r) => InClient(r)
  BY <1>1 DEF SetLock, Acquired, NotAcquired, PollMisses, GiveUp, InClient
<1>3. CallStep(r) \/ CallAnswered(r) \/ CallFails(r) => InClient(r)
  BY DEF CallStep, CallAnswered, CallFails, InClient, Ends
<1>4. Begin(r) \/ CacheGet(r) \/ PollHits(r) \/ CacheSet(r) \/ ReleaseLock(r) => InClient(r)
  BY DEF Begin, CacheGet, PollHits, CacheSet, ReleaseLock, InClient
<1>. QED  BY <1>2, <1>3, <1>4 DEF SearchStep

\* A counter of ticks goes down by one, and stays at zero.
LEMMA CountsDown ==
  ASSUME NEW top \in Nat, NEW n \in 0..top
  PROVE  (IF n > 0 THEN n - 1 ELSE 0) \in 0..top
  OBVIOUS

LEMMA TokenLives ==
  ASSUME SearchInv, LivesInv,
         \/ \E r \in Searches : InClient(r)
         \/ SpotifyLost \/ SpotifyTick
  PROVE  token' \in TokenRecord /\ window' \in 0..MaxRetryAfter
<1>0. token \in TokenRecord /\ window \in 0..MaxRetryAfter
      /\ TokenLife \in Nat /\ MaxRetryAfter \in Nat /\ 0 \in 0..TokenLife /\ 0 \in 0..MaxRetryAfter
  BY SpotifyAssumption DEF LivesInv
<1>1. ASSUME NEW r \in Searches, InClient(r)
      PROVE  token' \in TokenRecord /\ window' \in 0..MaxRetryAfter
  <2>1. CASE PostAnswered(r)
    <3>1. call[r].cred \in Credentials \cup {NoOne}
      BY DEF SearchInv, ClientInv, CallRecord
    <3>. QED  BY <1>0, <2>1, <3>1 DEF PostAnswered, TokenRecord
  <2>2. CASE Limited(r)
    <3>1. PICK after \in 1..MaxRetryAfter : window' = after
      BY <2>2 DEF Limited
    <3>. QED  BY <1>0, <2>2, <3>1 DEF Limited
  <2>3. CASE ~PostAnswered(r) /\ ~Limited(r)
    BY <1>0, <1>1, <2>3 DEF InClient, Ends, Enter, LockGranted, Unauthorized, PostFails, GetEnds,
       Cancelled, spotifyVars
  <2>. QED  BY <2>1, <2>2, <2>3
<1>2. CASE SpotifyLost
  BY <1>0, <1>2 DEF SpotifyLost, NoToken, TokenRecord
<1>3. CASE SpotifyTick
  <2> DEFINE left == IF token.left > 0 THEN token.left - 1 ELSE 0
  <2>1. left \in 0..TokenLife
    BY <1>0, CountsDown DEF TokenRecord
  <2>2. token' = [token EXCEPT !.left = left]
    BY <1>3 DEF SpotifyTick
  <2> HIDE DEF left
  <2>3. token' \in TokenRecord
    BY <1>0, <2>1, <2>2 DEF TokenRecord
  <2>. QED  BY <1>0, <1>3, <2>3, CountsDown DEF SpotifyTick
<1>. QED  BY <1>1, <1>2, <1>3

\* The lock in Redis is taken, left behind, deleted or kept.
LEMMA LockMoves ==
  ASSUME SearchInv, NEW r \in Searches, SearchStep(r)
  PROVE  \/ lock' = lock \/ lock' = NoLock
         \/ lock.by = r /\ lock' = [lock EXCEPT !.by = Lost]
         \/ lock' = [by |-> r, left |-> LockLife]
<1>1. End(r) => \/ lock' = lock
                \/ lock.by = r /\ lock' = [lock EXCEPT !.by = Lost]
  BY DEF End
<1>2. Finish(r) => \/ lock' = lock
                   \/ lock.by = r /\ lock' = [lock EXCEPT !.by = Lost]
  BY <1>1 DEF Finish
<1>3. CASE Begin(r) \/ PollMisses(r) \/ CallStep(r) \/ CallAnswered(r)
  BY <1>3 DEF Begin, PollMisses, CallStep, CallAnswered, redisVars
<1>4. CASE CacheGet(r) \/ PollHits(r) \/ CallFails(r) \/ CacheSet(r)
  BY <1>1, <1>2, <1>4 DEF CacheGet, PollHits, CallFails, CacheSet
<1>5. CASE SetLock(r) \/ NotAcquired(r)
  BY <1>5 DEF SetLock, NotAcquired
<1>6. CASE Acquired(r) \/ GiveUp(r)
  BY <1>2, <1>6 DEF Acquired, GiveUp, CallProvider
<1>7. CASE ReleaseLock(r)
  BY <1>1, <1>7 DEF ReleaseLock, Deleted
<1>. QED  BY <1>3, <1>4, <1>5, <1>6, <1>7 DEF SearchStep

LEMMA LockLives ==
  ASSUME SearchInv, LivesInv, Next
  PROVE  lock'.left <= LockLife /\ (lock'.left = 0 <=> lock' = NoLock)
<1>0. /\ lock \in LockRecord
      /\ lock.left <= LockLife /\ (lock.left = 0 <=> lock = NoLock)
      /\ LockLife \in Nat /\ LockLife > 0
  BY TimesAssumption, LifeAndMargin DEF SearchInv, LivesInv, LockRecord
<1>1. NoLock.left = 0 /\ NoLock.by = NoOne
  BY DEF NoLock
<1>2. ASSUME lock.by \in Searches, lock' = [lock EXCEPT !.by = Lost]
      PROVE  lock'.left <= LockLife /\ (lock'.left = 0 <=> lock' = NoLock)
  <2>1. lock # NoLock
    BY <1>1, <1>2, SpotifyAssumption
  <2>2. lock'.left = lock.left
    BY <1>0, <1>2
  <2>. QED  BY <1>0, <1>1, <2>1, <2>2
<1>3. ASSUME NEW r \in Searches, SearchStep(r)
      PROVE  lock'.left <= LockLife /\ (lock'.left = 0 <=> lock' = NoLock)
  BY <1>0, <1>1, <1>2, <1>3, LockMoves
<1>4. CASE ProcessRestarts
  BY <1>0, <1>2, <1>4 DEF ProcessRestarts
<1>5. CASE Tick
  <2>1. CASE lock.left > 1
    <3> DEFINE left == lock.left - 1
    <3>1. left \in Nat /\ left <= LockLife /\ left # 0
      BY <1>0, <2>1 DEF LockRecord
    <3>2. lock' = [lock EXCEPT !.left = left]
      BY <1>5, <2>1 DEF Tick, Shorter
    <3> HIDE DEF left
    <3>3. lock'.left = left
      BY <1>0, <3>2
    <3>. QED  BY <1>1, <3>1, <3>3
  <2>2. CASE ~(lock.left > 1)
    <3>1. lock' = NoLock
      BY <1>5, <2>2 DEF Tick, Shorter
    <3>. QED  BY <1>0, <1>1, <3>1
  <2>. QED  BY <2>1, <2>2
<1>. QED  BY <1>3, <1>4, <1>5 DEF Next

LEMMA EntryLives == ASSUME SearchInv, LivesInv, Next PROVE entry' \in EntryLife
<1>1. /\ entry \in EntryLife
      /\ FullTTL \in Nat /\ FullTTL > 0 /\ EmptyTTL \in Nat /\ EmptyTTL > 0
  BY TimesAssumption DEF LivesInv
<1>2. ASSUME NEW r \in Searches, CacheSet(r) PROVE entry' \in EntryLife
  BY <1>1, <1>2 DEF CacheSet, EntryLife
<1>3. ASSUME NEW r \in Searches, SearchStep(r), ~CacheSet(r) PROVE entry' = entry
  BY <1>3 DEF SearchStep, Begin, CacheGet, SetLock, Acquired, NotAcquired, PollHits, PollMisses,
     GiveUp, CallStep, CallAnswered, CallFails, ReleaseLock, redisVars
<1>4. CASE ProcessRestarts
  BY <1>1, <1>4 DEF ProcessRestarts
<1>5. CASE Tick
  BY <1>1, <1>5 DEF Tick, EntryLife
<1>. QED  BY <1>1, <1>2, <1>3, <1>4, <1>5 DEF Next

LEMMA LivesNext == SearchInv /\ LivesInv /\ [Next]_vars => LivesInv'
<1> SUFFICES ASSUME SearchInv, LivesInv, [Next]_vars PROVE LivesInv'
  OBVIOUS
<1>1. CASE Next
  <2>1. (\E r \in Searches : InClient(r)) \/ SpotifyLost \/ SpotifyTick
    BY <1>1, StepInClient DEF Next, ProcessRestarts, Tick
  <2>2. token' \in TokenRecord /\ window' \in 0..MaxRetryAfter
    BY <2>1, TokenLives
  <2>3. EntryLife' = EntryLife /\ TokenRecord' = TokenRecord /\ LockLife' = LockLife
        /\ NoLock' = NoLock
    BY DEF EntryLife, TokenRecord, LockLife, NoLock
  <2>. QED  BY <1>1, <2>2, <2>3, LockLives, EntryLives DEF LivesInv
<1>2. CASE UNCHANGED vars
  BY <1>2 DEF vars, spotifyVars, redisVars, LivesInv
<1>. QED  BY <1>1, <1>2

-----------------------------------------------------------------------------
(* One fetch at a time.                                                    *)

\* Who posts has the lock, and unless Spotify has refused a token, none that
\* would have served.
FetchInv ==
  \A r \in Searches : call[r].at = "post" => tokenLock = r /\ (call[r].again \/ ~Serves(call[r].cred))

LEMMA FetchInit == Init => FetchInv
  BY DEF Init, SpotifyInit, NoCall, FetchInv

\* One call moves; if somebody else posts, neither the lock nor the token
\* changes.
LEMMA FetchMoves ==
  ASSUME ClientInv, FetchInv, NEW r \in Searches, NEW x \in CallRecord,
         call' = [call EXCEPT ![r] = x],
         x.at = "post" => tokenLock' = r /\ (x.again \/ ~Serves(x.cred)'),
         tokenLock \in {NoOne, r} \/ UNCHANGED <<token, tokenLock>>
  PROVE  FetchInv'
<1>1. call'[r] = x /\ \A q \in Searches \ {r} : call'[q] = call[q]
  BY DEF ClientInv
<1>2. ASSUME NEW q \in Searches \ {r}, call[q].at = "post" PROVE UNCHANGED <<token, tokenLock>>
  BY <1>2, SpotifyAssumption DEF FetchInv
<1>. QED  BY <1>1, <1>2 DEF FetchInv, Serves

LEMMA InLockFetch ==
  ASSUME ClientInv, FetchInv, NEW r \in Searches, NEW x \in CallRecord, InLock(r, x),
         tokenLock = NoOne, token' = token
  PROVE  FetchInv'
<1>1. CASE ~x.again /\ Serves(x.cred)
  BY <1>1, GetRecord, FetchMoves DEF InLock
<1>2. CASE ~(~x.again /\ Serves(x.cred))
  <2> DEFINE y == [x EXCEPT !.at = "post"]
  <2>1. y \in CallRecord /\ y.again = x.again /\ y.cred = x.cred
    BY DEF CallRecord
  <2>2. call' = [call EXCEPT ![r] = y] /\ tokenLock' = r
    BY <1>2 DEF InLock
  <2> HIDE DEF y
  <2>3. x.again \/ ~Serves(x.cred)'
    BY <1>2 DEF Serves
  <2>4. y.again \/ ~Serves(y.cred)'
    BY <2>1, <2>3 DEF Serves
  <2>. QED  BY <2>1, <2>2, <2>4, FetchMoves
<1>. QED  BY <1>1, <1>2

LEMMA GetTokenFetch ==
  ASSUME ClientInv, FetchInv, NEW r \in Searches, NEW x \in CallRecord, GetToken(r, x),
         token' = token
  PROVE  FetchInv'
<1>1. CASE ~x.again /\ Serves(x.cred)
  BY <1>1, GetRecord, FetchMoves DEF GetToken
<1>2. CASE tokenLock = NoOne /\ InLock(r, x)
  BY <1>2, InLockFetch
<1>3. CASE call' = [call EXCEPT ![r] = [x EXCEPT !.at = "lock"]] /\ UNCHANGED tokenLock
  BY <1>3, PostRecord, FetchMoves
<1>. QED  BY <1>1, <1>2, <1>3 DEF GetToken

LEMMA FetchStep ==
  ASSUME ClientInv, FetchInv, NEW r \in Searches, InClient(r)
  PROVE  FetchInv'
<1>0. call[r] \in CallRecord
  BY DEF ClientInv
<1>1. ASSUME NEW c \in Credentials, Enter(r, c) PROVE FetchInv'
  <2>1. Calling(c) \in CallRecord
    BY DEF Calling, NoCall, CallRecord
  <2>. QED  BY <1>1, <2>1, GetTokenFetch DEF Enter
<1>2. CASE LockGranted(r)
  BY <1>0, <1>2, InLockFetch DEF LockGranted
<1>3. CASE PostAnswered(r)
  <2> DEFINE x == [call[r] EXCEPT !.at = "get", !.with = call[r].cred]
  <2>1. x \in CallRecord /\ x.at = "get"
    BY <1>0 DEF CallRecord
  <2>2. call' = [call EXCEPT ![r] = x] /\ tokenLock = r
    BY <1>3 DEF PostAnswered, ClientInv, FetchInv
  <2> HIDE DEF x
  <2>. QED  BY <2>1, <2>2, FetchMoves
<1>4. CASE Unauthorized(r)
  <2>1. [call[r] EXCEPT !.again = TRUE] \in CallRecord
    BY <1>0 DEF CallRecord
  <2>. QED  BY <1>4, <2>1, GetTokenFetch DEF Unauthorized
<1>5. CASE Ends(r)
  <2>1. NoCall \in CallRecord /\ NoCall.at = "none"
    BY DEF CallRecord, NoCall
  <2>2. Leave(r) /\ token' = token
    BY <1>5 DEF Ends, PostFails, Limited, GetEnds, Cancelled
  <2>3. tokenLock = r \/ tokenLock' = tokenLock
    BY <2>2 DEF Leave
  <2>. QED  BY <2>1, <2>2, <2>3, FetchMoves DEF Leave
<1>6. CASE UNCHANGED spotifyVars
  BY <1>6 DEF spotifyVars, FetchInv, Serves
<1>. QED  BY <1>1, <1>2, <1>3, <1>4, <1>5, <1>6 DEF InClient

LEMMA FetchNext == SearchInv /\ LivesInv /\ FetchInv /\ [Next]_vars => FetchInv'
<1> SUFFICES ASSUME SearchInv, LivesInv, FetchInv, [Next]_vars PROVE FetchInv'
  OBVIOUS
<1>1. ASSUME NEW r \in Searches, SearchStep(r) PROVE FetchInv'
  BY <1>1, StepInClient, FetchStep DEF SearchInv
<1>2. CASE ProcessRestarts
  BY <1>2 DEF ProcessRestarts, SpotifyLost, NoCall, FetchInv
<1>3. CASE Tick
  <2>1. /\ token' = [token EXCEPT !.left = IF @ > 0 THEN @ - 1 ELSE 0]
        /\ call' = call /\ tokenLock' = tokenLock
    BY <1>3 DEF Tick, SpotifyTick
  <2>2. token.left \in Nat /\ token \in TokenRecord
    BY SpotifyAssumption DEF LivesInv, TokenRecord
  <2>3. token'.for = token.for /\ (token'.left > 0 => token.left > 0)
    BY <2>1, <2>2 DEF TokenRecord
  <2>. QED  BY <2>1, <2>3 DEF FetchInv, Serves
<1>4. CASE UNCHANGED vars
  BY <1>4 DEF vars, spotifyVars, FetchInv, Serves
<1>. QED  BY <1>1, <1>2, <1>3, <1>4 DEF Next

LEMMA Lives == Spec => [](SearchInv /\ LivesInv /\ FetchInv)
  BY SearchInit, LivesInit, FetchInit, SearchNext, LivesNext, FetchNext, PTL DEF Spec

-----------------------------------------------------------------------------
(* Theorems.                                                               *)

\* Every variable of the search and of the client keeps its type; what has run
\* out in Redis is gone, and a search is in a call of the client if and only if
\* the client has a call of it.
THEOREM SearchTypesHold == Spec => []TypeOK
<1>1. SearchInv /\ LivesInv => TypeOK
  <2> SUFFICES ASSUME SearchInv, LivesInv PROVE TypeOK
    OBVIOUS
  <2>1. SpotifyTypeOK
    BY DEF SearchInv, LivesInv, ClientInv, TokenRecord, CallRecord, SpotifyTypeOK
  <2>2. lock \in [by : Searches \cup {NoOne, Lost}, left : 0..LockLife]
    BY LifeAndMargin DEF SearchInv, LivesInv, LockRecord
  <2>3. \A r \in Searches : search[r].pc = "call" <=> call[r].at # "none"
    BY SearchTypes DEF SearchOK
  <2>4. ASSUME NEW r \in Searches
        PROVE  search[r] \in [pc : {"idle", "get", "acquire", "wait", "call", "store", "release"},
                              left : 0..Timeout + PollTime, wait : Nat, mine : BOOLEAN,
                              since : Nat, age : Nat]
    <3>1. search[r] \in SearchRecord /\ search[r].left <= Timeout + PollTime
      BY SearchTypes, SearchFields DEF TimeOK
    <3>2. search[r].left \in 0..Timeout + PollTime
      BY <3>1, SearchConstants DEF SearchRecord
    <3>. QED  BY <3>1, <3>2 DEF SearchRecord, SearchPC
  <2>5. search \in [Searches -> [pc : {"idle", "get", "acquire", "wait", "call", "store", "release"},
                              left : 0..Timeout + PollTime, wait : Nat, mine : BOOLEAN,
                              since : Nat, age : Nat]]
    BY <2>4 DEF SearchInv
  <2>. QED  BY <2>1, <2>2, <2>3, <2>5 DEF TypeOK, LivesInv, EntryLife
<1>. QED  BY <1>1, Lives, PTL

\* However many searches miss the token together, the one that has the lock
\* fetches it, and only if there is still none (spotify.py:50).
THEOREM OneFetch == Spec => FetchedOnce
<1>1. FetchInv =>
        [\A r \in Searches :
           call[r].at = "post" /\ call'[r].at = "get" /\ ~call[r].again => ~Serves(call[r].cred)]_spotifyVars
  BY DEF FetchInv
<1>. QED  BY <1>1, Lives, PTL DEF FetchedOnce

\* Whatever credentials are stored meanwhile, and however many searches share
\* the client, no request carries a token of other credentials (spotify.py:48).
THEOREM TokenFits == Spec => []TokenMatches
<1>1. SearchInv => TokenMatches
  BY DEF SearchInv, ClientInv
<1>. QED  BY <1>1, Inductive, PTL

\* No failure, timeout or restart leaves the token lock with a search that has
\* gone (spotify.py:50).
THEOREM TokenLockFree == Spec => []TokenLockLeft
<1>1. SearchInv => TokenLockLeft
  BY DEF SearchInv, ClientInv
<1>. QED  BY <1>1, Inductive, PTL

\* For every timeout, whole or not, and however slow Redis is: a search that was
\* told of its lock before the margin was used up still has it when its call ends
\* (cache.py:42, 49, providers.py:190).
THEOREM LockLasts == Spec => []LockOutlivesCall
<1>1. SearchInv => LockOutlivesCall
  BY DEF SearchInv, SearchOK, HoldsLock, LockOutlivesCall
<1>. QED  BY <1>1, Inductive, PTL

\* For every timeout, pause and time of a Redis command, and any number of
\* searches, each is answered after two timeouts, four commands and one pause
\* (providers.py:176, 195).
THEOREM InTime == Spec => []AnsweredInTime
<1>1. ASSUME SearchInv, NEW r \in Searches PROVE search[r].age <= LongestSearch
  <2>1. search[r] \in SearchRecord /\ TimeOK(search[r])
    BY <1>1, SearchTypes, SearchFields
  <2>. QED  BY <2>1, SearchConstants DEF TimeOK, SearchRecord, SearchPC, Latest, Waited, LongestSearch
<1>2. SearchInv => AnsweredInTime
  BY <1>1 DEF AnsweredInTime
<1>. QED  BY <1>2, Inductive, PTL
=============================================================================

--------------------------- MODULE ProviderSearch ---------------------------
(***************************************************************************)
(* search_cached for one query of one provider, Spotify: the entry in      *)
(* Redis, the lock that lets one search ask the provider while the others  *)
(* wait for its answer, and the time each of them takes.                   *)
(*                                                                         *)
(* A Redis command takes up to RedisTime, has its effect somewhere in it   *)
(* and may fail at any time, before or after the effect.  Effect and reply *)
(* are one action except for the SET of the lock, whose life begins with   *)
(* the effect and the call with the reply.  Time passes in ticks, and not  *)
(* past a deadline somebody has reached.                                   *)
(***************************************************************************)
EXTENDS SpotifyClient, FiniteSets

CONSTANTS
  Second,      \* the ticks of a second
  Timeout,     \* TRACK_PROVIDER_TIMEOUT_SECONDS, a float, in ticks
  RedisTime,   \* the longest a Redis command takes: connecting, waiting for the
               \* socket, and the client library's retries with their pauses
  Pause,       \* the sleep between two polls
  FullTTL,     \* the life of an entry, and of one without items
  EmptyTTL

ASSUME TimesAssumption ==
  /\ Second \in Nat \ {0} /\ Timeout \in Nat \ {0} /\ RedisTime \in Nat \ {0} /\ Pause \in Nat
  /\ FullTTL \in Nat \ {0} /\ EmptyTTL \in Nat \ {0}

VARIABLES
  lock,    \* the lock in Redis: whose token it has, and its life
  entry,   \* the answer in Redis: its life, 0 when there is none
  search   \* per search: where it is

redisVars == <<lock, entry>>
vars == <<spotifyVars, redisVars, search>>

-----------------------------------------------------------------------------
NoLock == [by |-> NoOne, left |-> 0]

\* Somebody's token that no running search has.
Lost == "lost"

\* Mutant: the lock lives as long as the call may take.
LifeOfCall == Timeout

\* The TTL of the lock: whole seconds, what int() leaves of the timeout and two.
LockLife == (Timeout \div Second + 2) * Second

\* A poll: the sleep, then a get.
PollTime == Pause + RedisTime

\* left is the time until the deadline of what the search is doing, wait that
\* until the deadline of its polls; mine whether it has set the lock, since for
\* how long it had when it was told; age the time since it began.
IdleSearch ==
  [pc |-> "idle", left |-> 0, wait |-> 0, mine |-> FALSE, since |-> 0, age |-> 0]

TypeOK ==
  /\ SpotifyTypeOK
  /\ lock \in [by : Searches \cup {NoOne, Lost}, left : 0..LockLife]
  /\ entry \in 0..FullTTL \cup 0..EmptyTTL
  /\ search \in [Searches -> [pc : {"idle", "get", "acquire", "wait", "call", "store", "release"},
                              left : 0..Timeout + PollTime, wait : Nat, mine : BOOLEAN,
                              since : Nat, age : Nat]]
  /\ lock.left = 0 <=> lock = NoLock
  /\ \A r \in Searches : search[r].pc = "call" <=> call[r].at # "none"

Init ==
  /\ SpotifyInit
  /\ lock = NoLock /\ entry = 0
  /\ search = [r \in Searches |-> IdleSearch]

-----------------------------------------------------------------------------
Update(r, s) == search' = [search EXCEPT ![r] = s]

At(r, pc, time) == [search[r] EXCEPT !.pc = pc, !.left = time, !.wait = 0, !.since = 0]

\* The search is over; a lock it leaves behind is nobody's.
End(r) ==
  /\ Update(r, IdleSearch)
  /\ lock' = IF lock.by = r THEN [lock EXCEPT !.by = Lost] ELSE lock

Hit == entry > 0

\* The query is typed.
Begin(r) ==
  /\ search[r].pc = "idle"
  /\ Update(r, [IdleSearch EXCEPT !.pc = "get", !.left = RedisTime])
  /\ UNCHANGED <<spotifyVars, redisVars>>

\* A failure of Redis counts as a miss.
CacheGet(r) ==
  /\ search[r].pc = "get"
  /\ \/ Hit /\ End(r)
     \/ Update(r, At(r, "acquire", RedisTime)) /\ UNCHANGED lock
  /\ UNCHANGED <<spotifyVars, entry>>

\* After the call: a release if there is a token to release.
Finish(r) ==
  IF search[r].mine
    THEN Update(r, At(r, "release", RedisTime)) /\ UNCHANGED lock
    ELSE End(r)

\* The provider is called with the secrets the request has read, which may be of
\* any age by now; Spotify's client may refuse at once.
CallProvider(r) ==
  \/ /\ \E c \in Credentials : Enter(r, c)
     /\ Update(r, [At(r, "call", Timeout) EXCEPT !.since = search[r].since])
     /\ UNCHANGED lock
  \/ Refused /\ Finish(r)

\* SET NX EX has its effect: the lock lives from now on, though the search does
\* not know yet.  A retry of the library may find that the first has expired.
SetLock(r) ==
  /\ search[r].pc = "acquire" /\ lock.by = NoOne
  /\ Update(r, [search[r] EXCEPT !.mine = TRUE, !.since = 0])
  /\ lock' = [by |-> r, left |-> LockLife]
  /\ UNCHANGED <<spotifyVars, entry>>

\* The search gets the token, perhaps late.
Acquired(r) ==
  /\ search[r].pc = "acquire" /\ search[r].mine
  /\ CallProvider(r)
  /\ UNCHANGED entry

\* It gets none, for whatever reason, and waits; a lock it has set without being
\* told is nobody's.
NotAcquired(r) ==
  /\ search[r].pc = "acquire"
  /\ Update(r, [At(r, "wait", PollTime) EXCEPT !.mine = FALSE, !.wait = Timeout])
  /\ lock' = IF lock.by = r THEN [lock EXCEPT !.by = Lost] ELSE lock
  /\ UNCHANGED <<spotifyVars, entry>>

\* A waiting search finds the answer of another one.
PollHits(r) ==
  /\ search[r].pc = "wait"
  /\ Hit /\ End(r)
  /\ UNCHANGED <<spotifyVars, entry>>

\* It finds none; the deadline is looked at before the next poll begins, not
\* while it goes on.
PollMisses(r) ==
  /\ search[r].pc = "wait" /\ search[r].wait > 0
  /\ Update(r, [search[r] EXCEPT !.left = PollTime])
  /\ UNCHANGED <<spotifyVars, redisVars>>

\* Mutant: the search tries for the lock once more.
TryAgain(r) ==
  /\ search[r].pc = "wait"
  /\ Update(r, At(r, "acquire", RedisTime))
  /\ UNCHANGED <<spotifyVars, redisVars>>

\* Or Redis fails, or the deadline has passed with the poll: the search calls the
\* provider itself, without the lock.
GiveUp(r) ==
  /\ search[r].pc = "wait"
  /\ CallProvider(r)
  /\ UNCHANGED entry

\* Steps of the call that are not its end.
CallStep(r) ==
  /\ search[r].pc = "call"
  /\ LockGranted(r) \/ PostAnswered(r) \/ Unauthorized(r)
  /\ UNCHANGED <<redisVars, search>>

CallAnswered(r) ==
  /\ search[r].pc = "call"
  /\ GetEnds(r)
  /\ Update(r, At(r, "store", RedisTime))
  /\ UNCHANGED redisVars

\* An error, 429 or the timeout: nothing is stored.
CallFails(r) ==
  /\ search[r].pc = "call"
  /\ \/ PostFails(r) \/ Limited(r) \/ GetEnds(r)
     \/ search[r].left = 0 /\ Cancelled(r)
  /\ Finish(r)
  /\ UNCHANGED entry

\* The answer has items or has none: its life tells.
CacheSet(r) ==
  /\ search[r].pc = "store"
  /\ \/ entry' \in {FullTTL, EmptyTTL}
     \/ UNCHANGED entry
  /\ Finish(r)
  /\ UNCHANGED spotifyVars

\* Mutant: the token in the lock is not compared.
DeletedAnyway(r) == NoLock

\* The script deletes the lock if it has the token of the search.
Deleted(r) == IF lock.by = r THEN NoLock ELSE lock

ReleaseLock(r) ==
  /\ search[r].pc = "release"
  /\ \/ Update(r, IdleSearch) /\ lock' = Deleted(r)
     \/ End(r)
  /\ UNCHANGED <<spotifyVars, entry>>

\* The process ends and starts again; Redis goes on.
ProcessRestarts ==
  /\ \E r \in Searches : search[r].pc # "idle"
  /\ SpotifyLost
  /\ search' = [r \in Searches |-> IdleSearch]
  /\ lock' = IF lock.by \in Searches THEN [lock EXCEPT !.by = Lost] ELSE lock
  /\ UNCHANGED entry

\* Mutant: what has expired is still there for a tick.
ShorterToZero(x, gone) == IF x.left > 0 THEN [x EXCEPT !.left = @ - 1] ELSE gone

Shorter(x, gone) == IF x.left > 1 THEN [x EXCEPT !.left = @ - 1] ELSE gone

\* The lock is set and the reply not here.
Holds(s) == s.pc = "acquire" /\ s.mine

\* The clocks of a search go on.
Older(s) ==
  [s EXCEPT !.left = @ - 1, !.age = @ + 1, !.wait = IF @ > 0 THEN @ - 1 ELSE 0,
            !.since = IF Holds(s) THEN @ + 1 ELSE @]

Tick ==
  /\ \A r \in Searches : search[r].pc # "idle" => search[r].left > 0
  /\ SpotifyTick
  /\ lock' = Shorter(lock, NoLock)
  /\ entry' = IF entry > 0 THEN entry - 1 ELSE 0
  /\ search' = [r \in Searches |->
                  IF search[r].pc = "idle" THEN IdleSearch ELSE Older(search[r])]

-----------------------------------------------------------------------------
SearchStep(r) ==
  \/ Begin(r) \/ CacheGet(r) \/ SetLock(r) \/ Acquired(r) \/ NotAcquired(r)
  \/ PollHits(r) \/ PollMisses(r) \/ GiveUp(r)
  \/ CallStep(r) \/ CallAnswered(r) \/ CallFails(r)
  \/ CacheSet(r) \/ ReleaseLock(r)

Next ==
  \/ \E r \in Searches : SearchStep(r)
  \/ ProcessRestarts
  \/ Tick

Spec == Init /\ [][Next]_vars

-----------------------------------------------------------------------------
(* Properties.                                                             *)

\* By how much the life of the lock is longer than a call: two seconds, less what
\* int() cuts off the timeout.
Margin == 2 * Second - (Timeout % Second)

\* A search that was told in time that it has the lock, with less of the lock's
\* life gone than that is longer than a call, has it for as long as it asks the
\* provider: no other search, however late, releases it, and two ask at once only
\* when one has waited in vain, Redis has failed or a reply of Redis came late
\* (providers.py:190, cache.py:42, 49).
LockOutlivesCall ==
  \A r \in Searches :
    search[r].pc = "call" /\ search[r].mine /\ search[r].since < Margin => lock.by = r

\* The longest a search takes: a get, the attempt to lock, polls for the whole
\* timeout with one more begun just before its end, a call, and a set.
LongestSearch == 2 * Timeout + 4 * RedisTime + Pause

\* Whatever Redis, the provider and the other searches do, a search is answered
\* after two timeouts, four Redis commands and one pause between polls at the
\* latest, the polls' overrun of their deadline included (providers.py:195-199).
AnsweredInTime == \A r \in Searches : search[r].age <= LongestSearch
=============================================================================

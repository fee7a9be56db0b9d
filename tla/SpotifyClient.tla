---------------------------- MODULE SpotifyClient ----------------------------
(***************************************************************************)
(* The Spotify client the process shares: searches of one event loop use   *)
(* its token, its token lock and its retry window.  An action is what runs *)
(* between two awaits; the answers of Spotify are chosen freely.           *)
(*                                                                         *)
(* A token is told apart only by the credentials it was issued for, and    *)
(* its life is the time, in ticks, for which the client still uses it (30  *)
(* seconds less than Spotify's).  ProviderSearch begins and cuts off calls *)
(* and lets time pass.                                                     *)
(***************************************************************************)
EXTENDS Naturals

CONSTANTS
  Searches,      \* searches that run at the same time
  Credentials,   \* client id and secret, as stored from time to time
  NoOne,
  TokenLife,     \* bounds on the life of a token and on Retry-After
  MaxRetryAfter

ASSUME SpotifyAssumption ==
  /\ NoOne \notin Searches \cup Credentials
  /\ TokenLife \in Nat /\ MaxRetryAfter \in Nat \ {0}

VARIABLES
  token,       \* _token: whose it is, and for how long it is used
  tokenLock,   \* the holder of _token_lock
  window,      \* what is left until _retry_after_until
  call         \* per search: its call of the client

spotifyVars == <<token, tokenLock, window, call>>

-----------------------------------------------------------------------------
NoToken == [for |-> NoOne, left |-> 0]

\* at is where the call waits, cred what it was given, with the credentials
\* its bearer token was issued for, again whether Spotify has said 401 before.
NoCall == [at |-> "none", cred |-> NoOne, with |-> NoOne, again |-> FALSE]

SpotifyTypeOK ==
  /\ token \in [for : Credentials \cup {NoOne}, left : 0..TokenLife]
  /\ tokenLock \in Searches \cup {NoOne}
  /\ window \in 0..MaxRetryAfter
  /\ call \in [Searches -> [at : {"none", "lock", "post", "get"}, cred : Credentials \cup {NoOne},
                            with : Credentials \cup {NoOne}, again : BOOLEAN]]

SpotifyInit ==
  /\ token = NoToken /\ tokenLock = NoOne /\ window = 0
  /\ call = [r \in Searches |-> NoCall]

-----------------------------------------------------------------------------
\* Mutant: the hash of the credentials is not compared.
ServesAnyone(c) == token.left > 0

\* The cached token is used for these credentials.
Serves(c) == token.for = c /\ token.left > 0

Calling(c) == [NoCall EXCEPT !.cred = c]

\* The GET, with the token at hand.
Get(x) == [x EXCEPT !.at = "get", !.with = token.for]

\* Mutant: the token is not looked at again when the lock is had.
PostAtOnce(r, x) == call' = [call EXCEPT ![r] = [x EXCEPT !.at = "post"]] /\ tokenLock' = r

\* Inside the lock: somebody else may have fetched the token meanwhile, which
\* counts unless Spotify has just refused one; else the POST, with the lock.
InLock(r, x) ==
  IF ~x.again /\ Serves(x.cred)
    THEN call' = [call EXCEPT ![r] = Get(x)] /\ tokenLock' = NoOne
    ELSE call' = [call EXCEPT ![r] = [x EXCEPT !.at = "post"]] /\ tokenLock' = r

\* _get_token.
GetToken(r, x) ==
  IF ~x.again /\ Serves(x.cred)
    THEN call' = [call EXCEPT ![r] = Get(x)] /\ UNCHANGED tokenLock
    ELSE \/ tokenLock = NoOne /\ InLock(r, x)
         \/ /\ tokenLock # NoOne
            /\ call' = [call EXCEPT ![r] = [x EXCEPT !.at = "lock"]] /\ UNCHANGED tokenLock

\* search, up to its first await.  Inside the retry window it fails at once.
Enter(r, c) ==
  /\ window = 0
  /\ GetToken(r, Calling(c))
  /\ UNCHANGED <<token, window>>

Refused == window > 0 /\ UNCHANGED spotifyVars

\* The lock is free for one of those that wait for it.
LockGranted(r) ==
  /\ call[r].at = "lock" /\ tokenLock = NoOne
  /\ InLock(r, call[r])
  /\ UNCHANGED <<token, window>>

\* The POST is answered: the token is kept and the lock released.
PostAnswered(r) ==
  /\ call[r].at = "post"
  /\ \E life \in 0..TokenLife : token' = [for |-> call[r].cred, left |-> life]
  /\ call' = [call EXCEPT ![r].at = "get", ![r].with = call[r].cred]
  /\ tokenLock' = NoOne
  /\ UNCHANGED window

\* Mutant: the token lock is not released by an exception.
LeaveWithLock(r) == call' = [call EXCEPT ![r] = NoCall] /\ UNCHANGED tokenLock

\* The call is over, by an answer, an exception or a cancellation at an await:
\* "async with" releases the lock.
Leave(r) ==
  /\ call' = [call EXCEPT ![r] = NoCall]
  /\ tokenLock' = IF tokenLock = r THEN NoOne ELSE tokenLock

PostFails(r) ==
  /\ call[r].at = "post"
  /\ Leave(r)
  /\ UNCHANGED <<token, window>>

\* The first 401 fetches a new token, whatever the cached one is.
Unauthorized(r) ==
  /\ call[r].at = "get" /\ ~call[r].again
  /\ GetToken(r, [call[r] EXCEPT !.again = TRUE])
  /\ UNCHANGED <<token, window>>

\* 429: Retry-After replaces what was left of an earlier window.
Limited(r) ==
  /\ call[r].at = "get"
  /\ \E after \in 1..MaxRetryAfter : window' = after
  /\ Leave(r)
  /\ UNCHANGED token

\* Items, or an answer that is none; a second 401 is one of the latter.
GetEnds(r) ==
  /\ call[r].at = "get"
  /\ Leave(r)
  /\ UNCHANGED <<token, window>>

\* wait_for cancels the call where it is.
Cancelled(r) ==
  /\ call[r].at # "none"
  /\ Leave(r)
  /\ UNCHANGED <<token, window>>

\* The process ends.
SpotifyLost ==
  /\ token' = NoToken /\ tokenLock' = NoOne /\ window' = 0
  /\ call' = [r \in Searches |-> NoCall]

SpotifyTick ==
  /\ token' = [token EXCEPT !.left = IF @ > 0 THEN @ - 1 ELSE 0]
  /\ window' = IF window > 0 THEN window - 1 ELSE 0
  /\ UNCHANGED <<tokenLock, call>>

-----------------------------------------------------------------------------
(* Properties.                                                             *)

\* A request to Spotify carries a token issued for the credentials its search
\* was given, also when the stored credentials change while other searches
\* fetch tokens (spotify.py:48, 52).
TokenMatches == \A r \in Searches : call[r].at = "get" => call[r].with = call[r].cred

\* The token lock is held by a search that is fetching a token, or by nobody:
\* a search that is cut off or fails leaves no lock behind (spotify.py:50).
TokenLockLeft == \A r \in Searches : tokenLock = r => call[r].at = "post"

\* Searches that miss the token together fetch it once: a token that is fetched,
\* but not because of a 401, replaces none that would have served.
FetchedOnce ==
  [][\A r \in Searches :
       call[r].at = "post" /\ call'[r].at = "get" /\ ~call[r].again => ~Serves(call[r].cred)]_spotifyVars
=============================================================================

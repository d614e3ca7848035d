------------------------------ MODULE KisToken ------------------------------
(***************************************************************************)
(* The broker's access token (KisApiService.getAccessToken, refreshToken). *)
(* Every request of the API asks for it, then reads its credentials, then  *)
(* is sent.  The token is cached in the service, for all users; two        *)
(* requests that find it missing or old renew it both.                     *)
(***************************************************************************)
EXTENDS Integers

CONSTANTS
  Caller,
  Owner,        \* credentials: of a user with keys of his own, or of the environment
  LIFE,         \* expires_in
  MARGIN,       \* five minutes
  MAX_RETRIES,
  MaxLatency,   \* assumed: how long the broker's answer takes at most
  MaxUse,       \* assumed: the time from the token to the request that uses it
  MaxTime, MaxFaults

Limits ==
  /\ MARGIN \in Nat /\ LIFE \in Nat /\ MARGIN < LIFE
  /\ MaxLatency \in Nat /\ MaxUse \in Nat

VARIABLES
  accessToken,  \* [owner, dies] or NoToken
  expiresAt,    \* tokenExpiresAt
  clock,
  stage,        \* caller -> where it is
  owner,        \* caller -> its credentials
  retry,        \* caller -> retryCount
  since,        \* caller -> when it sent its request or was given its token
  held,         \* caller -> the token it was given
  faults

vars == <<accessToken, expiresAt, clock, stage, owner, retry, since, held, faults>>

NoToken == [owner |-> "nobody", dies |-> 0]
Token   == [owner : Owner, dies : 0..(MaxTime + LIFE)] \cup {NoToken}

TypeOK ==
  /\ accessToken \in Token /\ expiresAt \in 0..(MaxTime + LIFE)
  /\ clock \in 0..MaxTime
  /\ stage \in [Caller -> {"idle", "asking", "sleeping", "holding"}]
  /\ owner \in [Caller -> Owner]
  /\ retry \in [Caller -> 0..(MAX_RETRIES - 1)]
  /\ since \in [Caller -> 0..MaxTime]
  /\ held \in [Caller -> Token]
  /\ faults \in 0..MaxFaults

Init ==
  /\ accessToken = NoToken /\ expiresAt = 0 /\ clock = 0
  /\ stage = [c \in Caller |-> "idle"]
  /\ owner \in [Caller -> Owner]
  /\ retry = [c \in Caller |-> 0] /\ since = [c \in Caller |-> 0]
  /\ held = [c \in Caller |-> NoToken]
  /\ faults = 0

-----------------------------------------------------------------------------
\* Mutated form: without the five minutes.
StillValid == accessToken # NoToken /\ expiresAt > clock

Valid == accessToken # NoToken /\ expiresAt > clock + MARGIN

\* getAccessToken
GetToken(c) ==
  /\ stage[c] = "idle"
  /\ since' = [since EXCEPT ![c] = clock]
  /\ IF Valid
     THEN stage' = [stage EXCEPT ![c] = "holding"] /\ held' = [held EXCEPT ![c] = accessToken]
     ELSE stage' = [stage EXCEPT ![c] = "asking"]  /\ UNCHANGED held
  /\ UNCHANGED <<accessToken, expiresAt, clock, owner, retry, faults>>

\* The answer to refreshToken; the token counts from when the broker made it out,
\* the service counts from now.
Refreshed(c) ==
  /\ stage[c] = "asking"
  /\ \E made \in since[c]..clock :
       LET token == [owner |-> owner[c], dies |-> made + LIFE] IN
       accessToken' = token /\ held' = [held EXCEPT ![c] = token]
  /\ expiresAt' = clock + LIFE
  /\ stage' = [stage EXCEPT ![c] = "holding"]
  /\ since' = [since EXCEPT ![c] = clock]
  /\ retry' = [retry EXCEPT ![c] = 0]
  /\ UNCHANGED <<clock, owner, faults>>

\* The request fails: a pause, and after the last attempt an error.
RefreshFails(c) ==
  /\ stage[c] = "asking"
  /\ faults < MaxFaults /\ faults' = faults + 1
  /\ IF retry[c] < MAX_RETRIES - 1
     THEN stage' = [stage EXCEPT ![c] = "sleeping"] /\ retry' = [retry EXCEPT ![c] = @ + 1]
     ELSE stage' = [stage EXCEPT ![c] = "idle"]     /\ retry' = [retry EXCEPT ![c] = 0]
  /\ UNCHANGED <<accessToken, expiresAt, clock, owner, since, held>>

Retry(c) ==
  /\ stage[c] = "sleeping"
  /\ stage' = [stage EXCEPT ![c] = "asking"]
  /\ since' = [since EXCEPT ![c] = clock]
  /\ UNCHANGED <<accessToken, expiresAt, clock, owner, retry, held, faults>>

\* The request is sent.
Use(c) ==
  /\ stage[c] = "holding"
  /\ stage' = [stage EXCEPT ![c] = "idle"]
  /\ held' = [held EXCEPT ![c] = NoToken]
  /\ UNCHANGED <<accessToken, expiresAt, clock, owner, retry, since, faults>>

Tick ==
  /\ clock < MaxTime
  /\ \A c \in Caller : /\ stage[c] = "asking"  => clock - since[c] < MaxLatency
                       /\ stage[c] = "holding" => clock - since[c] < MaxUse
  /\ clock' = clock + 1
  /\ UNCHANGED <<accessToken, expiresAt, stage, owner, retry, since, held, faults>>

Next == Tick \/ \E c \in Caller : GetToken(c) \/ Refreshed(c) \/ RefreshFails(c) \/ Retry(c) \/ Use(c)

Spec == Init /\ [][Next]_vars

-----------------------------------------------------------------------------
\* A token that a request is about to be sent with is valid at the broker, although
\* the service counts its life from the answer and renewals overwrite each other,
\* as long as an answer and the way to the request take no more than the margin.
UsedTokenIsLive ==
  MaxLatency + MaxUse <= MARGIN =>
    \A c \in Caller : stage[c] = "holding" => clock < held[c].dies

\* "Get API credentials with priority: user key" (kis-api.service.ts:41): the token
\* of a request was made out to the credentials that are sent with it.
TokenFitsCredentials == \A c \in Caller : stage[c] = "holding" => held[c].owner = owner[c]
=============================================================================

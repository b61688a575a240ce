----------------------------- MODULE TokenClient -----------------------------
(***************************************************************************)
(* The bearer token of one process: TokenClient.get_token and _fetch_token *)
(* (uploader.py) and the upload request that carries the token.  The clock *)
(* is time.monotonic(); the server counts a token's lifetime from when it  *)
(* issues it, the client from when it reads the response.  A request may   *)
(* take any time: the timeouts of 30 seconds bound the silences of the     *)
(* server, not the request, and two of them exceed the buffer of 30.       *)
(***************************************************************************)
EXTENDS Integers

CONSTANTS
  Lifetimes,      \* the values of expires_in the server may answer with, 0 for none
  Buffer,         \* TOKEN_EXPIRY_BUFFER_SECONDS
  MaxTime         \* bound: the clock stops here

ASSUME TokenAssumption ==
  /\ Lifetimes \subseteq Nat
  /\ Buffer \in Nat /\ MaxTime \in Nat

VARIABLES
  now,       \* the clock
  pc,        \* "idle", "request" (for a token), "response" (on its way),
             \* "upload" (the request is on its way)
  issued,    \* when the server issued the newest token, -1 if it never did
  lifetime,  \* and for how long
  received,  \* when the client had read the newest one it has
  token,     \* _cached_token: when it was issued, -1 if there is none
  expiresAt, \* _expires_at
  handed     \* when get_token() returned the token being used

vars == <<now, pc, issued, lifetime, received, token, expiresAt, handed>>

Init ==
  /\ now = 0 /\ pc = "idle"
  /\ issued = -1 /\ lifetime = 0 /\ received = 0
  /\ token = -1 /\ expiresAt = 0
  /\ handed = 0

Tick ==
  /\ now < MaxTime
  /\ now' = now + 1
  /\ UNCHANGED <<pc, issued, lifetime, received, token, expiresAt, handed>>

HandOut == pc' = "upload" /\ handed' = now

CacheHit == token >= 0 /\ now < expiresAt

GetTokenCached ==
  /\ pc = "idle" /\ CacheHit
  /\ HandOut
  /\ UNCHANGED <<now, issued, lifetime, received, token, expiresAt>>

GetTokenMiss ==
  /\ pc = "idle" /\ ~CacheHit
  /\ pc' = "request"
  /\ UNCHANGED <<now, issued, lifetime, received, token, expiresAt, handed>>

\* External: the token endpoint.
Issue ==
  /\ pc = "request"
  /\ pc' = "response"
  /\ issued' = now
  /\ lifetime' \in Lifetimes
  /\ UNCHANGED <<now, received, token, expiresAt, handed>>

\* Mutants: expires_in is taken as it is, or the buffer is taken off every one.
ReceiveWithoutBuffer ==
  /\ pc = "response"
  /\ expiresAt' = now + lifetime
  /\ token' = issued /\ received' = now
  /\ HandOut
  /\ UNCHANGED <<now, issued, lifetime>>

ReceiveAlwaysBuffer ==
  /\ pc = "response"
  /\ expiresAt' = now + lifetime - Buffer
  /\ token' = issued /\ received' = now
  /\ HandOut
  /\ UNCHANGED <<now, issued, lifetime>>

\* A lifetime within the buffer is not cached: _expires_at in the past makes the
\* next call fetch again, although _cached_token is set.
Receive ==
  /\ pc = "response"
  /\ expiresAt' = IF lifetime > Buffer THEN now + lifetime - Buffer ELSE 0
  /\ token' = issued /\ received' = now
  /\ HandOut
  /\ UNCHANGED <<now, issued, lifetime>>

\* An error status, an answer without a token, or none in time: the cache is
\* left as it was.
FetchFails ==
  /\ pc \in {"request", "response"}
  /\ pc' = "idle"
  /\ UNCHANGED <<now, issued, lifetime, received, token, expiresAt, handed>>

\* The server has checked the token and answered, or the request has failed.
UploadEnds ==
  /\ pc = "upload"
  /\ pc' = "idle"
  /\ UNCHANGED <<now, issued, lifetime, received, token, expiresAt, handed>>

Next == \/ Tick \/ GetTokenCached \/ GetTokenMiss \/ Issue \/ Receive
        \/ FetchFails \/ UploadEnds

Spec == Init /\ [][Next]_vars

-----------------------------------------------------------------------------
TypeOK ==
  /\ now \in Nat
  /\ pc \in {"idle", "request", "response", "upload"}
  /\ issued \in Nat \cup {-1} /\ issued <= now
  /\ lifetime \in Lifetimes \cup {0}
  /\ received \in Nat /\ received <= now
  /\ token \in Nat \cup {-1}
  /\ expiresAt \in Nat
  /\ handed \in Nat /\ handed <= now

\* The server still accepts the newest token.
Live == now < issued + lifetime

\* How long the newest token took to reach the client, and has been on its way back.
OnTheWay == (received - issued) + (now - handed)

\* A token that outlives the buffer, be it new or from the cache, expires on its way to
\* the API only if its own two ways, from the token endpoint and to the API, take
\* longer than the buffer: how long it has lain in the cache plays no part.
TokenArrivesLive ==
  pc = "upload" /\ lifetime > Buffer /\ OnTheWay <= Buffer => Live

\* Every upload fetches a token of its own while the lifetimes are within the
\* buffer, although _cached_token is set and whatever was cached before.
ShortLivedIsFetchedAfresh ==
  pc = "idle" /\ lifetime <= Buffer => ~CacheHit
=============================================================================

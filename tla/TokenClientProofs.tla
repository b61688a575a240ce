-------------------------- MODULE TokenClientProofs --------------------------
(* Proofs about TokenClient, for all buffers, lifetimes and latencies.       *)
EXTENDS TokenClient, TLAPS

\* The cache holds the newest token, up to the buffer before its lifetime as counted
\* from when it was read.
CacheBounded ==
  CacheHit => /\ lifetime > Buffer /\ expiresAt = received + lifetime - Buffer
              /\ issued <= received

\* A token that is in use was read after it was issued, and was taken from the cache
\* within that time if it was not used at once.
HandedInTime ==
  /\ pc \in {"request", "response"} => ~CacheHit
  /\ pc = "upload" =>
       /\ issued <= received /\ received <= handed
       /\ lifetime > Buffer => handed < received + lifetime - Buffer

IInv == TypeOK /\ CacheBounded /\ HandedInTime

\* Every step keeps the inductive invariant.
LEMMA InvStep == IInv /\ [Next]_vars => IInv'
<1> SUFFICES ASSUME IInv, [Next]_vars
             PROVE  IInv'
  OBVIOUS
<1> USE TokenAssumption DEF IInv, TypeOK, CacheBounded, HandedInTime, CacheHit
<1>1. CASE Tick
  BY <1>1 DEF Tick
<1>2. CASE GetTokenCached
  BY <1>2 DEF GetTokenCached, HandOut
<1>3. CASE GetTokenMiss
  BY <1>3 DEF GetTokenMiss
<1>4. CASE Issue
  <2>1. /\ pc = "request" /\ pc' = "response"
        /\ issued' = now /\ lifetime' \in Lifetimes
        /\ UNCHANGED <<now, received, token, expiresAt, handed>>
    BY <1>4 DEF Issue
  <2>2. TypeOK'
    BY <2>1
  <2>3. ~CacheHit'
    BY <2>1
  <2>4. QED
    BY <2>1, <2>2, <2>3
<1>5. CASE Receive
  BY <1>5 DEF Receive, HandOut
<1>6. CASE FetchFails
  BY <1>6 DEF FetchFails
<1>7. CASE UploadEnds
  BY <1>7 DEF UploadEnds
<1>8. CASE UNCHANGED vars
  BY <1>8 DEF vars
<1>9. QED
  BY <1>1, <1>2, <1>3, <1>4, <1>5, <1>6, <1>7, <1>8 DEF Next

\* The inductive invariant holds of every reachable state.
LEMMA Invariant == Spec => []IInv
<1>1. Init => IInv
  BY TokenAssumption
     DEF Init, IInv, TypeOK, CacheBounded, HandedInTime, CacheHit
<1>2. QED
  BY <1>1, InvStep, PTL DEF Spec

\* A token that outlives the buffer is live when it arrives unless its own ways took
\* longer than the buffer: the cache takes off what it should.
THEOREM TokensArriveLive == Spec => []TokenArrivesLive
<1>1. IInv => TokenArrivesLive
  BY TokenAssumption
     DEF IInv, TypeOK, HandedInTime, TokenArrivesLive, OnTheWay, Live
<1>2. QED
  BY <1>1, Invariant, PTL

\* A token whose lifetime is within the buffer is never taken from the cache.
THEOREM ShortLivedTokens == Spec => []ShortLivedIsFetchedAfresh
<1>1. IInv => ShortLivedIsFetchedAfresh
  BY TokenAssumption DEF IInv, TypeOK, CacheBounded, ShortLivedIsFetchedAfresh
<1>2. QED
  BY <1>1, Invariant, PTL

\* The clock, the cache and the state of the call keep their types, and nothing has
\* been issued or handed out in the future.
THEOREM TypeCorrect == Spec => []TypeOK
<1>1. IInv => TypeOK
  BY DEF IInv
<1>2. QED
  BY <1>1, Invariant, PTL
=============================================================================

------------------------------- MODULE TokenCache -------------------------------
(***************************************************************************)
(* The access token of the CDEK client (cdek.api): one token cached for    *)
(* all requests, asked for again when its time is nearly up.  A token is   *)
(* known by the time it dies at; time passes in units that no code sees.   *)
(*                                                                         *)
(* fetchCdek aborts what is not answered within its timeout.  Assumed is   *)
(* that an answer that has begun is read within that time too.             *)
(***************************************************************************)
EXTENDS Naturals

CONSTANTS
  Caller,    \* requests to CDEK that may be under way at the same time
  Life,      \* expires_in of a token
  Margin,    \* the 60 seconds by which the cache gives a token up early
  Timeout,   \* CDEK_REQUEST_TIMEOUT_MS
  MaxTime    \* how long TLC lets time pass (a bound)

\* A token outlives the request for it and the request it is for, and the margin
\* is wide enough for both: 10, 10 and 60 seconds, of 3600.
ASSUME TokenCacheAssumption ==
  /\ Life \in Nat /\ Margin \in Nat /\ Timeout \in Nat /\ MaxTime \in Nat
  /\ 2 * Timeout < Life /\ 2 * Timeout <= Margin /\ Margin <= Life

VARIABLES
  now,      \* the time
  cached,   \* cachedToken, by the time it dies at, and tokenExpiresAt
  call      \* the requests under way

tokenVars == <<now, cached, call>>

-------------------------------------------------------------------------------
Token == [dies : Nat, expiresAt : Nat]

\* "asking" and "issued": the request for a token, before and after CDEK made
\* one; "sent": the request itself.  since: when fetchCdek was called.
Call == [step : {"idle", "asking", "issued", "sent"}, since : Nat, token : Nat]

NoToken == [dies |-> 0, expiresAt |-> 0]
NoCall  == [step |-> "idle", since |-> 0, token |-> 0]

TokenInit ==
  /\ now = 0
  /\ cached = NoToken
  /\ call = [c \in Caller |-> NoCall]

\* getCdekToken up to its own request, if it makes one.
UseOrAsk(c) ==
  /\ call[c].step = "idle"
  /\ call' = [call EXCEPT ![c] =
                IF cached.expiresAt > now
                THEN [step |-> "sent", since |-> now, token |-> cached.dies]
                ELSE [step |-> "asking", since |-> now, token |-> 0]]
  /\ UNCHANGED <<now, cached>>

\* CDEK makes a token; its answer is on the way.
TokenIssued(c) ==
  /\ call[c].step = "asking"
  /\ call' = [call EXCEPT ![c] =
                [step |-> "issued", since |-> @.since, token |-> now + Life]]
  /\ UNCHANGED <<now, cached>>

\* Mutant: the margin is left out.
expiryWithoutMargin(received) == received + Life
expiry(received) == (received + Life) - Margin

\* The rest of getCdekToken, whatever is cached by now, and the request.
TokenReceived(c) ==
  /\ call[c].step = "issued"
  /\ cached' = [dies |-> call[c].token, expiresAt |-> expiry(now)]
  /\ call' = [call EXCEPT ![c] = [step |-> "sent", since |-> now, token |-> @.token]]
  /\ UNCHANGED now

\* suggestCdekCities, suggestCdekOffices, suggestCdekDeliveryPrice,
\* fetchCdekShipment or createCdekOrder is answered, refused or aborted; or the
\* request for the token is.
CallEnds(c) ==
  /\ call[c].step # "idle"
  /\ call' = [call EXCEPT ![c] = NoCall]
  /\ UNCHANGED <<now, cached>>

\* The process starts again, with neither token nor requests.
TokenRestart ==
  /\ cached' = NoToken
  /\ call' = [c \in Caller |-> NoCall]
  /\ UNCHANGED now

\* Nothing is under way for longer than the timeout: fetchCdek aborts it first.
TimePasses ==
  /\ now < MaxTime
  /\ \A c \in Caller : call[c].step # "idle" => now < call[c].since + Timeout
  /\ now' = now + 1
  /\ UNCHANGED <<cached, call>>

TokenNext ==
  \/ \E c \in Caller : UseOrAsk(c) \/ TokenIssued(c) \/ TokenReceived(c) \/ CallEnds(c)
  \/ TokenRestart \/ TimePasses

TokenSpec == TokenInit /\ [][TokenNext]_tokenVars

-------------------------------------------------------------------------------
\* Properties

TokenTypeOK == now \in Nat /\ cached \in Token /\ call \in [Caller -> Call]

\* At whatever moment CDEK gets a request, its token is alive, though it was
\* cached some time after it was made, perhaps over a younger one, and is used
\* some time after it was looked at (getCdekToken, fetchCdek).
NoDeadToken == \A c \in Caller : call[c].step = "sent" => now < call[c].token

-------------------------------------------------------------------------------
\* The inductive invariant behind NoDeadToken

CallInv(c) ==
  /\ call[c].step # "idle" => call[c].since <= now /\ now <= call[c].since + Timeout
  /\ call[c].step = "issued" => call[c].since + Life <= call[c].token
  /\ call[c].step = "sent" => call[c].since + Timeout < call[c].token

TokenInv ==
  /\ TokenTypeOK
  /\ cached.expiresAt = 0 \/ cached.expiresAt + Margin <= cached.dies + Timeout
  /\ \A c \in Caller : CallInv(c)
===============================================================================

----------------------------- MODULE RateLimit -----------------------------
(***************************************************************************)
(* RateLimitMiddleware: one counter per user or address and path, kept in  *)
(* the cache.  The middleware gets the counter, refuses the request if the *)
(* limit is reached, and else sets the counter one higher with a new time  *)
(* to live before it lets the request pass.  Get and set are two calls.    *)
(* Time is what is left to live, so that it has no end.                    *)
(***************************************************************************)
EXTENDS Integers

CONSTANTS
  Senders,   \* what sends requests to the path
  Limit,     \* RATE_LIMIT
  Window     \* RATE_LIMIT_WINDOW, in ticks

ASSUME RateLimitAssumption == Limit \in Nat \ {0} /\ Window \in Nat \ {0}

VARIABLES
  counter,  \* the value under the key
  left,     \* ticks until it expires
  current,  \* what a request has got and not yet set, or Nothing
  streak    \* history: requests let pass, none of them a window after the last

limiter == <<counter, left, current, streak>>

Nothing == -1

LimiterInit ==
  /\ counter = 0
  /\ left = 0
  /\ current = [s \in Senders |-> Nothing]
  /\ streak = 0

\* cache.get(key, 0)
Count == IF left > 0 THEN counter ELSE 0

\* Mutant: a request that is refused starts the window again.
RefuseAgain(s) ==
  /\ Count >= Limit
  /\ left' = Window
  /\ UNCHANGED <<counter, current, streak>>

\* 429, and the counter stays as it is.
Refuse(s) ==
  /\ Count >= Limit
  /\ UNCHANGED limiter

Get(s) ==
  /\ Count < Limit
  /\ current' = [current EXCEPT ![s] = Count]
  /\ UNCHANGED <<counter, left, streak>>

\* Mutant: the counter goes on from its last value, expired or not.
PassOnOldCount(s) ==
  /\ current[s] # Nothing
  /\ counter' = counter + 1
  /\ left' = Window
  /\ current' = [current EXCEPT ![s] = Nothing]
  /\ streak' = IF left = 0 THEN 1 ELSE IF streak < Limit THEN streak + 1 ELSE streak

\* cache.set(key, current + 1, window)
Pass(s) ==
  /\ current[s] # Nothing
  /\ counter' = current[s] + 1
  /\ left' = Window
  /\ current' = [current EXCEPT ![s] = Nothing]
  /\ streak' = IF left = 0 THEN 1 ELSE IF streak < Limit THEN streak + 1 ELSE streak

\* The set follows the get within the tick.
LimiterTick ==
  /\ \A s \in Senders : current[s] = Nothing
  /\ left' = IF left > 0 THEN left - 1 ELSE 0
  /\ UNCHANGED <<counter, current, streak>>

LimiterTypeOK ==
  /\ counter \in 0..Limit /\ left \in 0..Window
  /\ current \in [Senders -> {Nothing} \cup 0..Limit - 1]
  /\ streak \in 0..Limit

\* A request is refused only when the limit was reached by requests that really
\* passed, each within a window of the one before: overlapping gets and sets
\* may lose some from the count but never add any.
RefusedForCause == Count >= Limit => streak >= Limit
=============================================================================

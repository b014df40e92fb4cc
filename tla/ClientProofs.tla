---------------------------- MODULE ClientProofs ----------------------------
(***************************************************************************)
(* Theorems about Client for every set of mutations and runs, every limit, *)
(* window and number of retries, online events, reloads, failing writes.  *)
(***************************************************************************)
EXTENDS Client, TLAPS

\* Steps of the limiter, as the rest of the client takes them.
LimiterNext ==
  LimiterTick \/ \E s \in Senders : Get(s) \/ Pass(s)

\* What is counted has passed, and what a request has got is no more.
Backed(n) == n <= IF left > 0 THEN streak ELSE 0

LimiterInv ==
  /\ LimiterTypeOK
  /\ left > 0 => counter <= streak
  /\ \A s \in Senders : current[s] # Nothing => Backed(current[s])

LEMMA LimiterStep ==
  ASSUME LimiterInv, LimiterNext
  PROVE  LimiterInv'
<1> USE RateLimitAssumption DEF LimiterInv, LimiterTypeOK, Backed, Nothing, limiter
<1>1. CASE LimiterTick
  BY <1>1 DEF LimiterTick
<1>2. ASSUME NEW s \in Senders, Get(s)
      PROVE  LimiterInv'
  BY <1>2 DEF Get, Count
<1>3. ASSUME NEW s \in Senders, Pass(s)
      PROVE  LimiterInv'
  <2>1. current[s] \in 0..Limit - 1 /\ Backed(current[s])
    BY <1>3 DEF Pass
  <2>2. counter' \in 0..Limit /\ left' = Window /\ streak' \in 1..Limit /\ counter' <= streak'
    <3>1. CASE left = 0
      BY <1>3, <2>1, <3>1 DEF Pass
    <3>2. CASE left > 0 /\ streak < Limit
      BY <1>3, <2>1, <3>2 DEF Pass
    <3>3. CASE left > 0 /\ streak >= Limit
      BY <1>3, <2>1, <3>3 DEF Pass
    <3>4. QED
      BY <3>1, <3>2, <3>3
  <2>3. streak' >= IF left > 0 THEN streak ELSE 0
    BY <1>3 DEF Pass
  <2>4. current' = [current EXCEPT ![s] = Nothing]
    BY <1>3 DEF Pass
  <2>5. QED
    BY <2>2, <2>3, <2>4
<1>4. QED
  BY <1>1, <1>2, <1>3 DEF LimiterNext

LEMMA LimiterStutter ==
  ASSUME LimiterInv, UNCHANGED limiter
  PROVE  LimiterInv'
  BY DEF LimiterInv, LimiterTypeOK, Backed, limiter

LEMMA LimiterInit_ == ASSUME LimiterInit PROVE LimiterInv
  BY RateLimitAssumption DEF LimiterInit, LimiterInv, LimiterTypeOK, Backed, Nothing

\* Whatever the client does, the limiter makes one of its own steps or none.
LEMMA StepsOfLimiter ==
  ASSUME [Next]_vars
  PROVE  LimiterNext \/ UNCHANGED limiter
<1>1. Mutations \subseteq Senders /\ Runs \subseteq Senders
  BY ClientAssumption
<1>2. ASSUME NEW m \in Mutations, Call(m) \/ Mutation(m)
      PROVE  LimiterNext \/ UNCHANGED limiter
  BY <1>1, <1>2
     DEF LimiterNext, Call, Mutation, SendOnline, BeginQueueing, QueueRequest, LimiterGet,
         LimiterPass, Throttled, SendAgain, Answered, Error, Unreachable, Refuse
<1>3. ASSUME NEW r \in Runs, GoOnline(r) \/ Run(r)
      PROVE  LimiterNext \/ UNCHANGED limiter
  BY <1>1, <1>3
     DEF LimiterNext, GoOnline, Run, Fetch, FetchGet, FetchPass, FetchOk, RemoveQueuedRequest,
         FetchFails, FetchRefused, RemovalFails, CatchFails, Refuse
<1>4. QED
  BY <1>2, <1>3 DEF LimiterNext, Next, GoOffline, Reload, Tick, vars

\* RateLimitMiddleware refuses a request only when as many as the limit have
\* passed, each within a window of the one before, however gets and sets overlap.
THEOREM RefusalsAreDue == Spec => []RefusedForCause
<1>1. Init => LimiterInv
  BY LimiterInit_ DEF Init
<1>2. LimiterInv /\ [Next]_vars => LimiterInv'
  BY LimiterStep, LimiterStutter, StepsOfLimiter
<1>3. LimiterInv => RefusedForCause
  BY RateLimitAssumption DEF LimiterInv, LimiterTypeOK, RefusedForCause, Count
<1>4. QED
  BY <1>1, <1>2, <1>3, PTL DEF Spec

-----------------------------------------------------------------------------
(* Where a mutation and a run can be                                       *)

\* A run sends what is before it, and is counted only while it does; a mutation
\* that began has been called.
Positions ==
  /\ \A m \in Mutations : phase[m] = "idle" <=> calls[m] = 0
  /\ \A r \in Runs : fetching[r] # NoEntry => fetching[r] \in Before(r)
  /\ \A r \in Runs : reached[r] => fetching[r] # NoEntry
  /\ \A r \in Runs : ok[r] => reached[r]
  /\ \A r \in Runs : current[r] # Nothing => fetching[r] # NoEntry /\ ~reached[r]

Shape == TypeOK /\ Positions

LEMMA LimiterTypes ==
  ASSUME LimiterInv, [Next]_vars
  PROVE  LimiterTypeOK'
  BY LimiterStep, LimiterStutter, StepsOfLimiter DEF LimiterInv

LEMMA ShapeOfMutation ==
  ASSUME Shape, LimiterTypeOK', NEW m \in Mutations, Call(m) \/ Mutation(m)
  PROVE  Shape'
<1>1. m \in Senders /\ m \notin Runs
  BY ClientAssumption
<1>2. UNCHANGED <<environment, running, accepted, failures, overlapped, kept>>
  BY DEF Call, Mutation, SendOnline, BeginQueueing, QueueRequest, LimiterGet, LimiterPass,
         Throttled, SendAgain, Answered, Error, Unreachable, history
<1>3. \A s \in Senders : s # m => current'[s] = current[s]
  BY DEF Call, Mutation, SendOnline, BeginQueueing, QueueRequest, LimiterGet, LimiterPass,
         Throttled, SendAgain, Answered, Error, Unreachable, Get, Pass, Refuse, limiter,
         Shape, TypeOK, LimiterTypeOK
<1>4. /\ phase' \in [Mutations -> Phases]
      /\ calls' \in [Mutations -> 0..MaxCalls]
      /\ \A n \in Mutations : phase'[n] = "idle" <=> calls'[n] = 0
  <2> USE DEF Move, Phases, MaxCalls, Shape, TypeOK, Positions
  <2>1. CASE Call(m)
    BY <2>1 DEF Call
  <2>2. CASE LimiterGet(m)
    BY <2>2 DEF LimiterGet, screen
  <2>3. CASE SendOnline(m) \/ BeginQueueing(m) \/ LimiterPass(m) \/ Throttled(m)
                           \/ SendAgain(m) \/ Answered(m)
    BY <2>3 DEF SendOnline, BeginQueueing, LimiterPass, Throttled, SendAgain, Answered
  <2>4. CASE QueueRequest(m) \/ Error(m) \/ Unreachable(m)
    <3>1. PICK from \in {"queueing", "passed", "sent"} : Reject(m, from)
      BY <2>4 DEF QueueRequest, Error, Unreachable
    <3>2. QED
      BY <3>1 DEF Reject
  <2>5. QED
    BY <2>1, <2>2, <2>3, <2>4 DEF Mutation
<1>5. wait' \in [Mutations -> 0..RetryAfter]
  BY ClientAssumption
     DEF Call, Mutation, SendOnline, BeginQueueing, QueueRequest, LimiterGet, LimiterPass,
         Throttled, SendAgain, Answered, Error, Unreachable, screen, Shape, TypeOK
<1>6. /\ queue' \in [Entries -> {Nothing} \cup 0..MaxRetries]
      /\ queued' \subseteq Entries
  <2>1. CASE QueueRequest(m)
    <3>1. calls[m] \in 1..MaxCalls
      BY <2>1 DEF QueueRequest, Reject, Move, Shape, TypeOK, Positions, MaxCalls
    <3>2. <<m, calls[m]>> \in Entries
      BY <3>1 DEF Entries
    <3> DEFINE e == <<m, calls[m]>>
    <3>3. queue' = [queue EXCEPT ![e] = 0] /\ queued' = queued \cup {e} /\ e \in Entries
      BY <2>1, <3>2 DEF QueueRequest
    <3> HIDE DEF e
    <3>4. QED
      BY <3>3, ClientAssumption DEF Shape, TypeOK
  <2>2. CASE ~QueueRequest(m)
    <3>1. UNCHANGED <<queue, queued>>
      BY <2>2 DEF Call, Mutation, SendOnline, BeginQueueing, LimiterGet, LimiterPass,
           Throttled, SendAgain, Answered, Error, Unreachable, history
    <3>2. QED
      BY <3>1 DEF Shape, TypeOK
  <2>3. QED
    BY <2>1, <2>2
<1>7. \A r \in Runs : Before(r)' = Before(r) /\ current'[r] = current[r]
  BY <1>1, <1>2, <1>3, ClientAssumption DEF Before, running
<1>8. Positions'
  BY <1>2, <1>4, <1>7 DEF Positions, running, Shape
<1>9. TypeOK'
  BY <1>2, <1>4, <1>5, <1>6 DEF TypeOK, running, environment, Shape
<1>10. QED
  BY <1>8, <1>9 DEF Shape

\* What it means for the rest to go on to the next entry.
LEMMA EntryDone ==
  ASSUME Shape, NEW r \in Runs, fetching[r] # NoEntry, NextEntry(r)
  PROVE  /\ fetching[r] \in Entries /\ fetching[r] \in Before(r)
         /\ snapshot' \in [Runs -> [Entries -> {Nothing} \cup 0..MaxRetries]]
         /\ \A s \in Runs, e \in Entries :
              snapshot'[s][e] = IF s = r /\ e = fetching[r] THEN Nothing ELSE snapshot[s][e]
         /\ fetching' = [fetching EXCEPT ![r] = NoEntry]
         /\ reached' = [reached EXCEPT ![r] = FALSE]
         /\ ok' = [ok EXCEPT ![r] = FALSE]
<1>1. fetching[r] \in Entries /\ fetching[r] \in Before(r)
  BY DEF Shape, TypeOK, Positions
<1>2. snapshot' = [snapshot EXCEPT ![r] = [snapshot[r] EXCEPT ![fetching[r]] = Nothing]]
  BY DEF NextEntry
<1>3. snapshot[r] \in [Entries -> {Nothing} \cup 0..MaxRetries]
  BY DEF Shape, TypeOK
<1>4. QED
  BY <1>1, <1>2, <1>3 DEF NextEntry, Shape, TypeOK

\* History of what was accepted and not removed.
LEMMA KeepKeeps ==
  ASSUME Shape, NEW runs
  PROVE  /\ Keep(runs) \in [Entries -> BOOLEAN]
         /\ \A e \in Entries : Keep(runs)[e] <=> kept[e] \/ \E r \in runs : ok[r] /\ fetching[r] = e
  BY DEF Keep, Shape, TypeOK

LEMMA ShapeOfRun ==
  ASSUME Shape, LimiterTypeOK', NEW r \in Runs, GoOnline(r) \/ Run(r)
  PROVE  Shape'
<1> USE DEF Shape
<1>1. r \in Senders /\ NoEntry \in {NoEntry} \cup Entries
  BY ClientAssumption
<1>2. CASE GoOnline(r)
  <2>1. /\ UNCHANGED <<limiter, screen, fetching, reached, ok, queue, queued, accepted>>
        /\ UNCHANGED <<failures, kept, reloads, faults>>
        /\ snapshot' = [snapshot EXCEPT ![r] = queue]
        /\ online' = TRUE /\ onlines' = onlines + 1 /\ onlines < MaxOnline
        /\ Before(r) = {}
    BY <1>2 DEF GoOnline, ProcessQueue
  <2>2. overlapped' \in [Entries -> BOOLEAN]
    BY <1>2 DEF GoOnline, ProcessQueue, TypeOK
  <2>3. TypeOK'
    BY <2>1, <2>2, ClientAssumption DEF TypeOK, screen, limiter, LimiterTypeOK
  <2>4. fetching[r] = NoEntry
    BY <2>1 DEF Positions
  <2>5. \A s \in Runs : s # r => Before(s)' = Before(s)
    BY <2>1 DEF Before, TypeOK
  <2>6. Positions'
    BY <2>1, <2>4, <2>5 DEF Positions, screen, limiter
  <2>7. QED
    BY <2>3, <2>6
<1>3. CASE Fetch(r)
  <2>1. PICK e \in Before(r) : fetching' = [fetching EXCEPT ![r] = e]
    BY <1>3 DEF Fetch
  <2>2. e \in Entries /\ fetching[r] = NoEntry
    BY <1>3, <2>1 DEF Before, Fetch
  <2>3. UNCHANGED <<limiter, environment, screen, queue, snapshot, reached, ok, history>>
    BY <1>3 DEF Fetch
  <2>4. TypeOK'
    BY <2>1, <2>2, <2>3 DEF TypeOK, screen, limiter, environment, history
  <2>5. \A s \in Runs : Before(s)' = Before(s)
    BY <2>3 DEF Before
  <2>6. Positions'
    BY <2>1, <2>2, <2>3, <2>5 DEF Positions, screen, limiter, TypeOK
  <2>7. QED
    BY <2>4, <2>6
<1>4. CASE FetchGet(r) \/ FetchPass(r)
  <2>1. /\ UNCHANGED <<environment, screen, queue, snapshot, fetching, ok, history>>
        /\ \A s \in Senders : s # r => current'[s] = current[s]
    BY <1>4 DEF FetchGet, FetchPass, Get, Pass, running, TypeOK, LimiterTypeOK
  <2>2. \A s \in Runs : Before(s)' = Before(s)
    BY <2>1 DEF Before
  <2>3. CASE FetchGet(r)
    <3>1. UNCHANGED reached /\ fetching[r] # NoEntry /\ ~reached[r]
      BY <2>3 DEF FetchGet, running
    <3>2. QED
      BY <2>1, <2>2, <3>1, ClientAssumption
         DEF TypeOK, Positions, screen, environment, history
  <2>4. CASE FetchPass(r)
    <3>1. reached' = [reached EXCEPT ![r] = TRUE] /\ current[r] # Nothing /\ current'[r] = Nothing
      BY <1>1, <2>4 DEF FetchPass, Pass, TypeOK, LimiterTypeOK
    <3>2. QED
      BY <2>1, <2>2, <3>1, ClientAssumption
         DEF TypeOK, Positions, screen, environment, history
  <2>5. QED
    BY <1>4, <2>3, <2>4
<1>5. CASE \/ RemoveQueuedRequest(r) \/ RemovalFails(r)
           \/ FetchFails(r) \/ FetchRefused(r)
  <2>1. /\ NextEntry(r) /\ fetching[r] # NoEntry
        /\ UNCHANGED <<limiter, screen, online, onlines, reloads, queued, accepted, overlapped>>
    BY <1>5 DEF RemoveQueuedRequest, RemovalFails, FetchFails, FetchRefused, Failed, PutRetried,
                Fault, Refuse, Positions, environment, history
  <2>2. /\ fetching[r] \in Entries /\ fetching[r] \in Before(r)
        /\ snapshot' \in [Runs -> [Entries -> {Nothing} \cup 0..MaxRetries]]
        /\ \A s \in Runs, e \in Entries :
             snapshot'[s][e] = IF s = r /\ e = fetching[r] THEN Nothing ELSE snapshot[s][e]
        /\ fetching' = [fetching EXCEPT ![r] = NoEntry]
        /\ reached' = [reached EXCEPT ![r] = FALSE]
        /\ ok' = [ok EXCEPT ![r] = FALSE]
    BY <2>1, EntryDone
  <2>3. current[r] = Nothing
    BY <1>5 DEF RemoveQueuedRequest, RemovalFails, FetchFails, FetchRefused, Positions
  <2>4. snapshot[r][fetching[r]] \in 0..MaxRetries
    BY <2>2 DEF Before, TypeOK
  <2>5. Retried(snapshot[r][fetching[r]]) \in {Nothing} \cup 0..MaxRetries
    BY <2>4, ClientAssumption DEF Retried
  <2>6. /\ queue' \in [Entries -> {Nothing} \cup 0..MaxRetries]
        /\ failures' \in [Entries -> 0..MaxRetries + 1]
        /\ kept' \in [Entries -> BOOLEAN] /\ faults' \in 0..MaxFaults
    <3>1. CASE RemoveQueuedRequest(r)
      BY <2>2, <3>1 DEF RemoveQueuedRequest, TypeOK, environment, history
    <3>2. CASE RemovalFails(r)
      <4>1. queue' = [queue EXCEPT ![fetching[r]] = Retried(snapshot[r][fetching[r]])]
        BY <3>2 DEF RemovalFails, PutRetried
      <4>2. kept' \in [Entries -> BOOLEAN] /\ UNCHANGED failures
        BY <3>2, KeepKeeps DEF RemovalFails
      <4>3. faults' \in 0..MaxFaults
        BY <3>2, ClientAssumption DEF RemovalFails, Fault, TypeOK
      <4>4. QED
        BY <2>5, <4>1, <4>2, <4>3 DEF TypeOK
    <3>3. CASE FetchFails(r) \/ FetchRefused(r)
      <4>1. UNCHANGED <<kept, faults>>
        BY <3>3 DEF FetchFails, FetchRefused, Failed, environment
      <4>2. queue' = [queue EXCEPT ![fetching[r]] = Retried(snapshot[r][fetching[r]])]
        BY <3>3 DEF FetchFails, FetchRefused, Failed, PutRetried
      <4>3. failures' = [failures EXCEPT ![fetching[r]] = IF @ <= MaxRetries THEN @ + 1 ELSE @]
        BY <3>3 DEF FetchFails, FetchRefused, Failed
      <4>4. failures' \in [Entries -> 0..MaxRetries + 1]
        BY <2>2, <4>3, ClientAssumption DEF TypeOK
      <4>5. QED
        BY <2>5, <4>1, <4>2, <4>4 DEF TypeOK
    <3>4. QED
      BY <1>5, <3>1, <3>2, <3>3
  <2>7. TypeOK'
    BY <2>1, <2>2, <2>6 DEF TypeOK, screen
  <2>8. \A s \in Runs : s # r => Before(s)' = Before(s)
    BY <2>2 DEF Before
  <2>9. Positions'
    BY <2>1, <2>2, <2>3, <2>8 DEF Positions, screen, limiter, TypeOK
  <2>10. QED
    BY <2>7, <2>9
<1>6. CASE FetchOk(r)
  <2>1. /\ UNCHANGED <<limiter, environment, screen, queue, snapshot, fetching, reached>>
        /\ UNCHANGED <<queued, failures, overlapped, kept>>
        /\ ok' = [ok EXCEPT ![r] = TRUE] /\ reached[r]
        /\ accepted' = [accepted EXCEPT ![fetching[r]] = IF @ < 2 THEN @ + 1 ELSE @]
    BY <1>6 DEF FetchOk
  <2>2. accepted' \in [Entries -> 0..2]
    BY <2>1 DEF TypeOK, Positions
  <2>3. TypeOK'
    BY <2>1, <2>2 DEF TypeOK, screen, environment, limiter, LimiterTypeOK
  <2>4. \A s \in Runs : Before(s)' = Before(s)
    BY <2>1 DEF Before
  <2>5. Positions'
    BY <2>1, <2>4 DEF Positions, screen, limiter, TypeOK
  <2>6. QED
    BY <2>3, <2>5
<1>7. CASE CatchFails(r)
  <2>1. /\ UNCHANGED <<limiter, screen, online, onlines, reloads, queue, queued, accepted>>
        /\ UNCHANGED <<failures, overlapped>>
        /\ snapshot' = [snapshot EXCEPT ![r] = Empty]
        /\ fetching' = [fetching EXCEPT ![r] = NoEntry]
        /\ reached' = [reached EXCEPT ![r] = FALSE]
        /\ ok' = [ok EXCEPT ![r] = FALSE]
        /\ current[r] = Nothing
    BY <1>7 DEF CatchFails, Fault
  <2>2. kept' \in [Entries -> BOOLEAN]
    BY <1>7, KeepKeeps DEF CatchFails
  <2>3. faults' \in 0..MaxFaults
    BY <1>7, ClientAssumption DEF CatchFails, Fault, TypeOK
  <2>4. snapshot' \in [Runs -> [Entries -> {Nothing} \cup 0..MaxRetries]]
    BY <2>1 DEF TypeOK, Empty
  <2>5. TypeOK'
    BY <2>1, <2>2, <2>3, <2>4 DEF TypeOK, screen, limiter, LimiterTypeOK
  <2>6. \A s \in Runs : s # r => Before(s)' = Before(s)
    BY <2>1 DEF Before, TypeOK
  <2>7. Positions'
    BY <2>1, <2>6 DEF Positions, screen, limiter, TypeOK
  <2>8. QED
    BY <2>5, <2>7
<1>8. QED
  BY <1>2, <1>3, <1>4, <1>5, <1>6, <1>7 DEF Run

LEMMA ShapeOfRest ==
  ASSUME Shape, LimiterTypeOK', GoOffline \/ Reload \/ Tick \/ UNCHANGED vars
  PROVE  Shape'
<1> USE DEF Shape
<1>1. CASE GoOffline
  BY <1>1 DEF GoOffline, TypeOK, Positions, Before, limiter, screen, running, history
<1>2. CASE Reload
  <2>1. TypeOK'
    <3>1. reloads' \in 0..MaxReloads
      BY <1>2, ClientAssumption DEF Reload, TypeOK
    <3>2. kept' \in [Entries -> BOOLEAN]
      BY <1>2, KeepKeeps DEF Reload
    <3>3. phase' \in [Mutations -> Phases]
      BY <1>2 DEF Reload, TypeOK, Phases
    <3>4. wait' \in [Mutations -> 0..RetryAfter]
      BY <1>2, ClientAssumption DEF Reload
    <3>5. snapshot' \in [Runs -> [Entries -> {Nothing} \cup 0..MaxRetries]]
      BY <1>2 DEF Reload, Empty
    <3>6. QED
      BY <1>2, <3>1, <3>2, <3>3, <3>4, <3>5 DEF Reload, TypeOK
  <2>2. \A m \in Mutations : phase'[m] = "idle" <=> phase[m] = "idle"
    BY <1>2 DEF Reload, TypeOK
  <2>3. \A r \in Runs : current'[r] = Nothing
    BY <1>2, ClientAssumption DEF Reload, limiter
  <2>4. QED
    BY <1>2, <2>1, <2>2, <2>3 DEF Reload, Positions
<1>3. CASE Tick
  <2>1. UNCHANGED <<environment, phase, calls, queue, running, history, current>>
    BY <1>3 DEF Tick, LimiterTick
  <2>2. wait' \in [Mutations -> 0..RetryAfter]
    BY <1>3, ClientAssumption DEF Tick, TypeOK
  <2>3. QED
    BY <2>1, <2>2 DEF TypeOK, Positions, Before, environment, running, history
<1>4. CASE UNCHANGED vars
  BY <1>4 DEF vars, TypeOK, Positions, Before, limiter, screen, environment, running, history
<1>5. QED
  BY <1>1, <1>2, <1>3, <1>4

LEMMA InitShape == ASSUME Init PROVE Shape
<1>1. LimiterTypeOK
  BY LimiterInit_ DEF Init, LimiterInv
<1>2. TypeOK
  BY <1>1, ClientAssumption DEF Init, TypeOK, Phases, MaxCalls, Empty
<1>3. Positions
  BY ClientAssumption DEF Init, LimiterInit, Positions
<1>4. QED
  BY <1>2, <1>3 DEF Shape

LEMMA ShapeStep ==
  ASSUME Shape, LimiterInv, [Next]_vars
  PROVE  Shape'
  BY LimiterTypes, ShapeOfMutation, ShapeOfRun, ShapeOfRest DEF Next

\* Every variable of the limiter, the screens and the queue keeps its type.
THEOREM ClientTypes == Spec => []TypeOK
<1>1. Init => LimiterInv /\ Shape
  BY LimiterInit_, InitShape DEF Init
<1>2. LimiterInv /\ Shape /\ [Next]_vars => (LimiterInv /\ Shape)'
  BY LimiterStep, LimiterStutter, StepsOfLimiter, ShapeStep
<1>3. Shape => TypeOK
  BY DEF Shape
<1>4. QED
  BY <1>1, <1>2, <1>3, PTL DEF Spec

-----------------------------------------------------------------------------
(* What the queue and the runs know of an entry                            *)

\* No count of retries is ahead of the tries that really failed, but for entries
\* that were accepted.
Counted ==
  /\ \A e \in Entries : queue[e] # Nothing => accepted[e] > 0 \/ queue[e] <= failures[e]
  /\ \A r \in Runs, e \in Entries :
       snapshot[r][e] # Nothing => accepted[e] > 0 \/ snapshot[r][e] <= failures[e]
  /\ RemovedForCause

Lone(e) ==
  \A r, s \in Runs : e \in Before(r) /\ e \in Before(s) => r = s

Gone(e) == queue[e] = Nothing /\ \A r \in Runs : e \notin Before(r)
InHand(e) == \E r \in Runs : ok[r] /\ fetching[r] = e

\* An entry is queued by one call; while it never was before two runs, one run has
\* it, and once it was accepted, only the run that has its OK in hand.
Settling ==
  /\ \A m \in Mutations, n \in 1..MaxCalls : <<m, n>> \in queued =>
       n < calls[m] \/ (n = calls[m] /\ phase[m] = "failed")
  /\ \A e \in Entries : queue[e] # Nothing \/ accepted[e] > 0 => e \in queued
  /\ \A e \in Entries, r \in Runs : e \in Before(r) => e \in queued
  /\ \A e \in Entries : InHand(e) => accepted[e] > 0
  /\ \A e \in Entries : ~overlapped[e] =>
       /\ Lone(e)
       /\ ~kept[e] /\ accepted[e] > 0 => accepted[e] = 1 /\ (Gone(e) \/ InHand(e))

LEMMA KnowledgeOfMutation ==
  ASSUME Shape, Counted, Settling, NEW m \in Mutations, Call(m) \/ Mutation(m)
  PROVE  Counted' /\ Settling'
<1>1. UNCHANGED <<running, accepted, failures, overlapped, kept>>
  BY DEF Call, Mutation, SendOnline, BeginQueueing, QueueRequest, LimiterGet, LimiterPass,
         Throttled, SendAgain, Answered, Error, Unreachable, history
<1>2. \A r \in Runs : Before(r)' = Before(r)
  BY <1>1 DEF Before, running
<1>3. \A e \in Entries : (Lone(e)' <=> Lone(e)) /\ (InHand(e)' <=> InHand(e))
  BY <1>1, <1>2 DEF Lone, InHand, running
<1>4. CASE QueueRequest(m)
  <2> DEFINE e == <<m, calls[m]>>
  <2>1. calls[m] \in 1..MaxCalls /\ phase[m] = "queueing"
    BY <1>4 DEF QueueRequest, Reject, Move, Shape, TypeOK, Positions, MaxCalls
  <2>2. e \in Entries
    BY <2>1 DEF Entries
  <2>3. e \notin queued
    BY <2>1 DEF Settling
  <2>4. queue' = [queue EXCEPT ![e] = 0] /\ queued' = queued \cup {e}
    BY <1>4 DEF QueueRequest
  <2>5. \A d \in Entries : d = e \/ queue'[d] = queue[d]
    BY <2>4 DEF Shape, TypeOK
  <2>6. queue'[e] = 0
    BY <2>2, <2>4 DEF Shape, TypeOK
  <2>7. /\ calls'[m] = IF calls[m] < MaxCalls THEN calls[m] + 1 ELSE calls[m]
        /\ phase'[m] = IF calls[m] < MaxCalls THEN "calling" ELSE "failed"
        /\ \A n \in Mutations : n = m \/ (calls'[n] = calls[n] /\ phase'[n] = phase[n])
    BY <1>4 DEF QueueRequest, Reject, Move, Shape, TypeOK
  <2>8. \A n \in Mutations, i \in 1..MaxCalls : <<n, i>> \in queued' =>
          i < calls'[n] \/ (i = calls'[n] /\ phase'[n] = "failed")
    <3> SUFFICES ASSUME NEW n \in Mutations, NEW i \in 1..MaxCalls, <<n, i>> \in queued'
                 PROVE  i < calls'[n] \/ (i = calls'[n] /\ phase'[n] = "failed")
      OBVIOUS
    <3>1. CASE <<n, i>> \in queued
      <4>1. i < calls[n] \/ (i = calls[n] /\ phase[n] = "failed")
        BY <3>1 DEF Settling
      <4>2. QED
        BY <2>1, <2>7, <4>1 DEF MaxCalls, Shape, TypeOK
    <3>2. CASE <<n, i>> = e
      <4>1. n = m /\ i = calls[m]
        BY <3>2
      <4>2. QED
        BY <2>1, <2>7, <4>1 DEF MaxCalls
    <3>3. QED
      BY <2>4, <3>1, <3>2
  <2> HIDE DEF e
  <2>9. Counted'
    BY <1>1, <2>2, <2>4, <2>5, <2>6
       DEF Counted, RemovedForCause, Nothing, running, Shape, TypeOK
  <2>10. accepted[e] = 0
    BY <2>2, <2>3 DEF Settling, Shape, TypeOK
  <2>11. Settling'
    BY <1>1, <1>2, <1>3, <2>2, <2>4, <2>5, <2>8, <2>10 DEF Settling, Gone
  <2>12. QED
    BY <2>9, <2>11
<1>5. CASE ~QueueRequest(m)
  <2>1. UNCHANGED <<queue, queued>>
    BY <1>5 DEF Call, Mutation, SendOnline, BeginQueueing, LimiterGet, LimiterPass,
         Throttled, SendAgain, Answered, Error, Unreachable, history
  <2>2. /\ \A n \in Mutations : calls'[n] \in Int /\ calls'[n] >= calls[n]
        /\ \A n \in Mutations : phase[n] = "failed" => calls'[n] = calls[n] /\ phase'[n] = "failed"
    <3> USE DEF Move, MaxCalls, Shape, TypeOK, Positions
    <3>1. CASE Call(m)
      BY <3>1 DEF Call
    <3>2. CASE LimiterGet(m)
      BY <3>2 DEF LimiterGet, screen
    <3>3. CASE SendOnline(m) \/ BeginQueueing(m) \/ LimiterPass(m) \/ Throttled(m)
                             \/ SendAgain(m) \/ Answered(m)
      <4>1. UNCHANGED calls /\ phase[m] # "failed"
        BY <3>3 DEF SendOnline, BeginQueueing, LimiterPass, Throttled, SendAgain, Answered
      <4>2. \A n \in Mutations : n # m => phase'[n] = phase[n]
        BY <3>3 DEF SendOnline, BeginQueueing, LimiterPass, Throttled, SendAgain, Answered
      <4>3. QED
        BY <4>1, <4>2
    <3>4. CASE Error(m) \/ Unreachable(m)
      <4>1. PICK from \in {"passed", "sent"} : Reject(m, from)
        BY <3>4 DEF Error, Unreachable
      <4>2. QED
        BY <4>1 DEF Reject
    <3>5. QED
      BY <1>5, <3>1, <3>2, <3>3, <3>4 DEF Mutation
  <2>3. \A n \in Mutations, i \in 1..MaxCalls : <<n, i>> \in queued' =>
          i < calls'[n] \/ (i = calls'[n] /\ phase'[n] = "failed")
    <3> SUFFICES ASSUME NEW n \in Mutations, NEW i \in 1..MaxCalls, <<n, i>> \in queued'
                 PROVE  i < calls'[n] \/ (i = calls'[n] /\ phase'[n] = "failed")
      OBVIOUS
    <3>1. <<n, i>> \in queued
      BY <2>1
    <3>2. i < calls[n] \/ (i = calls[n] /\ phase[n] = "failed")
      BY <3>1 DEF Settling
    <3>3. calls[n] \in Int /\ i \in Int
      BY DEF Shape, TypeOK, MaxCalls
    <3>4. QED
      BY <2>2, <3>2, <3>3
  <2>4. Counted'
    BY <1>1, <2>1 DEF Counted, RemovedForCause, running
  <2>5. Settling'
    BY <1>1, <1>2, <1>3, <2>1, <2>3 DEF Settling, Gone
  <2>6. QED
    BY <2>4, <2>5
<1>6. QED
  BY <1>4, <1>5

LEMMA KnowledgeOfRun ==
  ASSUME Shape, Counted, Settling, NEW r \in Runs, GoOnline(r) \/ Run(r)
  PROVE  Counted' /\ Settling'
<1>1. UNCHANGED <<queued, calls, phase>>
  BY DEF GoOnline, Run, Fetch, FetchGet, FetchPass, FetchOk, RemoveQueuedRequest, FetchFails,
         FetchRefused, RemovalFails, CatchFails, Failed, screen, history
<1>2. CASE GoOnline(r)
  <2>1. /\ snapshot' = [snapshot EXCEPT ![r] = queue]
        /\ overlapped' = [e \in Entries |->
             \/ overlapped[e]
             \/ queue[e] # Nothing /\ \E s \in Runs \ {r} : e \in Before(s)]
        /\ UNCHANGED <<queue, accepted, failures, fetching, ok, kept>>
        /\ Before(r) = {}
    BY <1>2 DEF GoOnline, ProcessQueue
  <2>2. /\ \A s \in Runs : s # r => Before(s)' = Before(s)
        /\ \A e \in Entries : e \in Before(r)' <=> queue[e] # Nothing
        /\ \A e \in Entries : InHand(e)' <=> InHand(e)
    BY <2>1 DEF Before, InHand, Shape, TypeOK
  <2>3. Counted'
    BY <1>1, <2>1 DEF Counted, RemovedForCause, Shape, TypeOK
  <2>4. ASSUME NEW e \in Entries, ~overlapped'[e]
        PROVE  /\ Lone(e)'
               /\ ~kept'[e] /\ accepted'[e] > 0
                    => accepted'[e] = 1 /\ (Gone(e)' \/ InHand(e)')
    <3>1. ~overlapped[e] /\ (queue[e] # Nothing => \A s \in Runs \ {r} : e \notin Before(s))
      BY <2>1, <2>4
    <3>2. Lone(e)'
      BY <2>2, <3>1 DEF Lone, Settling
    <3>3. Gone(e) => Gone(e)'
      BY <2>1, <2>2 DEF Gone
    <3>4. QED
      BY <2>1, <2>2, <3>1, <3>2, <3>3 DEF Settling
  <2>5. \A e \in Entries, s \in Runs : e \in Before(s)' => e \in queued
    BY <2>2 DEF Settling
  <2>6. QED
    BY <1>1, <2>1, <2>2, <2>3, <2>4, <2>5 DEF Settling
<1>3. CASE Fetch(r) \/ FetchGet(r) \/ FetchPass(r)
  <2>1. UNCHANGED <<queue, snapshot, accepted, failures, overlapped, kept, ok>>
    BY <1>3 DEF Fetch, FetchGet, FetchPass, running, history
  <2>2. \A s \in Runs : Before(s)' = Before(s)
    BY <2>1 DEF Before
  <2>3. \A s \in Runs : ok[s] => fetching'[s] = fetching[s]
    BY <1>3 DEF Fetch, FetchGet, FetchPass, running, Shape, TypeOK, Positions
  <2>4. \A e \in Entries : InHand(e)' <=> InHand(e)
    BY <2>1, <2>3 DEF InHand
  <2>5. QED
    BY <1>1, <2>1, <2>2, <2>4 DEF Counted, RemovedForCause, Settling, Lone, Gone
<1>4. CASE FetchOk(r)
  <2>0. PICK e \in Entries : e = fetching[r]
    BY <1>4 DEF FetchOk, Shape, TypeOK, Positions
  <2>1. /\ UNCHANGED <<queue, snapshot, failures, overlapped, kept, fetching>>
        /\ ok' = [ok EXCEPT ![r] = TRUE] /\ ~ok[r]
        /\ accepted' = [accepted EXCEPT ![e] = IF @ < 2 THEN @ + 1 ELSE @]
        /\ e \in Before(r)
    BY <1>4, <2>0 DEF FetchOk, Shape, TypeOK, Positions
  <2>2. /\ \A d \in Entries : accepted[d] \in 0..2
        /\ \A s \in Runs : s # r => ok'[s] = ok[s]
        /\ ok'[r] /\ \A s \in Runs : fetching[s] = e /\ ok[s] => e \in Before(s)
    BY <2>1 DEF Shape, TypeOK, Positions
  <2>3. /\ \A d \in Entries : d # e => accepted'[d] = accepted[d]
        /\ accepted'[e] = IF accepted[e] < 2 THEN accepted[e] + 1 ELSE accepted[e]
    BY <2>1 DEF Shape, TypeOK
  <2>4. \A s \in Runs : Before(s)' = Before(s)
    BY <2>1 DEF Before
  <2>5. \A d \in Entries : (InHand(d) => InHand(d)') /\ (d # e => (InHand(d)' <=> InHand(d)))
    BY <2>0, <2>1, <2>2 DEF InHand
  <2>6. InHand(e)' /\ accepted'[e] > 0 /\ \A d \in Entries : accepted[d] > 0 => accepted'[d] > 0
    BY <2>0, <2>1, <2>2, <2>3 DEF InHand
  <2>7. Counted'
    BY <1>1, <2>1, <2>6 DEF Counted, RemovedForCause
  <2>8. \A d \in Entries : queue'[d] # Nothing \/ accepted'[d] > 0 => d \in queued
    BY <2>1, <2>3 DEF Settling
  <2>9. ASSUME NEW d \in Entries, ~overlapped'[d]
        PROVE  /\ Lone(d)'
               /\ ~kept'[d] /\ accepted'[d] > 0
                    => accepted'[d] = 1 /\ (Gone(d)' \/ InHand(d)')
    <3>1. ~overlapped[d] /\ Lone(d)'
      BY <2>1, <2>4, <2>9 DEF Settling, Lone
    <3>2. CASE d # e
      BY <2>1, <2>3, <2>4, <2>5, <3>1, <3>2 DEF Settling, Gone
    <3>3. CASE d = e /\ ~kept[d]
      <4>1. ~Gone(e) /\ ~InHand(e)
        BY <2>1, <2>2, <3>1, <3>3 DEF Gone, InHand, Settling, Lone
      <4>2. accepted[e] = 0
        BY <2>1, <2>2, <3>1, <3>3, <4>1 DEF Settling
      <4>3. QED
        BY <2>3, <2>6, <3>1, <3>3, <4>2
    <3>4. QED
      BY <2>1, <3>1, <3>2, <3>3
  <2>10. Settling'
    BY <1>1, <2>1, <2>4, <2>5, <2>6, <2>8, <2>9 DEF Settling
  <2>11. QED
    BY <2>7, <2>10
<1>5. CASE \/ RemoveQueuedRequest(r) \/ RemovalFails(r)
           \/ FetchFails(r) \/ FetchRefused(r)
  <2>0. PICK e \in Entries : e = fetching[r]
    BY <1>5 DEF RemoveQueuedRequest, RemovalFails, FetchFails, FetchRefused, Shape, TypeOK, Positions
  <2>1. NextEntry(r) /\ fetching[r] # NoEntry /\ UNCHANGED <<overlapped, accepted>>
    BY <1>5 DEF RemoveQueuedRequest, RemovalFails, FetchFails, FetchRefused, Failed, PutRetried,
                Shape, Positions, history
  <2>2. /\ e \in Before(r)
        /\ \A s \in Runs, d \in Entries :
             snapshot'[s][d] = IF s = r /\ d = e THEN Nothing ELSE snapshot[s][d]
        /\ fetching' = [fetching EXCEPT ![r] = NoEntry]
        /\ ok' = [ok EXCEPT ![r] = FALSE]
    BY <2>0, <2>1, EntryDone
  <2>3. /\ snapshot[r][e] \in 0..MaxRetries /\ e \in queued
        /\ accepted[e] > 0 \/ snapshot[r][e] <= failures[e]
    BY <2>2 DEF Before, Shape, TypeOK, Counted, Settling
  <2>4. ok[r] => InHand(e)
    BY <2>0 DEF InHand
  <2>5. \A d \in Entries : /\ InHand(d)' => InHand(d)
                           /\ InHand(d) /\ d # e => InHand(d)'
    BY <2>0, <2>2 DEF InHand, Shape, TypeOK
  <2>6. \A s \in Runs : fetching[s] = e /\ ok[s] => e \in Before(s)
    BY DEF Shape, Positions
  <2>7. /\ \A d \in Entries : d # e => /\ queue'[d] = queue[d] /\ failures'[d] = failures[d]
        /\ \A d \in Entries : kept[d] => kept'[d]
        /\ \/ queue'[e] = Nothing /\ failures'[e] = failures[e] /\ ok[r]
           \/ /\ queue'[e] = Retried(snapshot[r][e]) /\ failures'[e] = failures[e]
              /\ ok[r] /\ kept'[e]
           \/ /\ queue'[e] = Retried(snapshot[r][e]) /\ ~ok[r]
              /\ failures'[e] = IF failures[e] <= MaxRetries THEN failures[e] + 1 ELSE failures[e]
    <3>1. CASE RemoveQueuedRequest(r)
      <4>1. queue' = [queue EXCEPT ![e] = Nothing] /\ UNCHANGED <<failures, kept>> /\ ok[r]
        BY <2>0, <3>1 DEF RemoveQueuedRequest, history
      <4>2. QED
        BY <2>2, <4>1 DEF Shape, TypeOK
    <3>2. CASE RemovalFails(r)
      <4>1. /\ queue' = [queue EXCEPT ![e] = Retried(snapshot[r][e])]
            /\ UNCHANGED failures /\ ok[r] /\ kept' = Keep({r})
        BY <2>0, <3>2 DEF RemovalFails, PutRetried
      <4>2. kept'[e] /\ \A d \in Entries : kept[d] => kept'[d]
        BY <2>0, <4>1, KeepKeeps
      <4>3. QED
        BY <2>2, <4>1, <4>2 DEF Shape, TypeOK
    <3>3. CASE FetchFails(r) \/ FetchRefused(r)
      <4>1. /\ queue' = [queue EXCEPT ![e] = Retried(snapshot[r][e])]
            /\ failures' = [failures EXCEPT ![e] = IF @ <= MaxRetries THEN @ + 1 ELSE @]
            /\ UNCHANGED kept /\ ~ok[r]
        BY <2>0, <3>3 DEF FetchFails, FetchRefused, Failed, PutRetried, Shape, Positions
      <4>2. QED
        BY <2>2, <4>1 DEF Shape, TypeOK
    <3>4. QED
      BY <1>5, <3>1, <3>2, <3>3
  <2>8. \A s \in Runs : Before(s)' = IF s = r THEN Before(s) \ {e} ELSE Before(s)
    BY <2>2 DEF Before
  <2>9. \A d \in Entries : /\ queue[d] \in {Nothing} \cup 0..MaxRetries
                           /\ accepted[d] \in 0..2 /\ failures[d] \in 0..MaxRetries + 1
    BY DEF Shape, TypeOK
  <2>10. ok[r] => accepted[e] > 0
    BY <2>2, <2>4 DEF Settling
  <2>11. /\ queue'[e] # Nothing => accepted[e] > 0 \/ queue'[e] <= failures'[e]
         /\ queue'[e] = Nothing => accepted[e] > 0 \/ failures'[e] > MaxRetries
         /\ failures'[e] >= failures[e]
    BY <2>2, <2>3, <2>7, <2>9, <2>10, ClientAssumption DEF Retried, Nothing
  <2>12. Counted'
    <3>1. \A d \in Entries : queue'[d] # Nothing => accepted'[d] > 0 \/ queue'[d] <= failures'[d]
      BY <2>1, <2>7, <2>11 DEF Counted
    <3>2. \A s \in Runs, d \in Entries :
            snapshot'[s][d] # Nothing => accepted'[d] > 0 \/ snapshot'[s][d] <= failures'[d]
      <4> SUFFICES ASSUME NEW s \in Runs, NEW d \in Entries, snapshot'[s][d] # Nothing,
                          ~(accepted[d] > 0)
                   PROVE  snapshot'[s][d] <= failures'[d]
        BY <2>1
      <4>1. snapshot'[s][d] = snapshot[s][d] /\ snapshot[s][d] <= failures[d]
        BY <2>2 DEF Counted
      <4>2. failures'[d] >= failures[d]
        BY <2>7, <2>9, <2>11
      <4>3. snapshot[s][d] \in Int /\ failures'[d] \in Int /\ failures[d] \in Int
        BY <2>2, <2>7, <2>9, ClientAssumption DEF Shape, TypeOK, Nothing
      <4>4. QED
        BY <4>1, <4>2, <4>3
    <3>3. RemovedForCause'
      BY <1>1, <2>1, <2>7, <2>11 DEF Counted, RemovedForCause, Shape, TypeOK
    <3>4. QED
      BY <3>1, <3>2, <3>3 DEF Counted
  <2>13. \A d \in Entries : queue'[d] # Nothing \/ accepted'[d] > 0 => d \in queued
    BY <2>1, <2>3, <2>7 DEF Settling
  <2>14. \A d \in Entries, s \in Runs : d \in Before(s)' => d \in queued
    BY <2>8 DEF Settling
  <2>15. ASSUME NEW d \in Entries, ~overlapped'[d]
         PROVE  /\ Lone(d)'
                /\ ~kept'[d] /\ accepted'[d] > 0
                     => accepted'[d] = 1 /\ (Gone(d)' \/ InHand(d)')
    <3>1. ~overlapped[d]
      BY <2>1, <2>15
    <3>2. Lone(d)'
      BY <2>8, <3>1 DEF Lone, Settling
    <3>3. CASE d # e
      <4>1. Gone(d) => Gone(d)'
        BY <2>7, <2>8, <3>3 DEF Gone
      <4>2. QED
        BY <2>1, <2>5, <2>7, <3>1, <3>2, <3>3, <4>1 DEF Settling
    <3>4. CASE d = e /\ ~kept'[e] /\ accepted[e] > 0
      <4>1. ~kept[e] /\ accepted[e] = 1 /\ (Gone(e) \/ InHand(e))
        BY <2>2, <2>7, <3>1, <3>4 DEF Settling
      <4>2. \A s \in Runs : s # r => e \notin Before(s)
        BY <2>2, <3>1, <3>4 DEF Settling, Lone
      <4>3. InHand(e)
        BY <2>2, <4>1 DEF Gone
      <4>4. PICK s \in Runs : ok[s] /\ fetching[s] = e
        BY <4>3 DEF InHand
      <4>5. s = r
        BY <2>6, <4>2, <4>4
      <4>6. queue'[e] = Nothing
        BY <2>7, <3>4, <4>4, <4>5
      <4>7. Gone(e)'
        BY <2>8, <4>2, <4>6 DEF Gone
      <4>8. QED
        BY <2>1, <3>2, <3>4, <4>1, <4>7
    <3>5. QED
      BY <2>1, <3>2, <3>3, <3>4
  <2>16. Settling'
    BY <1>1, <2>1, <2>5, <2>13, <2>14, <2>15 DEF Settling
  <2>17. QED
    BY <2>12, <2>16
<1>6. CASE CatchFails(r)
  <2>1. /\ UNCHANGED <<queue, accepted, failures, overlapped>>
        /\ snapshot' = [snapshot EXCEPT ![r] = Empty]
        /\ fetching' = [fetching EXCEPT ![r] = NoEntry]
        /\ ok' = [ok EXCEPT ![r] = FALSE]
        /\ kept' = Keep({r})
    BY <1>6 DEF CatchFails
  <2>2. /\ Before(r)' = {} /\ \A e \in Entries : snapshot'[r][e] = Nothing
        /\ \A s \in Runs : s # r => Before(s)' = Before(s) /\ snapshot'[s] = snapshot[s]
    BY <2>1 DEF Before, Empty, Shape, TypeOK
  <2>3. \A e \in Entries : /\ InHand(e)' => InHand(e)
                           /\ InHand(e) => InHand(e)' \/ kept'[e]
                           /\ kept[e] => kept'[e]
                           /\ Gone(e) => Gone(e)'
    BY <2>1, <2>2, KeepKeeps DEF InHand, Gone, Shape, TypeOK
  <2>4. Counted'
    BY <1>1, <2>1, <2>2 DEF Counted, RemovedForCause
  <2>5. \A e \in Entries : Lone(e) => Lone(e)'
    BY <2>2 DEF Lone
  <2>6. \A e \in Entries, s \in Runs : e \in Before(s)' => e \in queued
    BY <2>2 DEF Settling
  <2>7. Settling'
    BY <1>1, <2>1, <2>3, <2>5, <2>6 DEF Settling
  <2>8. QED
    BY <2>4, <2>7
<1>7. QED
  BY <1>2, <1>3, <1>4, <1>5, <1>6 DEF Run

LEMMA KnowledgeOfRest ==
  ASSUME Shape, Counted, Settling, GoOffline \/ Reload \/ Tick \/ UNCHANGED vars
  PROVE  Counted' /\ Settling'
<1>1. UNCHANGED <<calls, queue, queued, accepted, failures, overlapped>>
  BY DEF GoOffline, Reload, Tick, vars, screen, history
<1>2. CASE Reload
  <2>1. \A r \in Runs : Before(r)' = {} /\ \A e \in Entries : snapshot'[r][e] = Nothing
    BY <1>2 DEF Reload, Empty, Before
  <2>2. \A m \in Mutations : phase[m] = "failed" => phase'[m] = "failed"
    BY <1>2 DEF Reload
  <2>3. \A e \in Entries : /\ ~InHand(e)'
                           /\ InHand(e) \/ kept[e] => kept'[e]
                           /\ Gone(e) => Gone(e)'
    BY <1>1, <1>2, <2>1, KeepKeeps DEF Reload, InHand, Gone
  <2>4. Counted'
    BY <1>1, <2>1 DEF Counted, RemovedForCause
  <2>5. Settling'
    BY <1>1, <2>1, <2>2, <2>3 DEF Settling, Lone
  <2>6. QED
    BY <2>4, <2>5
<1>3. CASE GoOffline \/ Tick \/ UNCHANGED vars
  <2>1. UNCHANGED <<phase, snapshot, fetching, ok, kept>>
    BY <1>3 DEF GoOffline, Tick, vars, screen, running, history
  <2>2. \A r \in Runs : Before(r)' = Before(r)
    BY <2>1 DEF Before
  <2>3. QED
    BY <1>1, <2>1, <2>2 DEF Counted, RemovedForCause, Settling, Lone, Gone, InHand
<1>4. QED
  BY <1>2, <1>3

LEMMA KnowledgeStep ==
  ASSUME Shape, Counted, Settling, [Next]_vars
  PROVE  Counted' /\ Settling'
  BY KnowledgeOfMutation, KnowledgeOfRun, KnowledgeOfRest DEF Next

LEMMA InitKnowledge == ASSUME Init PROVE Counted /\ Settling
<1>1. \A r \in Runs : Before(r) = {}
  BY DEF Init, Empty, Before
<1>2. QED
  BY <1>1 DEF Init, Empty, Counted, RemovedForCause, Settling, Lone, InHand

LEMMA Known == Spec => [](Shape /\ Counted /\ Settling)
<1>1. Init => LimiterInv /\ Shape /\ Counted /\ Settling
  BY LimiterInit_, InitShape, InitKnowledge DEF Init
<1>2. LimiterInv /\ Shape /\ Counted /\ Settling /\ [Next]_vars
        => (LimiterInv /\ Shape /\ Counted /\ Settling)'
  BY LimiterStep, LimiterStutter, StepsOfLimiter, ShapeStep, KnowledgeStep
<1>3. QED
  BY <1>1, <1>2, PTL DEF Spec

\* OfflineStorage loses no entry of the queue: it leaves only after an OK answer
\* or more failed tries than MaxRetries, whatever runs of processQueue overlap, reloads
\* cut off and writes to IndexedDB fail.
THEOREM QueueKeepsItsEntries == Spec => []RemovedForCause
<1>1. Counted => RemovedForCause
  BY DEF Counted
<1>2. QED
  BY <1>1, Known, PTL

\* The server accepts a queued request twice only if two runs of processQueue had it
\* before them at the same time, or one that had its OK did not come to remove it.
THEOREM EntriesAcceptedOnce == Spec => []AcceptedOnce
<1>1. Shape /\ Settling => AcceptedOnce
  BY DEF Settling, AcceptedOnce, Shape, TypeOK
<1>2. QED
  BY <1>1, Known, PTL
=============================================================================

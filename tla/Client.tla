------------------------------- MODULE Client -------------------------------
(***************************************************************************)
(* The browser's side of a write.  A mutation goes through the             *)
(* interceptors of the API client: offline it is put into the queue of     *)
(* IndexedDB and fails, online it is sent, waits and is sent again while   *)
(* the rate limit refuses it.  The query library calls a mutation that     *)
(* failed a second time.  Each online event starts a run of processQueue,  *)
(* which sends what was in the queue at its start, one entry after the     *)
(* other, and does not know of other runs.  All requests go to one path of *)
(* the server, behind one counter of RateLimit.                            *)
(***************************************************************************)
EXTENDS RateLimit, FiniteSets

CONSTANTS
  Mutations,   \* what the user does on the screens
  Runs,        \* runs of processQueue that may overlap
  NoEntry,
  MaxRetries,  \* req.retries >= 3
  RetryAfter,  \* ticks a refused request waits: the client's default
  MaxOnline,   \* bound: online events
  MaxReloads,  \* bound: the page is loaded anew
  MaxFaults    \* bound: writes to IndexedDB that raise

ASSUME ClientAssumption ==
  /\ Senders = Mutations \cup Runs /\ Mutations \cap Runs = {}
  /\ MaxRetries \in Nat /\ RetryAfter \in Nat
  /\ MaxOnline \in Nat /\ MaxReloads \in Nat /\ MaxFaults \in Nat

MaxCalls == 2     \* mutations: { retry: 1 }

\* A call of a mutation puts at most one entry into the queue.
Entries == Mutations \X (1..MaxCalls)
Phases == {"idle", "calling", "queueing", "sent", "passed", "waiting", "done", "failed"}

VARIABLES
  online,    \* navigator.onLine
  phase,     \* how far each mutation is
  calls,     \* how often the query library has called it
  wait,      \* ticks until it is sent again
  queue,     \* retries of each entry in the queue, Nothing if it is not there
  snapshot,  \* what a run has still to send, as it was at its start
  fetching,  \* the entry a run has sent, or NoEntry
  reached,   \* the limiter has let the run's request pass
  ok,        \* response.ok: the run has still to remove its entry
  onlines, reloads, faults,
  queued,    \* history: the entries ever put into the queue
  accepted,  \* history: OK answers an entry has had, two standing for more
  failures,  \* history: tries of an entry that failed, MaxRetries + 1 for more
  overlapped, \* history: two runs had the entry before them
  kept       \* history: a run did not come to remove the entry after its OK

vars == <<limiter, online, phase, calls, wait, queue, snapshot, fetching, reached, ok,
          onlines, reloads, faults, queued, accepted, failures, overlapped, kept>>
screen == <<phase, calls, wait>>
running == <<snapshot, fetching, reached, ok>>
history == <<queued, accepted, failures, overlapped, kept>>
environment == <<online, onlines, reloads, faults>>

Empty == [e \in Entries |-> Nothing]

Init ==
  /\ LimiterInit
  /\ online \in BOOLEAN
  /\ phase = [m \in Mutations |-> "idle"]
  /\ calls = [m \in Mutations |-> 0]
  /\ wait = [m \in Mutations |-> 0]
  /\ queue = Empty
  /\ snapshot = [r \in Runs |-> Empty]
  /\ fetching = [r \in Runs |-> NoEntry]
  /\ reached = [r \in Runs |-> FALSE]
  /\ ok = [r \in Runs |-> FALSE]
  /\ onlines = 0
  /\ reloads = 0
  /\ faults = 0
  /\ queued = {}
  /\ accepted = [e \in Entries |-> 0]
  /\ failures = [e \in Entries |-> 0]
  /\ overlapped = [e \in Entries |-> FALSE]
  /\ kept = [e \in Entries |-> FALSE]

-----------------------------------------------------------------------------
(* Mutations                                                               *)

Move(m, from, to) == phase[m] = from /\ phase' = [phase EXCEPT ![m] = to]

Call(m) ==
  /\ Move(m, "idle", "calling")
  /\ calls' = [calls EXCEPT ![m] = 1]
  /\ UNCHANGED <<limiter, environment, wait, queue, running, history>>

\* if (!navigator.onLine && ...) await OfflineStorage.queueRequest(...)
SendOnline(m) ==
  /\ online
  /\ Move(m, "calling", "sent")
  /\ UNCHANGED <<limiter, environment, calls, wait, queue, running, history>>

BeginQueueing(m) ==
  /\ ~online
  /\ Move(m, "calling", "queueing")
  /\ UNCHANGED <<limiter, environment, calls, wait, queue, running, history>>

\* A call that fails is repeated once.
Reject(m, from) ==
  /\ Move(m, from, IF calls[m] < MaxCalls THEN "calling" ELSE "failed")
  /\ calls' = [calls EXCEPT ![m] = IF @ < MaxCalls THEN @ + 1 ELSE @]

\* The entry is there; OFFLINE_REQUEST_QUEUED is an error like any other.
QueueRequest(m) ==
  /\ Reject(m, "queueing")
  /\ queue' = [queue EXCEPT ![<<m, calls[m]>>] = 0]
  /\ queued' = queued \cup {<<m, calls[m]>>}
  /\ UNCHANGED <<limiter, environment, wait, running, accepted, failures, overlapped, kept>>

LimiterGet(m) ==
  /\ phase[m] = "sent" /\ current[m] = Nothing
  /\ Get(m)
  /\ UNCHANGED <<environment, screen, queue, running, history>>

LimiterPass(m) ==
  /\ Move(m, "sent", "passed")
  /\ Pass(m)
  /\ UNCHANGED <<environment, calls, wait, queue, running, history>>

\* The 429 carries no retry-after header.
Throttled(m) ==
  /\ current[m] = Nothing
  /\ Move(m, "sent", "waiting")
  /\ Refuse(m)
  /\ wait' = [wait EXCEPT ![m] = RetryAfter]
  /\ UNCHANGED <<environment, calls, queue, running, history>>

\* return api(originalRequest)
SendAgain(m) ==
  /\ wait[m] = 0
  /\ Move(m, "waiting", "calling")
  /\ UNCHANGED <<limiter, environment, calls, wait, queue, running, history>>

Answered(m) ==
  /\ Move(m, "passed", "done")
  /\ UNCHANGED <<limiter, environment, calls, wait, queue, running, history>>

\* An error status, or the network fails on the way there or back.
Error(m) ==
  /\ Reject(m, "passed")
  /\ UNCHANGED <<limiter, environment, wait, queue, running, history>>

Unreachable(m) ==
  /\ current[m] = Nothing
  /\ Reject(m, "sent")
  /\ UNCHANGED <<limiter, environment, wait, queue, running, history>>

-----------------------------------------------------------------------------
(* The queue                                                               *)

GoOffline == online /\ online' = FALSE
             /\ UNCHANGED <<limiter, screen, queue, running, history, onlines, reloads, faults>>

Before(r) == {e \in Entries : snapshot[r][e] # Nothing}

\* const requests = await this.getQueuedRequests()
ProcessQueue(r) ==
  /\ Before(r) = {}
  /\ snapshot' = [snapshot EXCEPT ![r] = queue]
  /\ overlapped' = [e \in Entries |->
       \/ overlapped[e]
       \/ queue[e] # Nothing /\ \E s \in Runs \ {r} : e \in Before(s)]
  /\ UNCHANGED <<fetching, reached, ok>>

GoOnline(r) ==
  /\ ~online /\ onlines < MaxOnline
  /\ online' = TRUE
  /\ onlines' = onlines + 1
  /\ ProcessQueue(r)
  /\ UNCHANGED <<limiter, screen, queue, queued, accepted, failures, kept, reloads, faults>>

\* The order of the entries is left open.
Fetch(r) ==
  /\ fetching[r] = NoEntry
  /\ \E e \in Before(r) : fetching' = [fetching EXCEPT ![r] = e]
  /\ UNCHANGED <<limiter, environment, screen, queue, snapshot, reached, ok, history>>

FetchGet(r) ==
  /\ fetching[r] # NoEntry /\ ~reached[r] /\ current[r] = Nothing
  /\ Get(r)
  /\ UNCHANGED <<environment, screen, queue, running, history>>

FetchPass(r) ==
  /\ Pass(r)
  /\ reached' = [reached EXCEPT ![r] = TRUE]
  /\ UNCHANGED <<environment, screen, queue, snapshot, fetching, ok, history>>

NextEntry(r) ==
  /\ snapshot' = [snapshot EXCEPT ![r][fetching[r]] = Nothing]
  /\ fetching' = [fetching EXCEPT ![r] = NoEntry]
  /\ reached' = [reached EXCEPT ![r] = FALSE]
  /\ ok' = [ok EXCEPT ![r] = FALSE]

\* if (response.ok): the write is done, the entry still in the queue.
FetchOk(r) ==
  /\ reached[r] /\ ~ok[r]
  /\ ok' = [ok EXCEPT ![r] = TRUE]
  /\ accepted' = [accepted EXCEPT ![fetching[r]] = IF @ < 2 THEN @ + 1 ELSE @]
  /\ UNCHANGED <<limiter, environment, screen, queue, snapshot, fetching, reached,
                 queued, failures, overlapped, kept>>

\* Mutant: an entry that was sent stays in the queue.
RemoveNothing(r) ==
  /\ ok[r]
  /\ NextEntry(r)
  /\ UNCHANGED <<limiter, environment, screen, queue, history>>

\* await this.removeQueuedRequest(req.id)
RemoveQueuedRequest(r) ==
  /\ ok[r]
  /\ queue' = [queue EXCEPT ![fetching[r]] = Nothing]
  /\ NextEntry(r)
  /\ UNCHANGED <<limiter, environment, screen, history>>

\* Mutant: the entry is given up one try too early.
RetriedEarly(retries) == IF retries >= MaxRetries - 1 THEN Nothing ELSE retries + 1

\* What becomes of an entry whose try failed: removed, or put with a retry more.
Retried(retries) == IF retries >= MaxRetries THEN Nothing ELSE retries + 1

\* The count is that of the snapshot, and put brings back what was removed.
PutRetried(r) ==
  /\ queue' = [queue EXCEPT ![fetching[r]] = Retried(snapshot[r][fetching[r]])]
  /\ NextEntry(r)

Failed(r) ==
  /\ PutRetried(r)
  /\ failures' = [failures EXCEPT ![fetching[r]] = IF @ <= MaxRetries THEN @ + 1 ELSE @]
  /\ UNCHANGED <<environment, screen, queued, accepted, overlapped, kept>>

\* An error status or a lost answer, or a network that does not get there.
FetchFails(r) ==
  /\ fetching[r] # NoEntry /\ current[r] = Nothing /\ ~ok[r]
  /\ Failed(r)
  /\ UNCHANGED limiter

FetchRefused(r) ==
  /\ fetching[r] # NoEntry /\ ~reached[r] /\ current[r] = Nothing
  /\ Refuse(r)
  /\ Failed(r)

Keep(runs) == [e \in Entries |-> kept[e] \/ \E r \in runs : ok[r] /\ fetching[r] = e]

Fault == faults < MaxFaults /\ faults' = faults + 1 /\ UNCHANGED <<online, onlines, reloads>>

\* The removal raises, and the catch takes the accepted entry for a failed one.
RemovalFails(r) ==
  /\ ok[r]
  /\ Fault
  /\ PutRetried(r)
  /\ kept' = Keep({r})
  /\ UNCHANGED <<limiter, screen, queued, accepted, failures, overlapped>>

\* The catch raises too: processQueue rejects, and leaves the rest for another run.
CatchFails(r) ==
  /\ fetching[r] # NoEntry /\ current[r] = Nothing
  /\ Fault
  /\ snapshot' = [snapshot EXCEPT ![r] = Empty]
  /\ fetching' = [fetching EXCEPT ![r] = NoEntry]
  /\ reached' = [reached EXCEPT ![r] = FALSE]
  /\ ok' = [ok EXCEPT ![r] = FALSE]
  /\ kept' = Keep({r})
  /\ UNCHANGED <<limiter, screen, queue, queued, accepted, failures, overlapped>>

-----------------------------------------------------------------------------
\* The page is closed or loaded anew: mutations and runs are gone, the queue is
\* not, and nothing looks at it before the next online event.
Reload ==
  /\ reloads < MaxReloads
  /\ \A s \in Senders : current[s] = Nothing
  /\ reloads' = reloads + 1
  /\ phase' = [m \in Mutations |-> IF phase[m] = "idle" THEN "idle"
                                   ELSE IF phase[m] = "done" THEN "done" ELSE "failed"]
  /\ wait' = [m \in Mutations |-> 0]
  /\ snapshot' = [r \in Runs |-> Empty]
  /\ fetching' = [r \in Runs |-> NoEntry]
  /\ reached' = [r \in Runs |-> FALSE]
  /\ ok' = [r \in Runs |-> FALSE]
  /\ kept' = Keep(Runs)
  /\ UNCHANGED <<limiter, online, onlines, faults, calls, queue, queued, accepted, failures,
                 overlapped>>

Tick ==
  /\ LimiterTick
  /\ wait' = [m \in Mutations |-> IF wait[m] > 0 THEN wait[m] - 1 ELSE 0]
  /\ UNCHANGED <<environment, phase, calls, queue, running, history>>

Mutation(m) ==
  \/ SendOnline(m) \/ BeginQueueing(m) \/ QueueRequest(m) \/ LimiterGet(m) \/ LimiterPass(m)
  \/ Throttled(m) \/ SendAgain(m) \/ Answered(m) \/ Error(m) \/ Unreachable(m)

Run(r) ==
  \/ Fetch(r) \/ FetchGet(r) \/ FetchPass(r) \/ FetchOk(r) \/ RemoveQueuedRequest(r)
  \/ FetchFails(r) \/ FetchRefused(r) \/ RemovalFails(r) \/ CatchFails(r)

Next ==
  \/ \E m \in Mutations : Call(m) \/ Mutation(m)
  \/ \E r \in Runs : GoOnline(r) \/ Run(r)
  \/ GoOffline \/ Reload \/ Tick

\* Timers fire, the server or the network answers in the end, and a promise that
\* is settled is continued.  The user and the network owe nothing.
Fairness == /\ WF_vars(Tick)
            /\ \A m \in Mutations : WF_vars(Mutation(m))
            /\ \A r \in Runs : WF_vars(Run(r))

Spec == Init /\ [][Next]_vars /\ Fairness

-----------------------------------------------------------------------------
(* Properties                                                              *)

TypeOK ==
  /\ LimiterTypeOK
  /\ phase \in [Mutations -> Phases]
  /\ calls \in [Mutations -> 0..MaxCalls]
  /\ wait \in [Mutations -> 0..RetryAfter]
  /\ queue \in [Entries -> {Nothing} \cup 0..MaxRetries]
  /\ snapshot \in [Runs -> [Entries -> {Nothing} \cup 0..MaxRetries]]
  /\ fetching \in [Runs -> {NoEntry} \cup Entries]
  /\ reached \in [Runs -> BOOLEAN] /\ ok \in [Runs -> BOOLEAN]
  /\ online \in BOOLEAN /\ onlines \in 0..MaxOnline /\ reloads \in 0..MaxReloads
  /\ faults \in 0..MaxFaults
  /\ queued \subseteq Entries
  /\ accepted \in [Entries -> 0..2]
  /\ failures \in [Entries -> 0..MaxRetries + 1]
  /\ overlapped \in [Entries -> BOOLEAN] /\ kept \in [Entries -> BOOLEAN]

\* A queued write is never just lost: whatever runs overlap and reloads cut them
\* short, an entry that has left the queue was answered OK or failed once
\* more than it is retried.
RemovedForCause ==
  \A e \in queued :
    queue[e] = Nothing => accepted[e] > 0 \/ failures[e] > MaxRetries

\* An entry is answered OK a second time only if two runs of the queue had it before
\* them at once, or if a run with its OK in hand was cut off by a reload or a failing
\* write before the entry was out of the queue: nothing else puts back what was removed.
AcceptedOnce == \A e \in Entries : accepted[e] > 1 => overlapped[e] \/ kept[e]

\* A write that the rate limit makes wait is in the end answered, queued or
\* given up, though other writes use the same counter.
ThrottledIsSettled ==
  \A m \in Mutations : phase[m] = "waiting" ~> phase[m] \in {"done", "failed"}
=============================================================================

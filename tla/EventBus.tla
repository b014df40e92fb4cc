------------------------------ MODULE EventBus ------------------------------
(***************************************************************************)
(* EventBus of way_infra: publish() stores an event, process_events(), run *)
(* by a Celery task or by a POST of an administrator, works off a batch.   *)
(* Runs overlap, nothing locks the events, and every statement commits on  *)
(* its own, so that a run works on copies that other runs have overtaken.  *)
(***************************************************************************)
EXTENDS Integers, Sequences

CONSTANTS
  MaxEvents,    \* bound: events published
  Kinds,        \* kinds of events that are published, see CanRaise
  Runs,         \* threads that may be running process_events
  BatchSize,    \* events a run takes at most
  RetryLimit,   \* failures after which an event is left alone (5 in the code)
  MaxCrashes    \* bound: runs whose worker dies

ASSUME EventBusAssumption ==
  /\ MaxEvents \in Nat /\ MaxCrashes \in Nat
  /\ BatchSize \in Nat \ {0} /\ RetryLimit \in Nat \ {0}
  /\ Kinds \subseteq {"local", "addressed", "anonymous"}

Events == 1..MaxEvents  \* in the order of created_at

VARIABLES
  event,     \* EventLog rows
  last,      \* the last event published
  batch,     \* the copies of events each run still has to work off
  pc,        \* what each run does next
  handled,   \* history: how often the handler of an event has succeeded
  failed,    \* history: how often handling an event has raised
  crashes    \* runs whose worker has died

vars == <<event, last, batch, pc, handled, failed, crashes>>

Row == [kind : Kinds, stored : BOOLEAN, processed : BOOLEAN, retries : Nat]
Copy == [id : Events, retries : Nat]

Init ==
  /\ event \in [Events -> [kind : Kinds, stored : {FALSE}, processed : {FALSE},
                           retries : {0}]]
  /\ last = 0
  /\ batch = [r \in Runs |-> <<>>]
  /\ pc = [r \in Runs |-> "idle"]
  /\ handled = [e \in Events |-> 0]
  /\ failed = [e \in Events |-> 0]
  /\ crashes = 0

\* publish(): the kind of the event was chosen by Init.
Publish ==
  /\ last < MaxEvents
  /\ last' = last + 1
  /\ event' = [event EXCEPT ![last + 1].stored = TRUE]
  /\ UNCHANGED <<batch, pc, handled, failed, crashes>>

\* An administrator deletes an event, or cleanup_old_events a processed one.
Delete(e) ==
  /\ event[e].stored
  /\ event' = [event EXCEPT ![e].stored = FALSE]
  /\ UNCHANGED <<last, batch, pc, handled, failed, crashes>>

Pending == {e \in Events : /\ event[e].stored /\ ~event[e].processed
                           /\ event[e].retries < RetryLimit}

\* Meta.ordering puts the newest event first: of the events S a batch has the
\* newest, as many as it may have.
NewestFirst(S) ==
  {ids \in UNION {[1..n -> S] : n \in 1..BatchSize} :
     /\ \A i, j \in 1..Len(ids) : i < j => ids[i] > ids[j]
     /\ \A e \in S : (\A i \in 1..Len(ids) : e # ids[i]) =>
          Len(ids) = BatchSize /\ e < ids[BatchSize]}

Copies(ids) == [i \in 1..Len(ids) |-> [id |-> ids[i], retries |-> event[ids[i]].retries]]

\* The query is evaluated once, by the for loop.
Fetch(r) ==
  /\ pc[r] = "idle"
  /\ Pending # {}
  /\ \E ids \in NewestFirst(Pending) : batch' = [batch EXCEPT ![r] = Copies(ids)]
  /\ pc' = [pc EXCEPT ![r] = "next"]
  /\ UNCHANGED <<event, last, handled, failed, crashes>>

\* _handle_event by kind.  "anonymous" is payment_success as process_webhook
\* publishes it: without a user_id no Notification can be stored.  "addressed"
\* is one with a user_id, which the channel layer may refuse.  The handlers of
\* all other events only log or delete a cache key.
CanSucceed(kind) == kind \in {"local", "addressed"}
CanRaise(kind) == kind \in {"anonymous", "addressed"}

Current(r) == Head(batch[r])

HandleWell(r) ==
  LET e == Current(r).id
  IN /\ pc[r] = "next" /\ CanSucceed(event[e].kind)
     /\ handled' = [handled EXCEPT ![e] = @ + 1]
     /\ pc' = [pc EXCEPT ![r] = "handled"]
     /\ UNCHANGED <<event, last, batch, failed, crashes>>

HandleBadly(r) ==
  LET e == Current(r).id
  IN /\ pc[r] = "next" /\ CanRaise(event[e].kind)
     /\ failed' = [failed EXCEPT ![e] = @ + 1]
     /\ pc' = [pc EXCEPT ![r] = "raised"]
     /\ UNCHANGED <<event, last, batch, handled, crashes>>

\* The loop goes on with the next copy, or the run returns its count.
Advance(r) ==
  /\ batch' = [batch EXCEPT ![r] = Tail(@)]
  /\ pc' = [pc EXCEPT ![r] = IF Len(batch[r]) = 1 THEN "idle" ELSE "next"]

SaveProcessed(r) ==
  LET e == Current(r).id
  IN /\ pc[r] = "handled" /\ event[e].stored
     /\ event' = [event EXCEPT ![e].processed = TRUE]
     /\ Advance(r)
     /\ UNCHANGED <<last, handled, failed, crashes>>

\* Mutant: an event that has raised is marked as processed too.
SaveFinished(r) ==
  LET e == Current(r).id
  IN /\ pc[r] = "raised" /\ event[e].stored
     /\ event' = [event EXCEPT ![e].retries = Current(r).retries + 1,
                              ![e].processed = TRUE]
     /\ Advance(r)
     /\ UNCHANGED <<last, handled, failed, crashes>>

\* Mutant: the count goes up when it has gone up already.
SaveRetryTwice(r) ==
  LET e == Current(r).id
  IN /\ pc[r] = "raised" /\ event[e].stored
     /\ event' = [event EXCEPT ![e].retries = event[e].retries + 2]
     /\ Advance(r)
     /\ UNCHANGED <<last, handled, failed, crashes>>

\* Mutant: the count is not stored.
SaveError(r) ==
  LET e == Current(r).id
  IN /\ pc[r] = "raised" /\ event[e].stored
     /\ Advance(r)
     /\ UNCHANGED <<event, last, handled, failed, crashes>>

\* The row is gone: save() raises inside of the try block.
SaveMisses(r) ==
  LET e == Current(r).id
  IN /\ pc[r] = "handled" /\ ~event[e].stored
     /\ failed' = [failed EXCEPT ![e] = @ + 1]
     /\ pc' = [pc EXCEPT ![r] = "raised"]
     /\ UNCHANGED <<event, last, batch, handled, crashes>>

\* The except block stores the copy's count plus one.
SaveRetry(r) ==
  LET e == Current(r).id
  IN /\ pc[r] = "raised" /\ event[e].stored
     /\ event' = [event EXCEPT ![e].retries = Current(r).retries + 1]
     /\ Advance(r)
     /\ UNCHANGED <<last, handled, failed, crashes>>

\* The row is gone: save() raises out of the loop, the rest of the batch is left.
AbandonBatch(r) ==
  /\ pc[r] = "raised" /\ ~event[Current(r).id].stored
  /\ batch' = [batch EXCEPT ![r] = <<>>]
  /\ pc' = [pc EXCEPT ![r] = "idle"]
  /\ UNCHANGED <<event, last, handled, failed, crashes>>

Crash(r) ==
  /\ crashes < MaxCrashes
  /\ pc[r] # "idle"
  /\ crashes' = crashes + 1
  /\ batch' = [batch EXCEPT ![r] = <<>>]
  /\ pc' = [pc EXCEPT ![r] = "idle"]
  /\ UNCHANGED <<event, last, handled, failed>>

\* A run under way.
Work(r) ==
  \/ HandleWell(r) \/ HandleBadly(r)
  \/ SaveProcessed(r) \/ SaveMisses(r) \/ SaveRetry(r) \/ AbandonBatch(r)

Next ==
  \/ Publish
  \/ \E e \in Events : Delete(e)
  \/ \E r \in Runs : Fetch(r) \/ Work(r) \/ Crash(r)

Spec == Init /\ [][Next]_vars

\* A run goes on until it returns.  Nothing starts runs: CELERY_BEAT_SCHEDULE is
\* empty, so Fetch has no fairness.
FairSpec == Spec /\ \A r \in Runs : WF_vars(Work(r))
-----------------------------------------------------------------------------
(* Properties                                                              *)

\* Every variable keeps its type.
TypeOK ==
  /\ event \in [Events -> Row]
  /\ last \in 0..MaxEvents
  /\ batch \in [Runs -> Seq(Copy)]
  /\ \A r \in Runs : Len(batch[r]) <= BatchSize
  /\ pc \in [Runs -> {"idle", "next", "handled", "raised"}]
  /\ handled \in [Events -> Nat] /\ failed \in [Events -> Nat]
  /\ crashes \in 0..MaxCrashes

\* Delivery is at least once: whatever runs overlap, die or find rows deleted, an
\* event marked as processed has been handled with success.
ProcessedWasHandled ==
  \A e \in Events : event[e].processed => handled[e] > 0

\* An event is given up for its own failures: overlapping runs may lose retries
\* but never count one twice, so a pending event is not given up early.
GivenUpAfterLimit ==
  \A e \in Events :
    event[e].retries >= RetryLimit => failed[e] >= RetryLimit

\* A run that has taken an event leaves its mark on it: the event is processed or
\* its count goes past the copied one, however other runs interleave, unless a row
\* has been deleted or a worker has died.
EveryTurnCounts ==
  \A r \in Runs, e \in Events, k \in 0..(RetryLimit - 1) :
    (\E i \in 1..Len(batch[r]) : batch[r][i] = [id |-> e, retries |-> k])
      ~> \/ event[e].processed \/ event[e].retries > k
         \/ crashes > 0
         \/ \E d \in Events : d <= last /\ ~event[d].stored
=============================================================================

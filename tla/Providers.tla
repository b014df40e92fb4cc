----------------------------- MODULE Providers -----------------------------
(***************************************************************************)
(* The health of a provider.  sync_providers lists the providers that are  *)
(* active or degraded and measures each: update_provider_health reads the  *)
(* row, works out latency, success rate and status and saves these columns.*)
(* An administrator's PATCH reads the row and saves all of it.  A provider *)
(* that is down after a measurement announces its failover in an event.    *)
(* Rates are kept in tenths, rounded down or up.                           *)
(***************************************************************************)
EXTENDS Integers

CONSTANTS
  Workers,   \* tasks and requests under way at the same time
  Idle

Statuses == {"active", "degraded", "down", "maintenance"}
\* chosen: history, an administrator set the status, and no measurement since.
Row == [status : Statuses, rate : 0..10, chosen : BOOLEAN]
Ops == {"measure", "save", "announce", "patch"}

VARIABLES
  provider,  \* the row
  job,       \* what each worker is to do next, and the row it has read
  events,    \* provider_failover has been published
  buried     \* history: it was down with nobody at work on it, and not PATCHed since

vars == <<provider, job, events, buried>>

Init ==
  /\ provider = [status |-> "active", rate |-> 10, chosen |-> FALSE]
  /\ job = [w \in Workers |-> Idle]
  /\ events = FALSE
  /\ buried = FALSE

Does(w, op) == job[w] # Idle /\ job[w].op = op
Hold(w, op) == job' = [job EXCEPT ![w] = [op |-> op, held |-> provider]]
Done(w) == job' = [job EXCEPT ![w] = Idle]

Quiet == provider.status = "down" /\ \A w \in Workers : job[w] = Idle
Remember == buried' = (buried \/ Quiet')

\* Mutant: every provider is measured.
ListedAlways == TRUE

\* Provider.objects.filter(status__in=["active", "degraded"])
Listed == provider.status \in {"active", "degraded"}

SyncProviders(w) ==
  /\ job[w] = Idle
  /\ Listed
  /\ Hold(w, "measure")
  /\ UNCHANGED <<provider, events, buried>>

ReadHealth(w) ==
  /\ Does(w, "measure")
  /\ Hold(w, "save")
  /\ UNCHANGED <<provider, events, buried>>

Rounded(hundredths) == {hundredths \div 100, (hundredths + 99) \div 100}
\* min(100, rate * 0.95 + 100 * 0.05), or rate * 0.9
RateAfter(rate, success) == Rounded(IF success THEN rate * 95 + 50 ELSE rate * 90)

StatusOf(rate) == IF rate < 5 THEN "down" ELSE IF rate < 8 THEN "degraded" ELSE "active"

\* Mutant: the status is worked out before the new rate.
SaveLateStatus(w) ==
  /\ Does(w, "save")
  /\ \E success \in BOOLEAN : \E rate \in RateAfter(job[w].held.rate, success) :
       provider' = [status |-> StatusOf(job[w].held.rate), rate |-> rate, chosen |-> FALSE]
  /\ IF provider'.status = "down" THEN job' = [job EXCEPT ![w].op = "announce"] ELSE Done(w)
  /\ UNCHANGED events
  /\ Remember

\* save(update_fields=["latency_ms", "success_rate", "status", "health"])
SaveHealth(w) ==
  /\ Does(w, "save")
  /\ \E success \in BOOLEAN : \E rate \in RateAfter(job[w].held.rate, success) :
       provider' = [status |-> StatusOf(rate), rate |-> rate, chosen |-> FALSE]
  /\ IF provider'.status = "down" THEN job' = [job EXCEPT ![w].op = "announce"] ELSE Done(w)
  /\ UNCHANGED events
  /\ Remember

AnnounceFailover(w) ==
  /\ Does(w, "announce")
  /\ events' = TRUE
  /\ Done(w)
  /\ UNCHANGED provider
  /\ Remember

\* A worker may die at any point, before the announcement too; and a provider
\* without a failover target has none to make.
Die(w) ==
  /\ job[w] # Idle
  /\ Done(w)
  /\ UNCHANGED <<provider, events>>
  /\ Remember

PatchReads(w) ==
  /\ job[w] = Idle
  /\ Hold(w, "patch")
  /\ UNCHANGED <<provider, events, buried>>

\* success_rate is read-only, so that it is saved as it was read.
PatchSaves(w) ==
  /\ Does(w, "patch")
  /\ Done(w)
  /\ \/ provider' = job[w].held /\ Remember
     \/ /\ \E status \in Statuses :
             provider' = [job[w].held EXCEPT !.status = status, !.chosen = TRUE]
        /\ buried' = Quiet'
  /\ UNCHANGED events

Next ==
  \E w \in Workers :
    \/ SyncProviders(w) \/ ReadHealth(w) \/ SaveHealth(w) \/ AnnounceFailover(w)
    \/ Die(w) \/ PatchReads(w) \/ PatchSaves(w)

Spec == Init /\ [][Next]_vars

-----------------------------------------------------------------------------
(* Properties                                                              *)

TypeOK ==
  /\ provider \in Row
  /\ job \in [Workers -> [op : Ops, held : Row] \cup {Idle}]
  /\ events \in BOOLEAN /\ buried \in BOOLEAN

\* Measurements that overlap lose one another's answers, and a PATCH brings an
\* old row back, but status and success rate always come from one measurement
\* unless an administrator has set the status since.
StatusFollowsRate == ~provider.chosen => provider.status = StatusOf(provider.rate)

\* A provider that was down at a moment when nobody was at work on it stays down until
\* an administrator sets its status: it is not listed for measurement again.  (One that
\* goes down while another measurement is under way may be brought back by that one.)
DownStaysDown == buried => provider.status = "down"
=============================================================================

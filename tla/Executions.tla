----------------------------- MODULE Executions -----------------------------
(***************************************************************************)
(* ExecutionService of way_skills: a request queues an execution (one      *)
(* autocommit INSERT) and then runs execute_skill, one transaction that    *)
(* charges the wallet, calls the provider and records the outcome.  What   *)
(* it writes becomes visible when it commits or never; the result cache    *)
(* takes no part in the transaction.  A step is what another request can   *)
(* observe or has to wait for.  One skill is modelled, with one kind of    *)
(* provider; a retry is a new execution, hence a member of Executions.     *)
(*                                                                         *)
(* The row locks are those of the stages: a call holds the row of its      *)
(* wallet from the SELECT ... FOR UPDATE of burn_credits, the row of the   *)
(* reserve from reserve.save() and the row of the skill from skill.save(), *)
(* all until the transaction ends.                                         *)
(***************************************************************************)
EXTENDS Integers, Sequences, FiniteSets, Functions

CONSTANTS
  Executions,  \* SkillExecution ids, each queued and run by one request
  Wallets,     \* wallets of the users
  Inputs,      \* input_data, as far as the cache key tells it apart
  Costs,       \* what calculate_cost may return
  Backing,     \* reserve.total_reserve * reserve.rate, in credits
  Opening,     \* balance of each wallet at the start
  NoCount,     \* update_skill_stats is not running
  MaxFaults    \* bound: workers that die and calls to the cache that fail

ASSUME ExecutionsAssumption ==
  /\ IsFiniteSet(Executions)
  /\ Costs \subseteq Nat
  /\ Backing \in Nat
  /\ Opening \in [Wallets -> Nat]
  /\ NoCount \notin Nat
  /\ MaxFaults \in Nat

VARIABLES
  execution,  \* committed SkillExecution rows
  charges,    \* committed CreditLedger amounts of each execution, oldest first
  balance,    \* committed Wallet.balance
  spent,      \* history: credits taken by calls other than executions
  usage,      \* committed Skill.usage_count
  cached,     \* inputs whose result is in the cache
  online,     \* some provider row is active and has quota
  listed,     \* the list of providers of get_available_providers is in the cache
  work,       \* the request and the locals of execute_skill
  pc,         \* how far each request has got
  recount,    \* the count update_skill_stats is about to save
  faults      \* workers that have died and calls to the cache that have failed

vars == <<execution, charges, balance, spent, usage, cached, online, listed,
          work, pc, recount, faults>>

Row == [status : {"absent", "queued", "completed", "failed"}, hit : BOOLEAN,
        error : {"", "permission", "provider", "credits", "payment", "cache", "signal"}]
Request == [wallet : Wallets, input : Inputs, allowed : BOOLEAN]
Work == [wallet : Wallets, input : Inputs, allowed : BOOLEAN,
         cost : Nat, balance : Nat, usage : Nat]
Stages == {"sent", "queued", "started", "missed", "priced", "solvent", "locked",
           "charged", "cached", "counted", "refunding", "miscounted", "done", "dead"}

Init ==
  /\ execution = [e \in Executions |-> [status |-> "absent", hit |-> FALSE, error |-> ""]]
  /\ charges = [e \in Executions |-> <<>>]
  /\ balance = Opening
  /\ spent = [w \in Wallets |-> 0]
  /\ usage = 0
  /\ cached = {}
  /\ online = TRUE
  /\ listed = FALSE
  /\ \E request \in [Executions -> Request] :
       work = [e \in Executions |->
                 [wallet |-> request[e].wallet, input |-> request[e].input,
                  allowed |-> request[e].allowed,
                  cost |-> 0, balance |-> 0, usage |-> 0]]
  /\ pc = [e \in Executions |-> "sent"]
  /\ recount = NoCount
  /\ faults = 0

-----------------------------------------------------------------------------
(* The transaction of execute_skill                                        *)

Goto(e, stage) == pc' = [pc EXCEPT ![e] = stage]

HoldsSkill == {"counted", "miscounted"}
HoldsReserve == HoldsSkill \cup {"charged", "cached", "refunding"}
HoldsWallet == HoldsReserve \cup {"locked"}
InTransaction == HoldsWallet \cup {"started", "missed", "priced", "solvent"}

\* Mutant: burn_credits reads the wallet without FOR UPDATE.
NeverLocked(w) == FALSE

WalletLocked(w) == \E e \in Executions : pc[e] \in HoldsWallet /\ work[e].wallet = w
ReserveLocked == \E e \in Executions : pc[e] \in HoldsReserve
SkillLocked == \E e \in Executions : pc[e] \in HoldsSkill

\* Commits the execution as failed; nothing has been charged.
Fail(e, reason) ==
  /\ execution' = [execution EXCEPT ![e].status = "failed", ![e].error = reason]
  /\ Goto(e, "done")
  /\ UNCHANGED <<charges, balance, spent, usage, cached, online, work, recount>>

\* queue_execution commits the row before execute_skill begins.
Queue(e) ==
  /\ pc[e] = "sent"
  /\ execution' = [execution EXCEPT ![e].status = "queued"]
  /\ Goto(e, "queued")
  /\ UNCHANGED <<charges, balance, spent, usage, cached, online, listed, work,
                 recount, faults>>

\* A required permission is missing, or the user is gone.
Deny(e) ==
  /\ pc[e] = "queued"
  /\ ~work[e].allowed
  /\ Fail(e, "permission")
  /\ UNCHANGED <<listed, faults>>

\* The skill object is read here, with the count it has now.
Start(e) ==
  /\ pc[e] = "queued"
  /\ work[e].allowed
  /\ work' = [work EXCEPT ![e].usage = usage]
  /\ Goto(e, "started")
  /\ UNCHANGED <<execution, charges, balance, spent, usage, cached, online,
                 listed, recount, faults>>

\* A cached result completes the execution, and nothing is charged.
Hit(e) ==
  /\ pc[e] = "started"
  /\ work[e].input \in cached
  /\ execution' = [execution EXCEPT ![e].status = "completed", ![e].hit = TRUE]
  /\ Goto(e, "done")
  /\ UNCHANGED <<charges, balance, spent, usage, cached, online, listed, work,
                 recount, faults>>

Miss(e) ==
  /\ pc[e] = "started"
  /\ work[e].input \notin cached
  /\ Goto(e, "missed")
  /\ UNCHANGED <<execution, charges, balance, spent, usage, cached, online,
                 listed, work, recount, faults>>

\* get_available_providers: a cached list is used as it is; an empty one is not
\* taken for cached and is fetched again.
Available == listed \/ online

\* select_provider has no provider to choose from.
NoProvider(e) ==
  /\ pc[e] = "missed"
  /\ ~Available
  /\ Fail(e, "provider")
  /\ UNCHANGED <<listed, faults>>

\* select_provider looks into the cache again and answers None for a hit; its
\* caller takes None for the lack of a provider.
LateHit(e) ==
  /\ pc[e] = "missed"
  /\ Available
  /\ work[e].input \in cached
  /\ listed' = TRUE
  /\ Fail(e, "provider")
  /\ UNCHANGED faults

Price(e) ==
  /\ pc[e] = "missed"
  /\ Available
  /\ work[e].input \notin cached
  /\ listed' = TRUE
  /\ \E cost \in Costs : work' = [work EXCEPT ![e].cost = cost]
  /\ Goto(e, "priced")
  /\ UNCHANGED <<execution, charges, balance, spent, usage, cached, online,
                 recount, faults>>

-----------------------------------------------------------------------------
(* The charge                                                              *)

\* Mutant: a request without credits waits for them.
InsolventWaits(e) == FALSE

\* The first check of the balance, on an unlocked read of the wallet.
Insolvent(e) ==
  /\ pc[e] = "priced"
  /\ balance[work[e].wallet] < work[e].cost
  /\ Fail(e, "credits")
  /\ UNCHANGED <<listed, faults>>

\* Mutant: the result is cached before it is paid for.
SolventCaches(e) ==
  /\ pc[e] = "priced"
  /\ balance[work[e].wallet] >= work[e].cost
  /\ cached' = cached \cup {work[e].input}
  /\ Goto(e, "solvent")
  /\ UNCHANGED <<execution, charges, balance, spent, usage, online, listed,
                 work, recount, faults>>

Solvent(e) ==
  /\ pc[e] = "priced"
  /\ balance[work[e].wallet] >= work[e].cost
  /\ Goto(e, "solvent")
  /\ UNCHANGED <<execution, charges, balance, spent, usage, cached, online,
                 listed, work, recount, faults>>

\* Mutant: the balance is not checked again under the lock.
LockWalletUnchecked(e) ==
  /\ pc[e] = "solvent"
  /\ ~WalletLocked(work[e].wallet)
  /\ work' = [work EXCEPT ![e].balance = balance[work[e].wallet]]
  /\ Goto(e, "locked")
  /\ UNCHANGED <<execution, charges, balance, spent, usage, cached, online,
                 listed, recount, faults>>

\* burn_credits locks the wallet and checks again; its ValueError is caught.
Overdrawn(e) ==
  /\ pc[e] = "solvent"
  /\ ~WalletLocked(work[e].wallet)
  /\ balance[work[e].wallet] < work[e].cost
  /\ Fail(e, "payment")
  /\ UNCHANGED <<listed, faults>>

LockWallet(e) ==
  LET w == work[e].wallet
  IN /\ pc[e] = "solvent"
     /\ ~WalletLocked(w)
     /\ balance[w] >= work[e].cost
     /\ work' = [work EXCEPT ![e].balance = balance[w]]
     /\ Goto(e, "locked")
     /\ UNCHANGED <<execution, charges, balance, spent, usage, cached, online,
                    listed, recount, faults>>

\* burn_credits writes the reserve, whose row stays locked until the end.
Charge(e) ==
  /\ pc[e] = "locked"
  /\ ~ReserveLocked
  /\ Goto(e, "charged")
  /\ UNCHANGED <<execution, charges, balance, spent, usage, cached, online,
                 listed, work, recount, faults>>

\* cache.delete fails at the end of burn_credits: its savepoint is rolled back
\* and the error caught.
ChargeFails(e) ==
  /\ pc[e] = "charged"
  /\ faults < MaxFaults
  /\ faults' = faults + 1
  /\ Fail(e, "payment")
  /\ UNCHANGED listed

-----------------------------------------------------------------------------
(* The outcome                                                             *)

\* CacheService.set: other requests see the result before the commit.
Cache(e) ==
  /\ pc[e] = "charged"
  /\ cached' = cached \cup {work[e].input}
  /\ Goto(e, "cached")
  /\ UNCHANGED <<execution, charges, balance, spent, usage, online, listed,
                 work, recount, faults>>

\* CacheService.set raises; the result may have been stored all the same.
CacheFails(e) ==
  /\ pc[e] = "charged"
  /\ faults < MaxFaults
  /\ faults' = faults + 1
  /\ cached' \in {cached, cached \cup {work[e].input}}
  /\ Goto(e, "refunding")
  /\ UNCHANGED <<execution, charges, balance, spent, usage, online, listed,
                 work, recount>>

\* skill.save writes the count read at the start of the call, plus one.
Count(e) ==
  /\ pc[e] = "cached"
  /\ ~SkillLocked
  /\ Goto(e, "counted")
  /\ UNCHANGED <<execution, charges, balance, spent, usage, cached, online,
                 listed, work, recount, faults>>

\* The post_save signal of the skill deletes cache entries; when that fails, the
\* execution fails with its count in the transaction.
CountFails(e) ==
  /\ pc[e] = "counted"
  /\ faults < MaxFaults
  /\ faults' = faults + 1
  /\ Goto(e, "miscounted")
  /\ UNCHANGED <<execution, charges, balance, spent, usage, cached, online,
                 listed, work, recount>>

\* The commit of a paid execution.
Complete(e) ==
  /\ pc[e] = "counted"
  /\ execution' = [execution EXCEPT ![e].status = "completed"]
  /\ charges' = [charges EXCEPT ![e] = <<-work[e].cost>>]
  /\ balance' = [balance EXCEPT ![work[e].wallet] = work[e].balance - work[e].cost]
  /\ usage' = work[e].usage + 1
  /\ Goto(e, "done")
  /\ UNCHANGED <<spent, cached, online, listed, work, recount, faults>>

Refunding(e) == pc[e] \in {"refunding", "miscounted"}

\* Mutant: the failure is committed without the refund.
RefundForgotten(e) ==
  /\ Refunding(e)
  /\ execution' = [execution EXCEPT ![e].status = "failed",
                      ![e].error = IF pc[e] = "miscounted" THEN "signal" ELSE "cache"]
  /\ charges' = [charges EXCEPT ![e] = <<-work[e].cost>>]
  /\ balance' = [balance EXCEPT ![work[e].wallet] = work[e].balance - work[e].cost]
  /\ usage' = IF pc[e] = "miscounted" THEN work[e].usage + 1 ELSE usage
  /\ Goto(e, "done")
  /\ UNCHANGED <<spent, cached, online, listed, work, recount, faults>>

\* The refund mints what was burned, and both are committed with the failure, and with
\* the count of an execution that failed after it.
Refund(e) ==
  /\ Refunding(e)
  /\ work[e].cost <= Backing
  /\ execution' = [execution EXCEPT ![e].status = "failed",
                      ![e].error = IF pc[e] = "miscounted" THEN "signal" ELSE "cache"]
  /\ charges' = [charges EXCEPT ![e] = <<-work[e].cost, work[e].cost>>]
  /\ balance' = [balance EXCEPT ![work[e].wallet] = work[e].balance]
  /\ usage' = IF pc[e] = "miscounted" THEN work[e].usage + 1 ELSE usage
  /\ Goto(e, "done")
  /\ UNCHANGED <<spent, cached, online, listed, work, recount, faults>>

\* Everything since the row was queued is undone; nothing runs it again.
Rollback(e) ==
  /\ Goto(e, "dead")
  /\ UNCHANGED <<execution, charges, balance, spent, usage, cached, online,
                 listed, work, recount>>

\* mint_credits finds no backing: its ValueError leaves execute_skill.
RefundFails(e) ==
  /\ Refunding(e)
  /\ work[e].cost > Backing
  /\ Rollback(e)
  /\ UNCHANGED faults

\* The worker dies, the cache fails where no one catches the error, or a statement of
\* the database fails, which aborts the transaction.
Die(e) ==
  /\ pc[e] \in InTransaction \cup {"queued"}
  /\ faults < MaxFaults
  /\ faults' = faults + 1
  /\ Rollback(e)

-----------------------------------------------------------------------------
(* The rest of the system                                                  *)

\* A committed call of transfer_credits or burn_credits takes credits.
Spend(w) ==
  /\ ~WalletLocked(w)
  /\ \E amount \in 1..balance[w] :
       /\ balance' = [balance EXCEPT ![w] = @ - amount]
       /\ spent' = [spent EXCEPT ![w] = @ + amount]
  /\ UNCHANGED <<execution, charges, usage, cached, online, listed, work, pc,
                 recount, faults>>

\* update_provider_health and the quota turn the providers off and on.
Switch ==
  /\ online' = ~online
  /\ UNCHANGED <<execution, charges, balance, spent, usage, cached, listed,
                 work, pc, recount, faults>>

\* Entries of the cache reach their time to live.
ExpireResult(i) ==
  /\ i \in cached
  /\ cached' = cached \ {i}
  /\ UNCHANGED <<execution, charges, balance, spent, usage, online, listed,
                 work, pc, recount, faults>>

ExpireProviders ==
  /\ listed
  /\ listed' = FALSE
  /\ UNCHANGED <<execution, charges, balance, spent, usage, cached, online,
                 work, pc, recount, faults>>

\* The execution was served by a provider, not by the cache.
Paid(e) == execution[e].status = "completed" /\ ~execution[e].hit

Completed == {e \in Executions : execution[e].status = "completed"}

\* The execution failed after it had counted itself.
Miscounted == {e \in Executions : execution[e].error = "signal"}

\* Mutant: the rows are counted whatever their status.
RecountAll ==
  /\ recount = NoCount
  /\ recount' = Cardinality(Executions)
  /\ UNCHANGED <<execution, charges, balance, spent, usage, cached, online,
                 listed, work, pc, faults>>

\* update_skill_stats counts the completed rows, hits included ...
RecountRead ==
  /\ recount = NoCount
  /\ recount' = Cardinality(Completed)
  /\ UNCHANGED <<execution, charges, balance, spent, usage, cached, online,
                 listed, work, pc, faults>>

\* ... and saves the count, when the row of the skill is free.
RecountSave ==
  /\ recount # NoCount
  /\ ~SkillLocked
  /\ usage' = recount
  /\ recount' = NoCount
  /\ UNCHANGED <<execution, charges, balance, spent, cached, online, listed,
                 work, pc, faults>>

Step(e) ==
  \/ Queue(e) \/ Deny(e) \/ Start(e) \/ Hit(e) \/ Miss(e)
  \/ NoProvider(e) \/ LateHit(e) \/ Price(e)
  \/ Insolvent(e) \/ Solvent(e) \/ Overdrawn(e) \/ LockWallet(e) \/ Charge(e)
  \/ Cache(e) \/ Count(e) \/ Complete(e) \/ Refund(e) \/ RefundFails(e)

Next ==
  \/ \E e \in Executions : Step(e) \/ ChargeFails(e) \/ CacheFails(e) \/ CountFails(e) \/ Die(e)
  \/ \E w \in Wallets : Spend(w)
  \/ \E i \in Inputs : ExpireResult(i)
  \/ Switch \/ ExpireProviders \/ RecountRead \/ RecountSave

Spec == Init /\ [][Next]_vars

\* The thread of a request runs on, and a row lock that is free is granted.
FairSpec == Spec /\ \A e \in Executions : WF_vars(Step(e))
-----------------------------------------------------------------------------
(* Properties                                                              *)

\* Every variable keeps its type.
TypeOK ==
  /\ execution \in [Executions -> Row]
  /\ charges \in [Executions -> Seq(Int)]
  /\ balance \in [Wallets -> Nat] /\ spent \in [Wallets -> Nat]
  /\ usage \in Nat
  /\ cached \subseteq Inputs
  /\ online \in BOOLEAN /\ listed \in BOOLEAN
  /\ work \in [Executions -> Work]
  /\ pc \in [Executions -> Stages]
  /\ recount \in Nat \cup {NoCount}
  /\ faults \in 0..MaxFaults

NetCharge(e) == -SumFunction(charges[e])

\* A completed execution has paid its cost once, unless the cache served it, and
\* any other has paid nothing, whatever failed between the charge and the commit.
\* That a hit pays nothing is what execute_skill does; calculate_cost would charge it.
ChargedWhenServed ==
  \A e \in Executions : NetCharge(e) = IF Paid(e) THEN work[e].cost ELSE 0

\* The balance of a wallet is what its executions and the other calls have left of
\* it: no charge is lost to another one, and none overdraws the wallet.
WalletsExplained ==
  \A w \in Wallets :
    LET own == {e \in Executions : work[e].wallet = w}
        net == [e \in Executions |-> NetCharge(e)]
    IN /\ balance[w] = Opening[w] - spent[w] - SumFunctionOnSet(net, own)
       /\ balance[w] >= 0

\* A result in the cache has been paid for: an execution served by it shares its
\* input with one that has paid, or that is about to commit its charge, unless a
\* worker has died or the cache has failed.
HitsWerePaid ==
  faults = 0 =>
    \A e \in Executions : execution[e].hit =>
      \E f \in Executions : /\ work[f].input = work[e].input
                            /\ Paid(f) \/ pc[f] \in {"cached", "counted"}

\* Calls that overlap lose counts of one another, and update_skill_stats saves a
\* count that may be old, but no one ever counts an execution twice, and only those
\* that completed or that failed after the count are counted.
UsageNotOverstated == usage <= Cardinality(Completed \cup Miscounted)

\* "No provider available" is said only when there is none: select_provider's
\* None for a cache hit is not a failure.
FailsForCause ==
  [][\A e \in Executions :
       execution'[e].error = "provider" /\ execution[e].error = "" => ~Available]_vars

\* "Minimal cache hit fee": an execution that the cache has served has paid one.
HitsPayTheirFee ==
  \A e \in Executions : execution[e].status = "completed" /\ execution[e].hit => NetCharge(e) > 0

\* Every request comes to an end: the locks are taken in one order, wallet, reserve,
\* skill, so that no two of them wait for each other.
EveryRequestEnds == <>(\A e \in Executions : pc[e] \in {"done", "dead"})
=============================================================================

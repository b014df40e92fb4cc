-------------------------- MODULE ExecutionsProofs --------------------------
(***************************************************************************)
(* Theorems about Executions for every set of executions, wallets, inputs  *)
(* and costs, every balance and any number of faults.                      *)
(***************************************************************************)
EXTENDS Executions, SumLemmas

\* The cost of a call that holds its wallet is covered by the balance it read.
Funded == \A e \in Executions : pc[e] \in HoldsWallet => work[e].cost <= work[e].balance

TypeInv == TypeOK /\ Funded

LEMMA WorkType ==
  ASSUME TypeOK, NEW e \in Executions
  PROVE  /\ work[e].wallet \in Wallets /\ work[e].input \in Inputs
         /\ work[e].allowed \in BOOLEAN
         /\ work[e].cost \in Nat /\ work[e].balance \in Nat /\ work[e].usage \in Nat
         /\ balance[work[e].wallet] \in Nat
         /\ pc[e] \in Stages
  BY DEF TypeOK, Work

LEMMA CostIsNatural == \A cost \in Costs : cost \in Nat
  BY ExecutionsAssumption

\* The locals of a call change by an EXCEPT that keeps the request.
LEMMA WorkUpdate ==
  ASSUME TypeOK, NEW e \in Executions, NEW n \in Nat
  PROVE  /\ [work EXCEPT ![e].cost = n] \in [Executions -> Work]
         /\ [work EXCEPT ![e].balance = n] \in [Executions -> Work]
         /\ [work EXCEPT ![e].usage = n] \in [Executions -> Work]
  BY DEF TypeOK, Work

LEMMA RowUpdate ==
  ASSUME TypeOK, NEW e \in Executions, NEW s \in {"queued", "completed", "failed"},
         NEW r \in {"permission", "provider", "credits", "payment", "cache", "signal"}
  PROVE  /\ [execution EXCEPT ![e].status = s] \in [Executions -> Row]
         /\ [execution EXCEPT ![e].status = s, ![e].hit = TRUE] \in [Executions -> Row]
         /\ [execution EXCEPT ![e].status = s, ![e].error = r] \in [Executions -> Row]
  BY DEF TypeOK, Row

LEMMA InitTypeInv == Init => TypeInv
<1> SUFFICES ASSUME Init PROVE TypeInv
  OBVIOUS
<1>1. PICK request \in [Executions -> Request] :
        work = [e \in Executions |->
                  [wallet |-> request[e].wallet, input |-> request[e].input,
                   allowed |-> request[e].allowed,
                   cost |-> 0, balance |-> 0, usage |-> 0]]
  BY DEF Init
<1>2. work \in [Executions -> Work]
  BY <1>1 DEF Request, Work
<1>3. execution \in [Executions -> Row]
  BY DEF Init, Row
<1>4. charges \in [Executions -> Seq(Int)]
  <2>1. <<>> \in Seq(Int)
    OBVIOUS
  <2>2. QED
    BY <2>1 DEF Init
<1>5. /\ balance \in [Wallets -> Nat] /\ spent \in [Wallets -> Nat]
      /\ usage \in Nat /\ recount \in Nat \cup {NoCount} /\ faults \in 0..MaxFaults
      /\ cached \subseteq Inputs /\ online \in BOOLEAN /\ listed \in BOOLEAN
  <2>1. Opening \in [Wallets -> Nat] /\ MaxFaults \in Nat
    BY ExecutionsAssumption
  <2>2. /\ balance = Opening /\ spent = [w \in Wallets |-> 0] /\ usage = 0
        /\ recount = NoCount /\ faults = 0 /\ cached = {} /\ online = TRUE
        /\ listed = FALSE
    BY DEF Init
  <2>3. online \in BOOLEAN /\ listed \in BOOLEAN
    BY <2>2, Zenon
  <2>4. QED
    BY <2>1, <2>2, <2>3
<1>6. pc \in [Executions -> Stages] /\ Funded
  BY DEF Init, Stages, Funded, HoldsWallet, HoldsReserve, HoldsSkill
<1>7. QED
  BY <1>2, <1>3, <1>4, <1>5, <1>6 DEF TypeInv, TypeOK

LEMMA FailTypeInv ==
  ASSUME TypeInv, NEW e \in Executions,
         NEW r \in {"permission", "provider", "credits", "payment", "cache"},
         Fail(e, r), listed' \in BOOLEAN, faults' \in 0..MaxFaults
  PROVE  TypeInv'
<1>1. execution' \in [Executions -> Row]
  BY RowUpdate DEF Fail, TypeInv
<1>2. QED
  BY <1>1
  DEF Fail, Goto, TypeInv, TypeOK, Funded, Stages, HoldsWallet, HoldsReserve, HoldsSkill

\* A call that moves on, with nothing else changed but the cache and the faults.
LEMMA MoveTypeInv ==
  ASSUME TypeInv, NEW e \in Executions, NEW stage \in Stages, Goto(e, stage),
         stage \in HoldsWallet => pc[e] \in HoldsWallet,
         cached' \subseteq Inputs, faults' \in 0..MaxFaults,
         UNCHANGED <<execution, charges, balance, spent, usage, online, listed,
                     work, recount>>
  PROVE  TypeInv'
  BY DEF Goto, TypeInv, TypeOK, Funded

LEMMA StepTypeInv ==
  ASSUME TypeInv, NEW e \in Executions, Step(e)
  PROVE  TypeInv'
<1> USE DEF TypeInv
<1>t. /\ faults \in 0..MaxFaults /\ listed \in BOOLEAN /\ cached \subseteq Inputs
      /\ cached \cup {work[e].input} \subseteq Inputs
  BY WorkType DEF TypeOK
<1>1. CASE Queue(e)
  <2>1. execution' \in [Executions -> Row]
    BY <1>1, RowUpdate DEF Queue
  <2>2. QED
    BY <1>1, <2>1
    DEF Queue, Goto, TypeOK, Funded, Stages, HoldsWallet, HoldsReserve, HoldsSkill
<1>2. CASE Deny(e)
  BY <1>2, <1>t, FailTypeInv DEF Deny
<1>3. CASE Start(e)
  <2>1. work' \in [Executions -> Work]
    BY <1>3, WorkUpdate DEF Start, TypeOK
  <2>2. QED
    BY <1>3, <2>1
    DEF Start, Goto, TypeOK, Funded, Stages, HoldsWallet, HoldsReserve, HoldsSkill
<1>4. CASE Hit(e)
  <2>1. execution' \in [Executions -> Row]
    BY <1>4, RowUpdate DEF Hit
  <2>2. QED
    BY <1>4, <2>1
    DEF Hit, Goto, TypeOK, Funded, Stages, HoldsWallet, HoldsReserve, HoldsSkill
<1>5. CASE Miss(e)
  BY <1>5, <1>t, MoveTypeInv DEF Miss, Stages, HoldsWallet, HoldsReserve, HoldsSkill
<1>6. CASE NoProvider(e)
  BY <1>6, <1>t, FailTypeInv DEF NoProvider
<1>7. CASE LateHit(e)
  BY <1>7, <1>t, FailTypeInv DEF LateHit
<1>8. CASE Price(e)
  <2>1. PICK cost \in Costs : work' = [work EXCEPT ![e].cost = cost]
    BY <1>8 DEF Price
  <2>2. work' \in [Executions -> Work]
    BY <2>1, CostIsNatural, WorkUpdate
  <2>3. QED
    BY <1>8, <2>1, <2>2
    DEF Price, Goto, TypeOK, Funded, Stages, HoldsWallet, HoldsReserve, HoldsSkill
<1>9. CASE Insolvent(e)
  BY <1>9, <1>t, FailTypeInv DEF Insolvent
<1>10. CASE Solvent(e)
  BY <1>10, <1>t, MoveTypeInv DEF Solvent, Stages, HoldsWallet, HoldsReserve, HoldsSkill
<1>11. CASE Overdrawn(e)
  BY <1>11, <1>t, FailTypeInv DEF Overdrawn
<1>12. CASE LockWallet(e)
  <2>1. work' = [work EXCEPT ![e].balance = balance[work[e].wallet]]
    BY <1>12 DEF LockWallet
  <2>2. work' \in [Executions -> Work]
    BY <2>1, WorkType, WorkUpdate
  <2>3. work'[e].cost = work[e].cost /\ work'[e].balance = balance[work[e].wallet]
    BY <2>1 DEF TypeOK, Work
  <2>4. \A f \in Executions \ {e} : work'[f] = work[f]
    BY <2>1 DEF TypeOK
  <2>5. Funded'
    BY <1>12, <2>3, <2>4 DEF LockWallet, Goto, Funded, TypeOK
  <2>6. QED
    BY <1>12, <2>2, <2>5 DEF LockWallet, Goto, TypeOK, Stages
<1>13. CASE Charge(e)
  BY <1>13, <1>t, MoveTypeInv DEF Charge, Stages, HoldsWallet, HoldsReserve, HoldsSkill
<1>14. CASE Cache(e)
  BY <1>14, <1>t, MoveTypeInv DEF Cache, Stages, HoldsWallet, HoldsReserve, HoldsSkill
<1>15. CASE Count(e)
  BY <1>15, <1>t, MoveTypeInv DEF Count, Stages, HoldsWallet, HoldsReserve, HoldsSkill
<1>16. CASE Complete(e)
  <2>1. execution' \in [Executions -> Row]
    BY <1>16, RowUpdate DEF Complete
  <2>2. /\ work[e].balance - work[e].cost \in Nat /\ work[e].usage + 1 \in Nat
        /\ -work[e].cost \in Int
    BY <1>16, WorkType DEF Complete, Funded, HoldsWallet, HoldsReserve, HoldsSkill
  <2>3. charges' \in [Executions -> Seq(Int)]
    BY <1>16, <2>2 DEF Complete, TypeOK
  <2>4. balance' \in [Wallets -> Nat]
    BY <1>16, <2>2 DEF Complete, TypeOK
  <2>5. QED
    BY <1>16, <2>1, <2>2, <2>3, <2>4
    DEF Complete, Goto, TypeOK, Funded, Stages, HoldsWallet, HoldsReserve, HoldsSkill
<1>17. CASE Refund(e)
  <2> DEFINE reason == IF pc[e] = "miscounted" THEN "signal" ELSE "cache"
  <2>1. execution' \in [Executions -> Row]
    <3>1. /\ reason \in {"permission", "provider", "credits", "payment", "cache", "signal"}
          /\ execution' = [execution EXCEPT ![e].status = "failed", ![e].error = reason]
      BY <1>17 DEF Refund
    <3> HIDE DEF reason
    <3> QED BY <3>1, RowUpdate
  <2>2. /\ work[e].balance \in Nat /\ -work[e].cost \in Int /\ work[e].cost \in Int
        /\ work[e].usage + 1 \in Nat
    BY WorkType
  <2>3. <<-work[e].cost, work[e].cost>> \in Seq(Int)
    BY <2>2
  <2>4. charges' \in [Executions -> Seq(Int)]
    BY <1>17, <2>3 DEF Refund, TypeOK
  <2>5. balance' \in [Wallets -> Nat]
    BY <1>17, <2>2 DEF Refund, TypeOK
  <2>6. QED
    BY <1>17, <2>1, <2>2, <2>4, <2>5
    DEF Refund, Goto, TypeOK, Funded, Stages, HoldsWallet, HoldsReserve, HoldsSkill
<1>18. CASE RefundFails(e)
  BY <1>18, <1>t, MoveTypeInv
  DEF RefundFails, Refunding, Rollback, Stages, HoldsWallet, HoldsReserve, HoldsSkill
<1>19. QED
  BY <1>1, <1>2, <1>3, <1>4, <1>5, <1>6, <1>7, <1>8, <1>9, <1>10, <1>11, <1>12,
     <1>13, <1>14, <1>15, <1>16, <1>17, <1>18 DEF Step

LEMMA FaultTypeInv ==
  ASSUME TypeInv, NEW e \in Executions, ChargeFails(e) \/ CacheFails(e) \/ CountFails(e) \/ Die(e)
  PROVE  TypeInv'
<1> USE DEF TypeInv
<1>t. /\ faults < MaxFaults => faults + 1 \in 0..MaxFaults
      /\ listed \in BOOLEAN /\ cached \subseteq Inputs
      /\ cached \cup {work[e].input} \subseteq Inputs
  BY WorkType, ExecutionsAssumption DEF TypeOK
<1>1. CASE ChargeFails(e)
  BY <1>1, <1>t, FailTypeInv DEF ChargeFails
<1>2. CASE CacheFails(e)
  BY <1>2, <1>t, MoveTypeInv DEF CacheFails, Stages, HoldsWallet, HoldsReserve, HoldsSkill
<1>3. CASE CountFails(e)
  BY <1>3, <1>t, MoveTypeInv DEF CountFails, Stages, HoldsWallet, HoldsReserve, HoldsSkill
<1>4. CASE Die(e)
  BY <1>4, <1>t, MoveTypeInv
  DEF Die, Rollback, Stages, HoldsWallet, HoldsReserve, HoldsSkill
<1>5. QED
  BY <1>1, <1>2, <1>3, <1>4

LEMMA CompletedIsFinite == IsFiniteSet(Completed) /\ Cardinality(Completed) \in Nat
<1>1. Completed \in SUBSET Executions
  BY DEF Completed
<1>2. IsFiniteSet(Completed)
  BY <1>1, ExecutionsAssumption, FS_Subset
<1>3. QED
  BY <1>2, FS_CardinalityType

LEMMA EnvironmentTypeInv ==
  ASSUME TypeInv,
         \/ \E w \in Wallets : Spend(w)
         \/ \E i \in Inputs : ExpireResult(i)
         \/ Switch \/ ExpireProviders \/ RecountRead \/ RecountSave
  PROVE  TypeInv'
<1> USE DEF TypeInv, Funded
<1>1. ASSUME NEW w \in Wallets, Spend(w) PROVE TypeInv'
  <2>1. PICK amount \in 1..balance[w] :
           /\ balance' = [balance EXCEPT ![w] = @ - amount]
           /\ spent' = [spent EXCEPT ![w] = @ + amount]
    BY <1>1 DEF Spend
  <2>2. balance[w] \in Nat /\ spent[w] \in Nat
    BY DEF TypeOK
  <2>3. balance[w] - amount \in Nat /\ spent[w] + amount \in Nat
    BY <2>2
  <2>4. balance' \in [Wallets -> Nat] /\ spent' \in [Wallets -> Nat]
    BY <2>1, <2>3 DEF TypeOK
  <2>5. QED
    BY <1>1, <2>4 DEF Spend, TypeOK
<1>2. ASSUME NEW i \in Inputs, ExpireResult(i) PROVE TypeInv'
  BY <1>2 DEF ExpireResult, TypeOK
<1>3. CASE Switch
  <2>1. online' \in BOOLEAN
    BY <1>3 DEF Switch, TypeOK
  <2>2. QED
    BY <1>3, <2>1 DEF Switch, TypeOK
<1>4. CASE ExpireProviders
  BY <1>4 DEF ExpireProviders, TypeOK
<1>5. CASE RecountRead
  BY <1>5, CompletedIsFinite DEF RecountRead, TypeOK
<1>6. CASE RecountSave
  BY <1>6 DEF RecountSave, TypeOK
<1>7. QED
  BY <1>1, <1>2, <1>3, <1>4, <1>5, <1>6

LEMMA NextTypeInv == TypeInv /\ [Next]_vars => TypeInv'
<1> SUFFICES ASSUME TypeInv, [Next]_vars PROVE TypeInv'
  OBVIOUS
<1>1. CASE Next
  BY <1>1, StepTypeInv, FaultTypeInv, EnvironmentTypeInv DEF Next
<1>2. CASE UNCHANGED vars
  BY <1>2 DEF vars, TypeInv, TypeOK, Funded
<1>3. QED
  BY <1>1, <1>2

LEMMA AlwaysTypeInv == Spec => []TypeInv
  BY InitTypeInv, NextTypeInv, PTL DEF Spec

\* Every variable keeps its type, in particular no balance becomes negative: a call
\* of burn_credits that holds the wallet has checked its cost under the lock.
THEOREM TypeCorrect == Spec => []TypeOK
<1>1. TypeInv => TypeOK
  BY DEF TypeInv
<1>2. QED
  BY <1>1, AlwaysTypeInv, PTL

-----------------------------------------------------------------------------
(* The count of uses                                                       *)

\* A call that is not over has not completed anything yet, nor committed a count.
Unfinished ==
  \A e \in Executions :
    pc[e] # "done" => /\ execution[e].status # "completed" /\ ~execution[e].hit
                      /\ execution[e].error # "signal"

\* The executions whose count may be in usage.
Counted == Completed \cup Miscounted

\* Every count that is or may be saved is at most the number of counted rows; the
\* one a call has read has its own commit still to come.
UsageInv ==
  /\ Unfinished
  /\ usage <= Cardinality(Counted)
  /\ \A e \in Executions : work[e].usage <= Cardinality(Counted)
  /\ recount # NoCount => recount <= Cardinality(Counted)

LEMMA InitUnfinished == Init => Unfinished
<1> SUFFICES ASSUME Init, NEW e \in Executions
             PROVE  /\ execution[e].status # "completed" /\ ~execution[e].hit
                    /\ execution[e].error # "signal"
  BY DEF Unfinished
<1>1. execution[e] = [status |-> "absent", hit |-> FALSE, error |-> ""]
  BY DEF Init
<1>2. ASSUME NEW row, row = [status |-> "absent", hit |-> FALSE, error |-> ""]
      PROVE  row.status # "completed" /\ ~row.hit /\ row.error # "signal"
  BY <1>2, Zenon
<1>3. QED
  BY <1>1, <1>2

\* A step changes the row of an execution only while its call is running.
LEMMA RowsOfOthers ==
  ASSUME TypeOK, Next
  PROVE  \A e \in Executions :
           \/ execution'[e] = execution[e] /\ (pc'[e] = pc[e] \/ pc[e] # "done")
           \/ pc[e] # "done" /\ pc'[e] = "done"
           \/ pc[e] # "done" /\ execution'[e] = [execution[e] EXCEPT !.status = "queued"]
<1> SUFFICES ASSUME NEW e \in Executions
             PROVE  \/ execution'[e] = execution[e] /\ (pc'[e] = pc[e] \/ pc[e] # "done")
                    \/ pc[e] # "done" /\ pc'[e] = "done"
                    \/ /\ pc[e] # "done"
                       /\ execution'[e] = [execution[e] EXCEPT !.status = "queued"]
  OBVIOUS
<1>1. ASSUME NEW f \in Executions, Step(f)
      PROVE  /\ \A g \in Executions \ {f} : execution'[g] = execution[g] /\ pc'[g] = pc[g]
             /\ pc[f] # "done"
             /\ \/ execution'[f] = execution[f]
                \/ pc'[f] = "done"
                \/ execution'[f] = [execution[f] EXCEPT !.status = "queued"]
  BY <1>1 DEF Step, Queue, Deny, Start, Hit, Miss, NoProvider, LateHit, Price,
     Insolvent, Solvent, Overdrawn, LockWallet, Charge, Cache, Count, Complete,
     Refund, RefundFails, Refunding, Rollback, Fail, Goto, TypeOK
<1>2. ASSUME NEW f \in Executions,
             ChargeFails(f) \/ CacheFails(f) \/ CountFails(f) \/ Die(f)
      PROVE  /\ \A g \in Executions \ {f} : execution'[g] = execution[g] /\ pc'[g] = pc[g]
             /\ pc[f] # "done"
             /\ execution'[f] = execution[f] \/ pc'[f] = "done"
  BY <1>2 DEF ChargeFails, CacheFails, CountFails, Die, Rollback, Fail, Goto, TypeOK,
     InTransaction, HoldsWallet, HoldsReserve, HoldsSkill
<1>3. CASE \/ \E w \in Wallets : Spend(w)
           \/ \E i \in Inputs : ExpireResult(i)
           \/ Switch \/ ExpireProviders \/ RecountRead \/ RecountSave
  BY <1>3 DEF Spend, ExpireResult, Switch, ExpireProviders, RecountRead, RecountSave
<1>4. QED
  BY <1>1, <1>2, <1>3 DEF Next

LEMMA UnfinishedKept ==
  ASSUME TypeOK, Unfinished, Next
  PROVE  Unfinished'
<1> SUFFICES ASSUME NEW e \in Executions, pc'[e] # "done"
             PROVE  /\ execution'[e].status # "completed" /\ ~execution'[e].hit
                    /\ execution'[e].error # "signal"
  BY DEF Unfinished
<1>1. \/ execution'[e] = execution[e] /\ pc[e] # "done"
      \/ pc[e] # "done" /\ execution'[e] = [execution[e] EXCEPT !.status = "queued"]
  BY RowsOfOthers
<1>2. /\ execution[e].status # "completed" /\ ~execution[e].hit
      /\ execution[e].error # "signal" /\ execution[e] \in Row
  BY <1>1 DEF Unfinished, TypeOK
<1>3. CASE execution'[e] = execution[e]
  BY <1>2, <1>3
<1>4. CASE execution'[e] = [execution[e] EXCEPT !.status = "queued"]
  <2>1. /\ execution'[e].status = "queued" /\ execution'[e].hit = execution[e].hit
        /\ execution'[e].error = execution[e].error
    BY <1>2, <1>4 DEF Row
  <2>2. QED
    BY <1>2, <2>1
<1>5. QED
  BY <1>1, <1>3, <1>4

LEMMA CountedGrows ==
  ASSUME TypeOK, Unfinished, Next
  PROVE  Counted \subseteq Counted'
<1> SUFFICES ASSUME NEW e \in Counted PROVE e \in Counted'
  OBVIOUS
<1>1. e \in Executions /\ pc[e] = "done"
  BY DEF Counted, Completed, Miscounted, Unfinished
<1>2. execution'[e] = execution[e]
  BY <1>1, RowsOfOthers
<1>3. QED
  BY <1>1, <1>2 DEF Counted, Completed, Miscounted

LEMMA CountedIsFinite ==
  /\ IsFiniteSet(Counted) /\ Cardinality(Counted) \in Nat
  /\ Cardinality(Completed) <= Cardinality(Counted)
<1>1. Counted \in SUBSET Executions /\ Completed \in SUBSET Counted
  BY DEF Counted, Completed, Miscounted
<1>2. IsFiniteSet(Counted)
  BY <1>1, ExecutionsAssumption, FS_Subset
<1>3. QED
  BY <1>1, <1>2, FS_Subset, FS_CardinalityType

\* A paid execution is counted by its commit, and so is one that failed after its count.
Commits(e) == Complete(e) \/ (Refund(e) /\ pc[e] = "miscounted")

LEMMA CommitsAreCounted ==
  ASSUME TypeOK, Unfinished, NEW e \in Executions, Commits(e)
  PROVE  e \notin Counted /\ e \in Counted' /\ usage' = work[e].usage + 1
<1>1. execution[e] \in Row /\ pc[e] # "done"
  BY DEF Commits, Complete, Refund, Refunding, TypeOK
<1>2. e \notin Counted
  BY <1>1 DEF Counted, Completed, Miscounted, Unfinished
<1>3. CASE Complete(e)
  <2>1. execution'[e] = [execution[e] EXCEPT !.status = "completed"]
    BY <1>3 DEF Complete, TypeOK
  <2>2. execution'[e].status = "completed"
    BY <1>1, <2>1 DEF Row
  <2>3. QED
    BY <1>2, <1>3, <2>2 DEF Complete, Counted, Completed
<1>4. CASE Refund(e) /\ pc[e] = "miscounted"
  <2>1. execution'[e] = [execution[e] EXCEPT !.status = "failed", !.error = "signal"]
    BY <1>4 DEF Refund, TypeOK
  <2>2. execution'[e].error = "signal"
    BY <1>1, <2>1 DEF Row
  <2>3. QED
    BY <1>2, <1>4, <2>2 DEF Refund, Counted, Miscounted
<1>5. QED
  BY <1>3, <1>4 DEF Commits

\* Where each count comes from.
LEMMA Counts ==
  ASSUME TypeOK, Next
  PROVE  /\ usage' = usage \/ RecountSave \/ (\E e \in Executions : Commits(e))
         /\ \A e \in Executions : work'[e].usage \in {work[e].usage, usage}
         /\ recount' \in {recount, NoCount, Cardinality(Completed)}
<1>1. ASSUME NEW f \in Executions, Step(f)
      PROVE  /\ usage' = usage \/ Commits(f)
             /\ \A e \in Executions : work'[e].usage \in {work[e].usage, usage}
             /\ recount' = recount
  <2>1. recount' = recount /\ (usage' = usage \/ Commits(f))
    BY <1>1 DEF Commits, Step, Queue, Deny, Start, Hit, Miss, NoProvider, LateHit, Price,
       Insolvent, Solvent, Overdrawn, LockWallet, Charge, Cache, Count, Complete,
       Refund, RefundFails, Refunding, Rollback, Fail
  <2>2. \/ work' = work
        \/ work' = [work EXCEPT ![f].usage = usage]
        \/ \E n : work' = [work EXCEPT ![f].cost = n]
        \/ \E n : work' = [work EXCEPT ![f].balance = n]
    BY <1>1 DEF Step, Queue, Deny, Start, Hit, Miss, NoProvider, LateHit, Price,
       Insolvent, Solvent, Overdrawn, LockWallet, Charge, Cache, Count, Complete,
       Refund, RefundFails, Refunding, Rollback, Fail
  <2>3. \A e \in Executions : work'[e].usage \in {work[e].usage, usage}
    <3>1. CASE work' = work
      BY <3>1
    <3>2. CASE work' = [work EXCEPT ![f].usage = usage]
      BY <3>2 DEF TypeOK, Work
    <3>3. ASSUME NEW n, work' = [work EXCEPT ![f].cost = n]
          PROVE  \A e \in Executions : work'[e].usage = work[e].usage
      BY <3>3 DEF TypeOK, Work
    <3>4. ASSUME NEW n, work' = [work EXCEPT ![f].balance = n]
          PROVE  \A e \in Executions : work'[e].usage = work[e].usage
      BY <3>4 DEF TypeOK, Work
    <3>5. QED
      BY <2>2, <3>1, <3>2, <3>3, <3>4
  <2>4. QED
    BY <2>1, <2>3
<1>2. ASSUME NEW f \in Executions,
             ChargeFails(f) \/ CacheFails(f) \/ CountFails(f) \/ Die(f)
      PROVE  usage' = usage /\ work' = work /\ recount' = recount
  BY <1>2 DEF ChargeFails, CacheFails, CountFails, Die, Rollback, Fail
<1>3. CASE \/ \E w \in Wallets : Spend(w)
           \/ \E i \in Inputs : ExpireResult(i)
           \/ Switch \/ ExpireProviders \/ RecountRead \/ RecountSave
  BY <1>3 DEF Spend, ExpireResult, Switch, ExpireProviders, RecountRead, RecountSave
<1>4. QED
  BY <1>1, <1>2, <1>3 DEF Next

LEMMA InitUsageInv == Init => UsageInv
<1> SUFFICES ASSUME Init PROVE UsageInv
  OBVIOUS
<1>1. usage = 0 /\ recount = NoCount
  BY DEF Init
<1>2. \A e \in Executions : work[e].usage = 0
  <2>1. PICK request \in [Executions -> Request] :
          work = [e \in Executions |->
                    [wallet |-> request[e].wallet, input |-> request[e].input,
                     allowed |-> request[e].allowed,
                     cost |-> 0, balance |-> 0, usage |-> 0]]
    BY DEF Init
  <2>2. QED
    BY <2>1
<1>3. 0 <= Cardinality(Counted)
  BY CountedIsFinite
<1>4. QED
  BY <1>1, <1>2, <1>3, InitUnfinished DEF UsageInv

LEMMA NextUsageInv == TypeInv /\ UsageInv /\ [Next]_vars => UsageInv'
<1> SUFFICES ASSUME TypeInv, UsageInv, Next PROVE UsageInv'
  BY DEF vars, UsageInv, Unfinished, Counted, Completed, Miscounted
<1> DEFINE C == Cardinality(Counted)
           D == Cardinality(Counted')
<1>t. TypeOK /\ Unfinished
  BY DEF TypeInv, UsageInv
<1>1. Unfinished'
  BY <1>t, UnfinishedKept
<1>2. Counted \subseteq Counted'
  BY <1>t, CountedGrows
<1>3. IsFiniteSet(Counted')
  <2>1. Counted' \in SUBSET Executions
    BY DEF Counted, Completed, Miscounted
  <2>2. QED
    BY <2>1, ExecutionsAssumption, FS_Subset
<1>4. C \in Nat /\ D \in Nat /\ C <= D
  BY <1>2, <1>3, CountedIsFinite, FS_Subset, FS_CardinalityType
<1>5. /\ usage \in Nat /\ usage <= C /\ (recount # NoCount => recount \in Nat /\ recount <= C)
      /\ \A e \in Executions : work[e].usage \in Nat /\ work[e].usage <= C
  BY <1>t, WorkType DEF UsageInv, TypeOK
<1>6. usage' <= D
  <2>1. CASE usage' = usage
    BY <1>4, <1>5, <2>1
  <2>2. CASE RecountSave
    BY <1>4, <1>5, <2>2 DEF RecountSave
  <2>3. ASSUME NEW e \in Executions, Commits(e) PROVE usage' <= D
    <3>1. e \notin Counted /\ e \in Counted' /\ usage' = work[e].usage + 1
      BY <1>t, <2>3, CommitsAreCounted
    <3>2. Counted \cup {e} \in SUBSET Counted'
      BY <1>2, <3>1
    <3>3. Cardinality(Counted \cup {e}) = C + 1
      BY <3>1, CountedIsFinite, FS_AddElement
    <3>4. C + 1 <= D
      BY <1>3, <3>2, <3>3, FS_Subset
    <3>5. QED
      BY <1>4, <1>5, <3>1, <3>4
  <2>4. QED
    BY <1>t, <2>1, <2>2, <2>3, Counts
<1>7. \A e \in Executions : work'[e].usage <= D
  BY <1>t, <1>4, <1>5, Counts
<1>8. recount' # NoCount => recount' <= D
  <2>1. Cardinality(Completed) <= C /\ Cardinality(Completed) \in Nat
    BY CountedIsFinite, CompletedIsFinite
  <2>2. QED
    BY <1>t, <1>4, <1>5, <2>1, Counts
<1>9. QED
  BY <1>1, <1>6, <1>7, <1>8 DEF UsageInv

\* Skill.usage_count never exceeds the number of executions that completed or failed
\* after their count was saved: calls of execute_skill that overlap, and
\* update_skill_stats with an old count, may lose counts but never make one up.
THEOREM UsageSound == Spec => []UsageNotOverstated
<1>1. Spec => []UsageInv
  BY InitUsageInv, NextUsageInv, AlwaysTypeInv, PTL DEF Spec
<1>2. UsageInv => UsageNotOverstated
  BY DEF UsageInv, UsageNotOverstated, Counted
<1>3. QED
  BY <1>1, <1>2, PTL

-----------------------------------------------------------------------------
(* The cache and the charges                                               *)

\* Some execution of this input has paid, or has nothing but its commit to do.
Pays(f) == Paid(f) \/ pc[f] \in {"cached", "counted"}
Backed(i) == \E f \in Executions : work[f].input = i /\ Pays(f)

\* While nothing has failed, every cached result and every hit is backed.
HitInv ==
  /\ Unfinished
  /\ faults = 0 => /\ \A i \in cached : Backed(i)
                   /\ \A e \in Executions : execution[e].hit => Backed(work[e].input)

LEMMA InputsKept ==
  ASSUME TypeOK, Next
  PROVE  \A e \in Executions : work'[e].input = work[e].input
<1>1. ASSUME NEW f \in Executions, Step(f)
      PROVE  \A e \in Executions : work'[e].input = work[e].input
  <2>1. \/ work' = work
        \/ \E n : work' = [work EXCEPT ![f].usage = n]
        \/ \E n : work' = [work EXCEPT ![f].cost = n]
        \/ \E n : work' = [work EXCEPT ![f].balance = n]
    BY <1>1 DEF Step, Queue, Deny, Start, Hit, Miss, NoProvider, LateHit, Price,
       Insolvent, Solvent, Overdrawn, LockWallet, Charge, Cache, Count, Complete,
       Refund, RefundFails, Refunding, Rollback, Fail
  <2>2. ASSUME NEW n, work' = [work EXCEPT ![f].usage = n]
        PROVE  \A e \in Executions : work'[e].input = work[e].input
    BY <2>2 DEF TypeOK, Work
  <2>3. ASSUME NEW n, work' = [work EXCEPT ![f].cost = n]
        PROVE  \A e \in Executions : work'[e].input = work[e].input
    BY <2>3 DEF TypeOK, Work
  <2>4. ASSUME NEW n, work' = [work EXCEPT ![f].balance = n]
        PROVE  \A e \in Executions : work'[e].input = work[e].input
    BY <2>4 DEF TypeOK, Work
  <2>5. QED
    BY <2>1, <2>2, <2>3, <2>4
<1>2. ASSUME NEW f \in Executions,
             ChargeFails(f) \/ CacheFails(f) \/ CountFails(f) \/ Die(f)
      PROVE  work' = work
  BY <1>2 DEF ChargeFails, CacheFails, CountFails, Die, Rollback, Fail
<1>3. CASE \/ \E w \in Wallets : Spend(w)
           \/ \E i \in Inputs : ExpireResult(i)
           \/ Switch \/ ExpireProviders \/ RecountRead \/ RecountSave
  BY <1>3 DEF Spend, ExpireResult, Switch, ExpireProviders, RecountRead, RecountSave
<1>4. QED
  BY <1>1, <1>2, <1>3 DEF Next

\* A step that is no fault and keeps the count at zero.
LEMMA NoFault ==
  ASSUME TypeOK, Next, faults' = 0
  PROVE  /\ faults = 0
         /\ \A f \in Executions : ~ChargeFails(f) /\ ~CacheFails(f) /\ ~CountFails(f) /\ ~Die(f)
<1>1. faults \in Nat /\ faults + 1 # 0
  BY ExecutionsAssumption DEF TypeOK
<1>2. \A f \in Executions : ~ChargeFails(f) /\ ~CacheFails(f) /\ ~CountFails(f) /\ ~Die(f)
  BY <1>1 DEF ChargeFails, CacheFails, CountFails, Die
<1>3. ASSUME NEW f \in Executions, Step(f) PROVE faults' = faults
  BY <1>3 DEF Step, Queue, Deny, Start, Hit, Miss, NoProvider, LateHit, Price,
     Insolvent, Solvent, Overdrawn, LockWallet, Charge, Cache, Count, Complete,
     Refund, RefundFails, Refunding, Rollback, Fail
<1>4. CASE \/ \E w \in Wallets : Spend(w)
           \/ \E i \in Inputs : ExpireResult(i)
           \/ Switch \/ ExpireProviders \/ RecountRead \/ RecountSave
  BY <1>2, <1>4 DEF Spend, ExpireResult, Switch, ExpireProviders, RecountRead, RecountSave
<1>5. QED
  BY <1>2, <1>3, <1>4 DEF Next

LEMMA PaysKept ==
  ASSUME TypeOK, Unfinished, Next, faults' = 0, NEW f \in Executions, Pays(f)
  PROVE  Pays(f)'
<1>1. CASE Paid(f)
  <2>1. pc[f] = "done"
    BY <1>1 DEF Paid, Unfinished
  <2>2. execution'[f] = execution[f]
    BY <2>1, RowsOfOthers
  <2>3. QED
    BY <1>1, <2>2 DEF Paid, Pays
<1>2. CASE pc[f] \in {"cached", "counted"}
  <2>1. execution[f].status # "completed" /\ ~execution[f].hit /\ execution[f] \in Row
    BY <1>2 DEF Unfinished, TypeOK
  <2>2. ASSUME NEW g \in Executions, Step(g) PROVE Pays(f)'
    <3>1. CASE g # f
      <4>1. pc'[f] = pc[f]
        BY <2>2, <3>1 DEF Step, Queue, Deny, Start, Hit, Miss, NoProvider, LateHit,
           Price, Insolvent, Solvent, Overdrawn, LockWallet, Charge, Cache, Count,
           Complete, Refund, RefundFails, Refunding, Rollback, Fail, Goto, TypeOK
      <4>2. QED
        BY <1>2, <4>1 DEF Pays
    <3>2. CASE g = f
      <4>1. Count(f) \/ Complete(f)
        BY <1>2, <2>2, <3>2 DEF Step, Queue, Deny, Start, Hit, Miss, NoProvider,
           LateHit, Price, Insolvent, Solvent, Overdrawn, LockWallet, Charge, Cache,
           Refund, RefundFails, Refunding
      <4>2. CASE Count(f)
        <5>1. pc'[f] = "counted"
          BY <4>2 DEF Count, Goto, TypeOK
        <5>2. QED
          BY <5>1 DEF Pays
      <4>3. CASE Complete(f)
        <5>1. execution' = [execution EXCEPT ![f].status = "completed"]
          BY <4>3 DEF Complete
        <5>2. execution'[f].status = "completed" /\ execution'[f].hit = execution[f].hit
          BY <2>1, <5>1 DEF TypeOK, Row
        <5>3. QED
          BY <2>1, <5>2 DEF Pays, Paid
      <4>4. QED
        BY <4>1, <4>2, <4>3
    <3>3. QED
      BY <3>1, <3>2
  <2>3. CASE \/ \E w \in Wallets : Spend(w)
             \/ \E i \in Inputs : ExpireResult(i)
             \/ Switch \/ ExpireProviders \/ RecountRead \/ RecountSave
    <3>1. pc' = pc
      BY <2>3 DEF Spend, ExpireResult, Switch, ExpireProviders, RecountRead, RecountSave
    <3>2. QED
      BY <1>2, <3>1 DEF Pays
  <2>4. QED
    BY <2>2, <2>3, NoFault DEF Next
<1>3. QED
  BY <1>1, <1>2 DEF Pays

LEMMA BackedKept ==
  ASSUME TypeOK, Unfinished, Next, faults' = 0, NEW i, Backed(i)
  PROVE  Backed(i)'
<1>1. PICK f \in Executions : work[f].input = i /\ Pays(f)
  BY DEF Backed
<1>2. work'[f].input = i /\ Pays(f)'
  BY <1>1, InputsKept, PaysKept
<1>3. QED
  BY <1>2 DEF Backed

\* A result enters the cache with the charge of the call that stores it.
LEMMA CacheBacked ==
  ASSUME TypeOK, Next, faults' = 0, NEW i \in cached', i \notin cached
  PROVE  Backed(i)'
<1>1. ASSUME NEW f \in Executions, Step(f) PROVE Cache(f)
  BY <1>1 DEF Step, Queue, Deny, Start, Hit, Miss, NoProvider, LateHit, Price,
     Insolvent, Solvent, Overdrawn, LockWallet, Charge, Cache, Count, Complete,
     Refund, RefundFails, Refunding, Rollback, Fail
<1>2. PICK f \in Executions : Cache(f)
  BY <1>1, NoFault DEF Next, Spend, ExpireResult, Switch, ExpireProviders,
     RecountRead, RecountSave
<1>3. i = work[f].input /\ pc'[f] = "cached" /\ work' = work
  BY <1>2 DEF Cache, Goto, TypeOK
<1>4. QED
  BY <1>3 DEF Backed, Pays

\* A new hit is one of a result that was in the cache.
LEMMA HitCached ==
  ASSUME TypeOK, Unfinished, Next, NEW e \in Executions,
         execution'[e].hit, ~execution[e].hit
  PROVE  work[e].input \in cached
<1>1. ASSUME NEW f \in Executions, Step(f) PROVE work[e].input \in cached
  <2>1. CASE Hit(f)
    <3>1. execution' = [execution EXCEPT ![f].status = "completed", ![f].hit = TRUE]
      BY <2>1 DEF Hit
    <3>2. e = f
      BY <3>1 DEF TypeOK
    <3>3. QED
      BY <2>1, <3>2 DEF Hit
  <2>2. CASE ~Hit(f)
    <3>1. \/ execution' = execution
          \/ \E s : execution' = [execution EXCEPT ![f].status = s]
          \/ \E s, r : execution' = [execution EXCEPT ![f].status = s, ![f].error = r]
      BY <1>1, <2>2 DEF Step, Queue, Deny, Start, Miss, NoProvider, LateHit, Price,
         Insolvent, Solvent, Overdrawn, LockWallet, Charge, Cache, Count, Complete,
         Refund, RefundFails, Refunding, Rollback, Fail
    <3>2. ASSUME NEW s, execution' = [execution EXCEPT ![f].status = s]
          PROVE  execution'[e].hit = execution[e].hit
      BY <3>2 DEF TypeOK, Row
    <3>3. ASSUME NEW s, NEW r,
                 execution' = [execution EXCEPT ![f].status = s, ![f].error = r]
          PROVE  execution'[e].hit = execution[e].hit
      BY <3>3 DEF TypeOK, Row
    <3>4. QED
      BY <3>1, <3>2, <3>3
  <2>3. QED
    BY <2>1, <2>2
<1>2. ASSUME NEW f \in Executions,
             ChargeFails(f) \/ CacheFails(f) \/ CountFails(f) \/ Die(f)
      PROVE  execution'[e].hit = execution[e].hit
  <2>1. \/ execution' = execution
        \/ execution' = [execution EXCEPT ![f].status = "failed", ![f].error = "payment"]
    BY <1>2 DEF ChargeFails, CacheFails, CountFails, Die, Rollback, Fail
  <2>2. QED
    BY <2>1 DEF TypeOK, Row
<1>3. CASE \/ \E w \in Wallets : Spend(w)
           \/ \E i \in Inputs : ExpireResult(i)
           \/ Switch \/ ExpireProviders \/ RecountRead \/ RecountSave
  <2>1. execution' = execution
    BY <1>3 DEF Spend, ExpireResult, Switch, ExpireProviders, RecountRead, RecountSave
  <2>2. QED
    BY <2>1
<1>4. QED
  BY <1>1, <1>2, <1>3 DEF Next

LEMMA InitHitInv == Init => HitInv
<1> SUFFICES ASSUME Init PROVE HitInv
  OBVIOUS
<1>1. cached = {} /\ Unfinished /\ \A e \in Executions : pc[e] = "sent"
  BY InitUnfinished DEF Init
<1>2. \A e \in Executions : ~execution[e].hit
  BY <1>1 DEF Unfinished
<1>3. QED
  BY <1>1, <1>2 DEF HitInv

LEMMA NextHitInv == TypeInv /\ HitInv /\ [Next]_vars => HitInv'
<1> SUFFICES ASSUME TypeInv, HitInv, Next PROVE HitInv'
  BY DEF vars, HitInv, Unfinished, Backed, Pays, Paid
<1>1. TypeOK /\ Unfinished
  BY DEF TypeInv, HitInv
<1>2. Unfinished'
  BY <1>1, UnfinishedKept
<1>3. ASSUME faults' = 0, NEW i \in cached' PROVE Backed(i)'
  <2>1. CASE i \in cached
    BY <1>1, <1>3, <2>1, NoFault, BackedKept DEF HitInv
  <2>2. CASE i \notin cached
    BY <1>1, <1>3, <2>2, CacheBacked
  <2>3. QED
    BY <2>1, <2>2
<1>4. ASSUME faults' = 0, NEW e \in Executions, execution'[e].hit
      PROVE  Backed(work[e].input)'
  <2>1. work'[e].input = work[e].input
    BY <1>1, InputsKept
  <2>2. Backed(work[e].input)
    <3>1. faults = 0
      BY <1>1, <1>4, NoFault
    <3>2. CASE execution[e].hit
      BY <3>1, <3>2 DEF HitInv
    <3>3. CASE ~execution[e].hit
      BY <1>1, <1>4, <3>1, <3>3, HitCached DEF HitInv
    <3>4. QED
      BY <3>2, <3>3
  <2>3. PICK f \in Executions : work[f].input = work[e].input /\ Pays(f)
    BY <2>2 DEF Backed
  <2>4. work'[f].input = work'[e].input /\ Pays(f)'
    BY <1>1, <1>4, <2>1, <2>3, InputsKept, PaysKept
  <2>5. QED
    BY <2>4 DEF Backed
<1>5. QED
  BY <1>2, <1>3, <1>4 DEF HitInv

\* As long as no worker dies and the cache does not fail, nobody is served from the
\* cache for free: some execution of the same input has paid for the result, or
\* has charged its wallet and is about to commit.
THEOREM HitsPaid == Spec => []HitsWerePaid
<1>1. Spec => []HitInv
  BY InitHitInv, NextHitInv, AlwaysTypeInv, PTL DEF Spec
<1>2. HitInv => HitsWerePaid
  BY DEF HitInv, HitsWerePaid, Backed, Pays
<1>3. QED
  BY <1>1, <1>2, PTL

-----------------------------------------------------------------------------
(* The accounts: what executions have paid, and what their wallets hold.    *)

\* What is committed of the charge of e: nothing before its call is over, then its
\* cost if it was served by a provider, else nothing or a charge with its refund.
ChargeInv(e) ==
  /\ pc[e] # "done" => charges[e] = <<>>
  /\ Paid(e) => charges[e] = <<-work[e].cost>>
  /\ ~Paid(e) => charges[e] \in {<<>>, <<-work[e].cost, work[e].cost>>}

\* A call that holds the row of its wallet holds it alone, and the balance it has
\* read is the one in the row.
HeldInv ==
  \A e \in Executions : pc[e] \in HoldsWallet =>
    /\ work[e].balance = balance[work[e].wallet]
    /\ \A f \in Executions :
         pc[f] \in HoldsWallet /\ work[f].wallet = work[e].wallet => f = e

Own(w) == {e \in Executions : work[e].wallet = w}
Nets(paid) == [e \in Executions |-> -SumFunction(paid[e])]
Balanced(w) == balance[w] = Opening[w] - spent[w] - SumFunctionOnSet(Nets(charges), Own(w))

AccountInv ==
  /\ Unfinished
  /\ \A e \in Executions : ChargeInv(e)
  /\ HeldInv
  /\ \A w \in Wallets : Balanced(w)

\* The net charge of an execution is its cost when it has paid, and nothing else.
LEMMA NetOfExecution ==
  ASSUME TypeOK, NEW e \in Executions, ChargeInv(e)
  PROVE  /\ -SumFunction(charges[e]) = IF Paid(e) THEN work[e].cost ELSE 0
         /\ Nets(charges)[e] = -SumFunction(charges[e])
         /\ Nets(charges)[e] \in Int
<1>1. work[e].cost \in Nat /\ work[e].cost \in Int /\ -work[e].cost \in Int
  BY WorkType
<1>2. CASE Paid(e)
  <2>1. SumFunction(charges[e]) = -work[e].cost
    BY <1>1, <1>2, SumShort DEF ChargeInv
  <2> QED BY <1>1, <1>2, <2>1 DEF Nets
<1>3. CASE ~Paid(e)
  <2>1. CASE charges[e] = <<>>
    BY <1>3, <2>1, SumShort DEF Nets
  <2>2. CASE charges[e] = <<-work[e].cost, work[e].cost>>
    <3>1. SumFunction(charges[e]) = -work[e].cost + work[e].cost
      BY <1>1, <2>2, SumShort
    <3> QED BY <1>1, <1>3, <3>1 DEF Nets
  <2> QED BY <1>3, <2>1, <2>2 DEF ChargeInv
<1> QED BY <1>2, <1>3

\* A step of one call leaves the rows and the locals of the others alone.
LEMMA OthersKept ==
  ASSUME TypeOK, NEW f \in Executions,
         Step(f) \/ ChargeFails(f) \/ CacheFails(f) \/ CountFails(f) \/ Die(f)
  PROVE  /\ \A g \in Executions \ {f} :
              /\ execution'[g] = execution[g] /\ charges'[g] = charges[g]
              /\ work'[g] = work[g] /\ pc'[g] = pc[g]
         /\ pc[f] # "done"
         /\ spent' = spent
<1>1. CASE Step(f)
  BY <1>1 DEF Step, Queue, Deny, Start, Hit, Miss, NoProvider, LateHit, Price,
     Insolvent, Solvent, Overdrawn, LockWallet, Charge, Cache, Count, Complete,
     Refund, RefundFails, Refunding, Rollback, Fail, Goto, TypeOK
<1>2. CASE ChargeFails(f) \/ CacheFails(f) \/ CountFails(f) \/ Die(f)
  BY <1>2 DEF ChargeFails, CacheFails, CountFails, Die, Rollback, Fail, Goto, TypeOK,
     InTransaction, HoldsWallet, HoldsReserve, HoldsSkill
<1> QED BY <1>1, <1>2

\* A call keeps its wallet; its cost and the balance it has read change only before
\* it holds the row, its cost not at all with LockWallet.
LEMMA LocalsKept ==
  ASSUME TypeOK, NEW f \in Executions,
         Step(f) \/ ChargeFails(f) \/ CacheFails(f) \/ CountFails(f) \/ Die(f)
  PROVE  /\ work'[f].wallet = work[f].wallet
         /\ \/ work' = work
            \/ Start(f) /\ work' = [work EXCEPT ![f].usage = usage]
            \/ Price(f) /\ \E n \in Nat : work' = [work EXCEPT ![f].cost = n]
            \/ /\ LockWallet(f)
               /\ work' = [work EXCEPT ![f].balance = balance[work[f].wallet]]
<1>1. \/ work' = work
      \/ Start(f) /\ work' = [work EXCEPT ![f].usage = usage]
      \/ Price(f) /\ \E n \in Nat : work' = [work EXCEPT ![f].cost = n]
      \/ /\ LockWallet(f)
         /\ work' = [work EXCEPT ![f].balance = balance[work[f].wallet]]
  <2>1. CASE Step(f)
    BY <2>1, CostIsNatural DEF Step, Queue, Deny, Start, Hit, Miss, NoProvider, LateHit,
       Price, Insolvent, Solvent, Overdrawn, LockWallet, Charge, Cache, Count, Complete,
       Refund, RefundFails, Refunding, Rollback, Fail
  <2>2. CASE ChargeFails(f) \/ CacheFails(f) \/ CountFails(f) \/ Die(f)
    BY <2>2 DEF ChargeFails, CacheFails, CountFails, Die, Rollback, Fail
  <2> QED BY <2>1, <2>2
<1>2. work[f] \in Work
  BY DEF TypeOK
<1>3. ASSUME NEW n, \/ work' = [work EXCEPT ![f].usage = n]
                    \/ work' = [work EXCEPT ![f].cost = n]
                    \/ work' = [work EXCEPT ![f].balance = n]
      PROVE  work'[f].wallet = work[f].wallet
  BY <1>2, <1>3 DEF TypeOK, Work
<1> QED BY <1>1, <1>3

\* A step that is neither of the two commits of a charge leaves the committed
\* charges and balances, and pays nothing.
LEMMA NoCharge ==
  ASSUME TypeOK, Unfinished, NEW f \in Executions,
         Step(f) \/ ChargeFails(f) \/ CacheFails(f) \/ CountFails(f) \/ Die(f),
         ~Complete(f), ~Refund(f)
  PROVE  charges' = charges /\ balance' = balance /\ ~Paid(f)'
<1>1. charges' = charges /\ balance' = balance
  <2>1. CASE Step(f)
    BY <2>1 DEF Step, Queue, Deny, Start, Hit, Miss, NoProvider, LateHit, Price,
       Insolvent, Solvent, Overdrawn, LockWallet, Charge, Cache, Count,
       RefundFails, Refunding, Rollback, Fail
  <2>2. CASE ChargeFails(f) \/ CacheFails(f) \/ CountFails(f) \/ Die(f)
    BY <2>2 DEF ChargeFails, CacheFails, CountFails, Die, Rollback, Fail
  <2> QED BY <2>1, <2>2
<1>2. execution[f].status # "completed" /\ execution[f] \in Row
  BY OthersKept DEF Unfinished, TypeOK
<1>3. \/ execution' = execution
      \/ execution' = [execution EXCEPT ![f].status = "queued"]
      \/ execution' = [execution EXCEPT ![f].status = "completed", ![f].hit = TRUE]
      \/ \E r : execution' = [execution EXCEPT ![f].status = "failed", ![f].error = r]
  <2>1. CASE Step(f)
    BY <2>1 DEF Step, Queue, Deny, Start, Hit, Miss, NoProvider, LateHit, Price,
       Insolvent, Solvent, Overdrawn, LockWallet, Charge, Cache, Count,
       RefundFails, Refunding, Rollback, Fail
  <2>2. CASE ChargeFails(f) \/ CacheFails(f) \/ CountFails(f) \/ Die(f)
    BY <2>2 DEF ChargeFails, CacheFails, CountFails, Die, Rollback, Fail
  <2> QED BY <2>1, <2>2
<1>4. CASE execution' = execution
  BY <1>1, <1>2, <1>4 DEF Paid
<1>5. CASE execution' = [execution EXCEPT ![f].status = "queued"]
  <2>1. execution'[f].status = "queued"
    BY <1>2, <1>5 DEF TypeOK, Row
  <2> QED BY <1>1, <2>1 DEF Paid
<1>6. CASE execution' = [execution EXCEPT ![f].status = "completed", ![f].hit = TRUE]
  <2>1. execution'[f] = [execution[f] EXCEPT !.status = "completed", !.hit = TRUE]
    BY <1>6 DEF TypeOK
  <2>2. execution'[f].hit
    BY <1>2, <2>1 DEF Row
  <2> QED BY <1>1, <2>2 DEF Paid
<1>7. ASSUME NEW r, execution' = [execution EXCEPT ![f].status = "failed", ![f].error = r]
      PROVE  ~Paid(f)'
  <2>1. execution'[f].status = "failed"
    BY <1>2, <1>7 DEF TypeOK, Row
  <2> QED BY <2>1 DEF Paid
<1> QED BY <1>1, <1>3, <1>4, <1>5, <1>6, <1>7

\* The two commits of a charge, in terms of the row they hold.
LEMMA ChargeCommits ==
  ASSUME TypeOK, Unfinished, HeldInv, NEW f \in Executions, Complete(f) \/ Refund(f)
  PROVE  LET w == work[f].wallet
             cost == work[f].cost
         IN /\ Complete(f) => /\ Paid(f)' /\ charges'[f] = <<-cost>>
                              /\ balance' = [balance EXCEPT ![w] = balance[w] - cost]
            /\ Refund(f) => /\ ~Paid(f)' /\ charges'[f] = <<-cost, cost>>
                            /\ balance' = balance
            /\ work' = work /\ pc'[f] = "done" /\ w \in Wallets
<1>1. /\ work[f].wallet \in Wallets /\ work[f].balance = balance[work[f].wallet]
      /\ execution[f] \in Row /\ ~execution[f].hit
  BY WorkType DEF HeldInv, HoldsWallet, HoldsReserve, HoldsSkill,
     Complete, Refund, Refunding, Unfinished, TypeOK
<1>2. CASE Complete(f)
  <2>1. execution'[f] = [execution[f] EXCEPT !.status = "completed"]
    BY <1>2 DEF Complete, TypeOK
  <2>2. execution'[f].status = "completed" /\ execution'[f].hit = execution[f].hit
    BY <1>1, <2>1 DEF Row
  <2>3. Paid(f)'
    BY <1>1, <2>2 DEF Paid
  <2>4. ~Refund(f)
    BY <1>2 DEF Complete, Refund, Refunding
  <2> QED BY <1>1, <1>2, <2>3, <2>4 DEF Complete, Goto, TypeOK
<1>3. CASE Refund(f)
  <2>1. PICK r : execution'[f] = [execution[f] EXCEPT !.status = "failed", !.error = r]
    BY <1>3 DEF Refund, TypeOK
  <2>2. execution'[f].status = "failed"
    BY <1>1, <2>1 DEF Row
  <2>3. ~Paid(f)'
    BY <2>2 DEF Paid
  <2>4. balance' = balance
    BY <1>1, <1>3 DEF Refund, TypeOK
  <2>5. ~Complete(f)
    BY <1>3 DEF Complete, Refund, Refunding
  <2> QED BY <1>1, <1>3, <2>3, <2>4, <2>5 DEF Refund, Goto, TypeOK
<1> QED BY <1>2, <1>3

LEMMA ChargeInvKept ==
  ASSUME TypeOK, AccountInv, NEW f \in Executions,
         Step(f) \/ ChargeFails(f) \/ CacheFails(f) \/ CountFails(f) \/ Die(f),
         NEW e \in Executions
  PROVE  ChargeInv(e)'
<1>0. ChargeInv(e) /\ Unfinished /\ HeldInv
  BY DEF AccountInv
<1>1. CASE e # f
  <2>1. /\ execution'[e] = execution[e] /\ charges'[e] = charges[e]
        /\ work'[e] = work[e] /\ pc'[e] = pc[e]
    BY <1>1, OthersKept
  <2> QED BY <1>0, <2>1 DEF ChargeInv, Paid
<1>2. CASE e = f /\ (Complete(f) \/ Refund(f))
  BY <1>0, <1>2, ChargeCommits DEF ChargeInv
<1>3. CASE e = f /\ ~Complete(f) /\ ~Refund(f)
  <2>1. charges'[e] = charges[e] /\ ~Paid(e)'
    BY <1>0, <1>3, NoCharge
  <2>2. charges[e] = <<>>
    BY <1>0, <1>3, OthersKept DEF ChargeInv
  <2> QED BY <2>1, <2>2 DEF ChargeInv
<1> QED BY <1>1, <1>2, <1>3

LEMMA HeldInvKept ==
  ASSUME TypeOK, AccountInv, NEW f \in Executions,
         Step(f) \/ ChargeFails(f) \/ CacheFails(f) \/ CountFails(f) \/ Die(f)
  PROVE  HeldInv'
<1>0. HeldInv /\ Unfinished
  BY DEF AccountInv
<1>1. /\ \A g \in Executions \ {f} : work'[g] = work[g] /\ pc'[g] = pc[g]
      /\ \A g \in Executions : work'[g].wallet = work[g].wallet
  BY OthersKept, LocalsKept
<1>2. pc'[f] \in HoldsWallet =>
        \/ pc[f] \in HoldsWallet /\ ~Complete(f) /\ ~Refund(f) /\ work' = work
        \/ LockWallet(f)
  <2>1. CASE Step(f)
    BY <2>1 DEF Step, Queue, Deny, Start, Hit, Miss, NoProvider, LateHit, Price,
       Insolvent, Solvent, Overdrawn, LockWallet, Charge, Cache, Count, Complete,
       Refund, RefundFails, Refunding, Rollback, Fail, Goto, TypeOK, HoldsWallet, HoldsReserve, HoldsSkill
  <2>2. CASE ChargeFails(f) \/ CacheFails(f) \/ CountFails(f) \/ Die(f)
    BY <2>2
    DEF ChargeFails, CacheFails, CountFails, Die, Complete, Refund, Refunding, Rollback, Fail, Goto,
       TypeOK, HoldsWallet, HoldsReserve, HoldsSkill
  <2> QED BY <2>1, <2>2
<1>3. \A g \in Executions \ {f} : pc[g] \in HoldsWallet =>
        balance'[work[g].wallet] = balance[work[g].wallet]
  <2>1. CASE Complete(f) \/ Refund(f)
    <3>1. pc[f] \in HoldsWallet
      BY <2>1 DEF Complete, Refund, Refunding, HoldsWallet, HoldsReserve, HoldsSkill
    <3>2. \A g \in Executions \ {f} : pc[g] \in HoldsWallet => work[g].wallet # work[f].wallet
      BY <1>0, <3>1 DEF HeldInv
    <3>3. \/ balance' = balance
          \/ balance' = [balance EXCEPT ![work[f].wallet]
                           = balance[work[f].wallet] - work[f].cost]
      BY <1>0, <2>1, ChargeCommits
    <3> QED BY <3>2, <3>3, WorkType DEF TypeOK
  <2>2. CASE ~Complete(f) /\ ~Refund(f)
    BY <1>0, <2>2, NoCharge
  <2> QED BY <2>1, <2>2
<1>4. pc'[f] \in HoldsWallet =>
        /\ work'[f].balance = balance'[work[f].wallet]
        /\ \A g \in Executions \ {f} :
             pc[g] \in HoldsWallet => work[g].wallet # work[f].wallet
  <2>1. CASE pc[f] \in HoldsWallet /\ ~Complete(f) /\ ~Refund(f) /\ work' = work
    <3>1. balance' = balance
      BY <1>0, <2>1, NoCharge
    <3> QED BY <1>0, <2>1, <3>1 DEF HeldInv
  <2>2. CASE LockWallet(f)
    <3>1. work'[f].balance = balance[work[f].wallet] /\ balance' = balance
      BY <2>2 DEF LockWallet, TypeOK, Work
    <3>2. \A g \in Executions : pc[g] \in HoldsWallet => work[g].wallet # work[f].wallet
      BY <2>2 DEF LockWallet, WalletLocked
    <3> QED BY <3>1, <3>2
  <2> QED BY <1>2, <2>1, <2>2
<1>5. ASSUME NEW e \in Executions, pc'[e] \in HoldsWallet
      PROVE  work'[e].balance = balance'[work'[e].wallet]
  <2>1. CASE e = f
    BY <1>1, <1>4, <1>5, <2>1
  <2>2. CASE e # f
    BY <1>0, <1>1, <1>3, <1>5, <2>2 DEF HeldInv
  <2> QED BY <2>1, <2>2
<1>6. ASSUME NEW e \in Executions, NEW g \in Executions, pc'[e] \in HoldsWallet,
             pc'[g] \in HoldsWallet, work'[g].wallet = work'[e].wallet
      PROVE  g = e
  <2>1. CASE e = f \/ g = f
    BY <1>1, <1>4, <1>6, <2>1
  <2>2. CASE e # f /\ g # f
    BY <1>0, <1>1, <1>6, <2>2 DEF HeldInv
  <2> QED BY <2>1, <2>2
<1> QED BY <1>5, <1>6 DEF HeldInv

\* The net charges of one wallet change by the net charge of one execution.
LEMMA NetChange ==
  ASSUME TypeOK, TypeOK', NEW f \in Executions,
         \A e \in Executions : ChargeInv(e) /\ ChargeInv(e)',
         \A e \in Executions \ {f} : charges'[e] = charges[e],
         \A e \in Executions : work'[e].wallet = work[e].wallet,
         NEW w \in Wallets
  PROVE  LET total == SumFunctionOnSet(Nets(charges), Own(w))
             new == SumFunctionOnSet(Nets(charges'), Own(w)')
         IN /\ total \in Int
            /\ new = IF w = work[f].wallet
                     THEN total + Nets(charges')[f] - Nets(charges)[f] ELSE total
<1>1. Own(w)' = Own(w)
  BY DEF Own
<1>2. IsFiniteSet(Own(w)) /\ Own(w) \subseteq Executions
  BY ExecutionsAssumption, FS_Subset DEF Own
<1>3. \A e \in Executions : Nets(charges)[e] \in Int /\ Nets(charges')[e] \in Int
  <2> SUFFICES ASSUME NEW e \in Executions
               PROVE  Nets(charges)[e] \in Int /\ Nets(charges')[e] \in Int
    OBVIOUS
  <2>1. Nets(charges)[e] \in Int
    BY NetOfExecution
  <2>2. work'[e].cost \in Nat
    BY DEF TypeOK, Work
  <2>3. SumFunction(charges'[e]) \in Int
    <3>1. charges'[e] \in {<<>>, <<-work'[e].cost>>, <<-work'[e].cost, work'[e].cost>>}
      BY DEF ChargeInv
    <3>2. -work'[e].cost \in Int /\ work'[e].cost \in Int
          /\ -work'[e].cost + work'[e].cost \in Int
      BY <2>2
    <3> QED BY <3>1, <3>2, SumShort
  <2> QED BY <2>1, <2>3 DEF Nets
<1>4. \A e \in Executions : e # f => Nets(charges')[e] = Nets(charges)[e]
  BY DEF Nets
<1>5. SumFunctionOnSet(Nets(charges), Own(w)) \in Int
  BY <1>2, <1>3, SumType
<1>6. CASE w = work[f].wallet
  <2>1. f \in Own(w)
    BY <1>6 DEF Own
  <2>2. SumFunctionOnSet(Nets(charges'), Own(w))
          = SumFunctionOnSet(Nets(charges), Own(w)) + Nets(charges')[f] - Nets(charges)[f]
    BY <1>2, <1>3, <1>4, <2>1, SumChange
  <2> QED BY <1>1, <1>5, <1>6, <2>2
<1>7. CASE w # work[f].wallet
  <2>1. \A e \in Own(w) : Nets(charges)[e] = Nets(charges')[e]
    BY <1>2, <1>4, <1>7 DEF Own
  <2>2. SumFunctionOnSet(Nets(charges'), Own(w)) = SumFunctionOnSet(Nets(charges), Own(w))
    BY <1>2, <2>1, SumSame
  <2> QED BY <1>1, <1>5, <1>7, <2>2
<1> QED BY <1>6, <1>7

LEMMA StepAccountInv ==
  ASSUME TypeOK, TypeOK', AccountInv, Unfinished', NEW f \in Executions,
         Step(f) \/ ChargeFails(f) \/ CacheFails(f) \/ CountFails(f) \/ Die(f)
  PROVE  AccountInv'
<1>0. HeldInv /\ Unfinished /\ \A e \in Executions : ChargeInv(e)
  BY DEF AccountInv
<1>1. \A e \in Executions : ChargeInv(e)'
  BY ChargeInvKept
<1>2. HeldInv'
  BY HeldInvKept
<1>3. ASSUME NEW w \in Wallets PROVE Balanced(w)'
  <2> DEFINE total == SumFunctionOnSet(Nets(charges), Own(w))
             new == SumFunctionOnSet(Nets(charges'), Own(w)')
  <2>1. spent' = spent /\ \A e \in Executions : work'[e].wallet = work[e].wallet
    BY OthersKept, LocalsKept
  <2>2. /\ total \in Int
        /\ new = IF w = work[f].wallet
                 THEN total + Nets(charges')[f] - Nets(charges)[f] ELSE total
    BY <1>0, <1>1, <2>1, OthersKept, NetChange
  <2>3. balance[w] = Opening[w] - spent[w] - total
    BY DEF AccountInv, Balanced
  <2>4. balance[w] \in Int /\ spent[w] \in Int /\ Opening[w] \in Int /\ work[f].cost \in Int
    BY WorkType, ExecutionsAssumption DEF TypeOK
  <2>5. Nets(charges)[f] = 0
    <3>1. charges[f] = <<>>
      BY <1>0, OthersKept DEF ChargeInv
    <3> QED BY <3>1, SumShort DEF Nets
  <2> HIDE DEF total, new
  <2>6. CASE Complete(f)
    <3>1. Nets(charges')[f] = work[f].cost
      <4>1. charges'[f] = <<-work[f].cost>> /\ -work[f].cost \in Int
        BY <1>0, <2>4, <2>6, ChargeCommits
      <4>2. SumFunction(charges'[f]) = -work[f].cost
        BY <4>1, SumShort
      <4> QED BY <2>4, <4>2 DEF Nets
    <3>2. balance'[w] = IF w = work[f].wallet THEN balance[w] - work[f].cost ELSE balance[w]
      BY <1>0, <2>6, ChargeCommits DEF TypeOK
    <3>3. balance'[w] = Opening[w] - spent'[w] - new
      BY <2>1, <2>2, <2>3, <2>4, <2>5, <3>1, <3>2
    <3> QED BY <3>3 DEF Balanced, new
  <2>7. CASE ~Complete(f)
    <3>1. Nets(charges')[f] = 0 /\ balance' = balance
      <4>1. CASE Refund(f)
        <5>1. charges'[f] = <<-work[f].cost, work[f].cost>> /\ -work[f].cost \in Int
          BY <1>0, <2>4, <4>1, ChargeCommits
        <5>2. SumFunction(charges'[f]) = -work[f].cost + work[f].cost
          BY <2>4, <5>1, SumShort
        <5> QED BY <1>0, <2>4, <4>1, <5>2, ChargeCommits DEF Nets
      <4>2. CASE ~Refund(f)
        BY <1>0, <2>5, <2>7, <4>2, NoCharge
      <4> QED BY <4>1, <4>2
    <3>2. balance'[w] = Opening[w] - spent'[w] - new
      BY <2>1, <2>2, <2>3, <2>4, <2>5, <3>1
    <3> QED BY <3>2 DEF Balanced, new
  <2> QED BY <2>6, <2>7
<1> QED BY <1>1, <1>2, <1>3 DEF AccountInv

\* A step of the rest of the system takes no charge and touches no held row.
LEMMA EnvironmentAccountInv ==
  ASSUME TypeOK, TypeOK', AccountInv, Unfinished',
         \/ \E w \in Wallets : Spend(w)
         \/ \E i \in Inputs : ExpireResult(i)
         \/ Switch \/ ExpireProviders \/ RecountRead \/ RecountSave
  PROVE  AccountInv'
<1>1. /\ execution' = execution /\ charges' = charges /\ work' = work /\ pc' = pc
      /\ \/ balance' = balance /\ spent' = spent
         \/ \E w \in Wallets : Spend(w)
  BY DEF Spend, ExpireResult, Switch, ExpireProviders, RecountRead, RecountSave
<1>2. \A e \in Executions : ChargeInv(e)'
  BY <1>1 DEF AccountInv, ChargeInv, Paid
<1>3. CASE balance' = balance /\ spent' = spent
  BY <1>1, <1>2, <1>3 DEF AccountInv, HeldInv, Balanced, Own
<1>4. ASSUME NEW w \in Wallets, Spend(w) PROVE AccountInv'
  <2>1. PICK amount \in 1..balance[w] :
           /\ balance' = [balance EXCEPT ![w] = @ - amount]
           /\ spent' = [spent EXCEPT ![w] = @ + amount]
    BY <1>4 DEF Spend
  <2>2. \A e \in Executions : pc[e] \in HoldsWallet => work[e].wallet # w
    BY <1>4 DEF Spend, WalletLocked
  <2>3. HeldInv'
    BY <1>1, <2>1, <2>2, WorkType DEF AccountInv, HeldInv, TypeOK
  <2>4. ASSUME NEW v \in Wallets PROVE Balanced(v)'
    <3> DEFINE total == SumFunctionOnSet(Nets(charges), Own(v))
    <3>1. balance[v] = Opening[v] - spent[v] - total
      BY DEF AccountInv, Balanced
    <3>2. total' = total
      BY <1>1 DEF Own
    <3>3. total \in Int
      <4>1. \A e \in Executions : Nets(charges)[e] \in Int
        BY NetOfExecution DEF AccountInv
      <4>2. IsFiniteSet(Own(v)) /\ Own(v) \subseteq Executions
        BY ExecutionsAssumption, FS_Subset DEF Own
      <4> QED BY <4>1, <4>2, SumType
    <3>4. balance[v] \in Int /\ spent[v] \in Int /\ Opening[v] \in Int /\ amount \in Int
      <4>1. balance[v] \in Nat /\ balance[w] \in Nat /\ spent[v] \in Nat
        BY DEF TypeOK
      <4>2. Opening[v] \in Nat
        BY ExecutionsAssumption
      <4> QED BY <4>1, <4>2
    <3>5. /\ balance'[v] = IF v = w THEN balance[v] - amount ELSE balance[v]
          /\ spent'[v] = IF v = w THEN spent[v] + amount ELSE spent[v]
      BY <2>1 DEF TypeOK
    <3> HIDE DEF total
    <3>6. balance'[v] = Opening[v] - spent'[v] - total'
      BY <3>1, <3>2, <3>3, <3>4, <3>5
    <3> QED BY <3>6 DEF Balanced, total
  <2> QED BY <1>2, <2>3, <2>4 DEF AccountInv
<1> QED BY <1>1, <1>3, <1>4

LEMMA InitAccountInv == Init => AccountInv
<1> SUFFICES ASSUME Init PROVE AccountInv
  OBVIOUS
<1>1. /\ Unfinished /\ \A e \in Executions : pc[e] = "sent" /\ charges[e] = <<>>
      /\ balance = Opening /\ spent = [w \in Wallets |-> 0]
  BY InitUnfinished DEF Init
<1>2. \A e \in Executions : ~Paid(e) /\ ChargeInv(e)
  BY <1>1 DEF Unfinished, Paid, ChargeInv
<1>3. HeldInv
  BY <1>1 DEF HeldInv, HoldsWallet, HoldsReserve, HoldsSkill
<1>4. ASSUME NEW w \in Wallets PROVE Balanced(w)
  <2>1. \A e \in Executions : Nets(charges)[e] = 0
    BY <1>1, SumShort DEF Nets
  <2>2. IsFiniteSet(Own(w)) /\ Own(w) \subseteq Executions
    BY ExecutionsAssumption, FS_Subset DEF Own
  <2>3. SumFunctionOnSet(Nets(charges), Own(w)) = 0
    BY <2>1, <2>2, SumZero
  <2>4. Opening[w] \in Int
    BY ExecutionsAssumption
  <2> QED BY <1>1, <2>3, <2>4 DEF Balanced
<1> QED BY <1>1, <1>2, <1>3, <1>4 DEF AccountInv

LEMMA NextAccountInv == TypeInv /\ TypeInv' /\ AccountInv /\ [Next]_vars => AccountInv'
<1> SUFFICES ASSUME TypeOK, TypeOK', AccountInv, [Next]_vars PROVE AccountInv'
  BY DEF TypeInv
<1>1. CASE Next
  <2>1. Unfinished'
    BY <1>1, UnfinishedKept DEF AccountInv
  <2> QED BY <1>1, <2>1, StepAccountInv, EnvironmentAccountInv DEF Next
<1>2. CASE UNCHANGED vars
  BY <1>2 DEF vars, AccountInv, Unfinished, ChargeInv, Paid, HeldInv, Balanced, Own
<1> QED BY <1>1, <1>2

LEMMA AlwaysAccountInv == Spec => [](TypeInv /\ AccountInv)
  BY InitAccountInv, NextAccountInv, AlwaysTypeInv, PTL DEF Spec

\* Whoever was served by a provider has paid the cost of the execution exactly once,
\* and nobody else has paid anything, whatever fails and whoever overlaps.
THEOREM ChargedExactlyOnce == Spec => []ChargedWhenServed
<1>1. TypeInv /\ AccountInv => ChargedWhenServed
  BY NetOfExecution DEF TypeInv, AccountInv, ChargedWhenServed, NetCharge
<1> QED BY <1>1, AlwaysAccountInv, PTL

\* Every wallet holds what its executions and its other payments have left of what
\* it opened with: no charge is lost, and none overdraws it.
THEOREM WalletsAddUp == Spec => []WalletsExplained
<1>1. TypeInv /\ AccountInv => WalletsExplained
  <2> SUFFICES ASSUME TypeOK, AccountInv PROVE WalletsExplained
    BY DEF TypeInv
  <2>1. \A w \in Wallets : balance[w] \in Nat /\ Balanced(w)
    BY DEF TypeOK, AccountInv
  <2> QED BY <2>1 DEF Balanced, WalletsExplained, NetCharge, Nets, Own
<1> QED BY <1>1, AlwaysAccountInv, PTL
=============================================================================

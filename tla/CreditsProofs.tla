--------------------------- MODULE CreditsProofs ---------------------------
(***************************************************************************)
(* Theorems about Credits for every set of wallets, calls, routes and      *)
(* amounts.                                                                *)
(***************************************************************************)
EXTENDS Credits, SumLemmas

\* Facts of the typing that the action proofs use over and over.
LEMMA OpType ==
  ASSUME TypeOK, NEW c \in Calls
  PROVE  /\ op[c] \in Requests
         /\ op[c].from \in Wallets
         /\ op[c].to \in Wallets
         /\ op[c].kind \in Ops
         /\ op[c].amount \in Int
         /\ op[c].kind \in {"mint", "burn", "transfer"} => op[c].amount \in Amounts
         /\ op[c].kind = "transfer" => <<op[c].from, op[c].to>> \in Routes
         /\ op[c].kind # "transfer" => op[c].from = op[c].to
<1> DEFINE q == op[c]
<1>1. q \in Requests
  BY DEF TypeOK
<1>2. /\ q \in [kind : Ops, from : Wallets, to : Wallets, amount : Amounts \cup {0}]
      /\ IF q.kind = "transfer" THEN <<q.from, q.to>> \in Routes ELSE q.from = q.to
      /\ IF q.kind \in {"mint", "burn", "transfer"} THEN q.amount \in Amounts
                                                     ELSE q.amount = 0
  BY <1>1 DEF Requests
<1> HIDE DEF q
<1>3. /\ q.kind \in Ops /\ q.from \in Wallets /\ q.to \in Wallets
      /\ q.amount \in Amounts \cup {0}
  BY <1>2
<1>4. q.amount \in Int
  <2>1. Amounts \subseteq Int
    BY CreditsAssumption
  <2>2. CASE q.amount \in Amounts
    BY <2>1, <2>2
  <2>3. CASE q.amount = 0
    BY <2>3
  <2>4. QED
    BY <1>3, <2>2, <2>3
<1>5. QED
  BY <1>1, <1>2, <1>3, <1>4 DEF q

LEMMA SeenType ==
  ASSUME TypeOK, NEW c \in Calls
  PROVE  /\ seen[c] \in [from : Row, to : Row, reserve : ReserveRow]
         /\ seen[c].from \in Row
         /\ seen[c].to \in Row
         /\ seen[c].from.balance \in Int
         /\ seen[c].to.balance \in Int
         /\ seen[c].reserve.minted \in Int
         /\ seen[c].reserve.burned \in Int
<1>1. seen[c] \in [from : Row, to : Row, reserve : ReserveRow]
  BY DEF TypeOK
<1>2. seen[c].reserve \in ReserveRow
  BY <1>1
<1>3. \A row \in Row : row.balance \in Int
  BY DEF Row
<1>4. QED
  BY <1>1, <1>2, <1>3 DEF ReserveRow

LEMMA PostType ==
  ASSUME NEW row \in Row, NEW a \in Int
  PROVE  /\ Post(row, a) \in Row
         /\ Post(row, a).balance = row.balance + a
         /\ Post(row, a).nonce = row.nonce + 1
         /\ Post(row, a).frozen = row.frozen
  BY DEF Post, Row

LEMMA SavedType ==
  ASSUME TypeOK, NEW w \in Wallets, NEW row \in Row
  PROVE  /\ Saved(w, row) \in Row
         /\ Saved(w, row).balance = row.balance
         /\ Saved(w, row).nonce = row.nonce
         /\ Saved(w, row).frozen = wallet[w].frozen
  BY DEF Saved, Row, TypeOK

LEMMA EntryType ==
  ASSUME NEW type \in {"mint", "burn", "transfer"}, NEW a \in Int, NEW row \in Row
  PROVE  Entry(type, a, row) \in LedgerEntry
  BY DEF Entry, Row, LedgerEntry

LEMMA ReleaseType ==
  ASSUME TypeOK, NEW c \in Calls, Release(c)
  PROVE  /\ rowLock' \in [Wallets -> Calls \cup {NoOne}]
         /\ reserveLock' \in Calls \cup {NoOne}
  BY DEF Release, TypeOK

LEMMA GotoType ==
  ASSUME TypeOK, NEW c \in Calls, NEW stage \in Stages, Goto(c, stage)
  PROVE  pc' \in [Calls -> Stages]
  BY DEF Goto, TypeOK

LEMMA InitTypeOK == Init => TypeOK
<1> SUFFICES ASSUME Init PROVE TypeOK
  OBVIOUS
<1>1. \A w \in Wallets : OpeningRow(w) \in Row
  BY CreditsAssumption DEF OpeningRow, Row
<1>2. OpeningReserve \in ReserveRow
  BY CreditsAssumption DEF OpeningReserve, ReserveRow
<1>3. \A c \in Calls : op[c].from \in Wallets /\ op[c].to \in Wallets
  BY DEF Init, Requests
<1>4. QED
  BY <1>1, <1>2, <1>3, CreditsAssumption DEF Init, TypeOK, Stages

LEMMA RollbackTypeOK ==
  ASSUME TypeOK, NEW c \in Calls, Rollback(c)
  PROVE  TypeOK'
  BY ReleaseType, GotoType DEF Rollback, TypeOK, Stages

LEMMA StepTypeOK ==
  ASSUME TypeOK, NEW c \in Calls, Step(c)
  PROVE  TypeOK'
<1>1. CASE LockFirst(c)
  <2>1. wallet[op[c].from] \in Row
    BY OpType DEF TypeOK
  <2>2. seen' \in [Calls -> [from : Row, to : Row, reserve : ReserveRow]]
    BY <1>1, <2>1 DEF LockFirst, TypeOK
  <2>3. pc' \in [Calls -> Stages]
    BY <1>1, GotoType DEF LockFirst, Stages
  <2>4. QED
    BY <1>1, <2>2, <2>3 DEF LockFirst, TypeOK
<1>2. CASE LockSecond(c)
  <2>1. wallet[op[c].to] \in Row
    BY OpType DEF TypeOK
  <2>2. seen' \in [Calls -> [from : Row, to : Row, reserve : ReserveRow]]
    BY <1>2, <2>1 DEF LockSecond, TypeOK
  <2>3. pc' \in [Calls -> Stages]
    BY <1>2, GotoType DEF LockSecond, Stages
  <2>4. QED
    BY <1>2, <2>2, <2>3 DEF LockSecond, TypeOK
<1>3. CASE Reject(c) \/ DeadlockVictim(c)
  BY <1>3, RollbackTypeOK DEF Reject, DeadlockVictim
<1>4. CASE ReadReserve(c)
  <2>1. pc' \in [Calls -> Stages]
    BY <1>4, GotoType DEF ReadReserve, Stages
  <2>2. QED
    BY <1>4, <2>1 DEF ReadReserve, TypeOK
<1>5. CASE SaveReserve(c)
  <2>1. pc' \in [Calls -> Stages]
    BY <1>5, GotoType DEF SaveReserve, Stages
  <2>2. QED
    BY <1>5, <2>1 DEF SaveReserve, TypeOK
<1>6. CASE PassTransfer(c)
  <2>1. pc' \in [Calls -> Stages]
    BY <1>6, GotoType DEF PassTransfer, Stages
  <2>2. QED
    BY <1>6, <2>1 DEF PassTransfer, TypeOK
<1>7. CASE CommitMint(c)
  <2> DEFINE w == op[c].from
             a == op[c].amount
             row == Post(seen[c].from, a)
  <2>1. w \in Wallets /\ a \in Int /\ row \in Row
    BY OpType, SeenType, PostType
  <2>2. Saved(w, row) \in Row /\ Entry("mint", a, row) \in LedgerEntry
    BY <2>1, SavedType, EntryType
  <2>3. wallet' \in [Wallets -> Row]
    BY <1>7, <2>1, <2>2 DEF CommitMint, TypeOK
  <2>4. ledger' \in [Wallets -> Seq(LedgerEntry)]
    BY <1>7, <2>1, <2>2 DEF CommitMint, TypeOK
  <2>5. reserve' \in ReserveRow /\ issued' \in Int
    BY <1>7, <2>1, SeenType DEF CommitMint, TypeOK, ReserveRow
  <2>6. pc' \in [Calls -> Stages]
    BY <1>7, GotoType DEF CommitMint, Commit, Stages
  <2>7. QED
    BY <1>7, <2>3, <2>4, <2>5, <2>6, ReleaseType DEF CommitMint, Commit, TypeOK
<1>8. CASE CommitBurn(c)
  <2> DEFINE w == op[c].from
             a == op[c].amount
             row == Post(seen[c].from, -a)
  <2>1. w \in Wallets /\ a \in Int /\ row \in Row
    <3>1. w \in Wallets /\ a \in Int
      BY OpType
    <3>2. -a \in Int
      BY <3>1
    <3>3. QED
      BY <3>1, <3>2, SeenType, PostType
  <2>2. Saved(w, row) \in Row /\ Entry("burn", -a, row) \in LedgerEntry
    BY <2>1, SavedType, EntryType
  <2>3. wallet' \in [Wallets -> Row]
    BY <1>8, <2>1, <2>2 DEF CommitBurn, TypeOK
  <2>4. ledger' \in [Wallets -> Seq(LedgerEntry)]
    BY <1>8, <2>1, <2>2 DEF CommitBurn, TypeOK
  <2>5. reserve' \in ReserveRow /\ retired' \in Int
    BY <1>8, <2>1, SeenType DEF CommitBurn, TypeOK, ReserveRow
  <2>6. pc' \in [Calls -> Stages]
    BY <1>8, GotoType DEF CommitBurn, Commit, Stages
  <2>7. QED
    BY <1>8, <2>3, <2>4, <2>5, <2>6, ReleaseType DEF CommitBurn, Commit, TypeOK
<1>9. CASE CommitTransfer(c)
  <2> DEFINE f == op[c].from
             t == op[c].to
             a == op[c].amount
             debit == Post(seen[c].from, -a)
             credit == Post(seen[c].to, a)
  <2>1. f \in Wallets /\ t \in Wallets /\ a \in Int /\ debit \in Row /\ credit \in Row
    <3>1. f \in Wallets /\ t \in Wallets /\ a \in Int
      BY OpType
    <3>2. -a \in Int
      BY <3>1
    <3>3. QED
      BY <3>1, <3>2, SeenType, PostType
  <2>2. /\ Saved(f, debit) \in Row /\ Saved(t, credit) \in Row
        /\ Entry("transfer", -a, debit) \in LedgerEntry
        /\ Entry("transfer", a, credit) \in LedgerEntry
    BY <2>1, SavedType, EntryType
  <2>3. wallet' \in [Wallets -> Row]
    BY <1>9, <2>1, <2>2 DEF CommitTransfer, TypeOK
  <2>4. ledger' \in [Wallets -> Seq(LedgerEntry)]
    <3> DEFINE first == [ledger EXCEPT ![f] = Append(@, Entry("transfer", -a, debit))]
    <3>1. first \in [Wallets -> Seq(LedgerEntry)]
      BY <2>1, <2>2 DEF TypeOK
    <3>2. ledger' = [first EXCEPT ![t] = Append(@, Entry("transfer", a, credit))]
      BY <1>9 DEF CommitTransfer
    <3> HIDE DEF first
    <3>3. QED
      BY <2>1, <2>2, <3>1, <3>2
  <2>5. pc' \in [Calls -> Stages]
    BY <1>9, GotoType DEF CommitTransfer, Commit, Stages
  <2>6. QED
    BY <1>9, <2>3, <2>4, <2>5, ReleaseType DEF CommitTransfer, Commit, TypeOK
<1>10. CASE SetFrozen(c)
  <2>1. pc' \in [Calls -> Stages]
    BY <1>10, GotoType DEF SetFrozen, Stages
  <2>2. wallet' \in [Wallets -> Row]
    BY <1>10, OpType DEF SetFrozen, TypeOK, Row
  <2>3. QED
    BY <1>10, <2>1, <2>2 DEF SetFrozen, TypeOK
<1>11. CASE PatchRead(c)
  <2>1. pc' \in [Calls -> Stages]
    BY <1>11, GotoType DEF PatchRead, Stages
  <2>2. wallet[op[c].from] \in Row
    BY OpType DEF TypeOK
  <2>3. QED
    BY <1>11, <2>1, <2>2 DEF PatchRead, TypeOK
<1>12. CASE PatchWrite(c)
  <2>1. pc' \in [Calls -> Stages]
    BY <1>12, GotoType DEF PatchWrite, Stages
  <2>2. \A b \in BOOLEAN : [seen[c].from EXCEPT !.frozen = b] \in Row
    BY SeenType DEF Row
  <2>3. PICK b \in BOOLEAN :
          wallet' = [wallet EXCEPT ![op[c].from] = [seen[c].from EXCEPT !.frozen = b]]
    BY <1>12 DEF PatchWrite
  <2>4. wallet' \in [Wallets -> Row]
    BY <2>2, <2>3, OpType DEF TypeOK
  <2>5. QED
    BY <1>12, <2>1, <2>4 DEF PatchWrite, TypeOK
<1>13. QED
  BY <1>1, <1>2, <1>3, <1>4, <1>5, <1>6, <1>7, <1>8, <1>9, <1>10, <1>11, <1>12
     DEF Step

LEMMA NextTypeOK == TypeOK /\ [Next]_vars => TypeOK'
<1> SUFFICES ASSUME TypeOK, [Next]_vars PROVE TypeOK'
  OBVIOUS
<1>1. CASE \E c \in Calls : Step(c)
  BY <1>1, StepTypeOK
<1>2. CASE \E c \in Calls : Crash(c)
  BY <1>2, RollbackTypeOK DEF Crash
<1>3. CASE UNCHANGED vars
  BY <1>3 DEF vars, TypeOK
<1>4. QED
  BY <1>1, <1>2, <1>3 DEF Next, AtRest

\* Whatever the calls, the database rows keep their types.
THEOREM TypeCorrect == Spec => []TypeOK
  BY InitTypeOK, NextTypeOK, PTL DEF Spec
-----------------------------------------------------------------------------
(* The locking discipline: what makes the checks of a call still true when  *)
(* it commits.                                                              *)

Holding(c) == pc[c] \in {"second", "held", "computed", "posted"}
HoldingBoth(c) == op[c].kind = "transfer" /\ pc[c] \in {"held", "computed", "posted"}

\* A call inside its transaction holds the rows it has read, what it has read
\* is what they contain, and past its checks the checks still hold.
CallInv(c) ==
  /\ Holding(c) => /\ op[c].kind \in {"mint", "burn", "transfer"}
                   /\ rowLock[op[c].from] = c
                   /\ seen[c].from = wallet[op[c].from]
  /\ HoldingBoth(c) => /\ rowLock[op[c].to] = c
                       /\ seen[c].to = wallet[op[c].to]
  /\ pc[c] = "second" => op[c].kind = "transfer"
  /\ pc[c] = "patching" => op[c].kind = "patch"
  /\ pc[c] \in {"computed", "posted"} => Allowed(c)

LockInv == \A c \in Calls : CallInv(c)

\* A step of c leaves alone the calls other than c and the rows they hold.
Frame(c) ==
  /\ op' = op
  /\ \A d \in Calls \ {c} : pc'[d] = pc[d] /\ seen'[d] = seen[d]
  /\ \A w \in Wallets : rowLock[w] \notin {c, NoOne} =>
       rowLock'[w] = rowLock[w] /\ wallet'[w] = wallet[w]

LEMMA FrameKeepsCall ==
  ASSUME TypeOK, LockInv, NEW c \in Calls, Frame(c), NEW d \in Calls, d # c
  PROVE  CallInv(d)'
<1>1. /\ pc'[d] = pc[d] /\ seen'[d] = seen[d] /\ op' = op
      /\ \A w \in Wallets : rowLock[w] = d =>
           rowLock'[w] = d /\ wallet'[w] = wallet[w]
  BY CreditsAssumption DEF Frame
<1>2. op[d].from \in Wallets /\ op[d].to \in Wallets
  BY OpType
<1>3. CallInv(d)
  BY DEF LockInv
<1>4. QED
  BY <1>1, <1>2, <1>3
     DEF CallInv, Holding, HoldingBoth, Allowed, MintAllowed, BurnAllowed,
         TransferAllowed

LEMMA RollbackFrame ==
  ASSUME TypeOK, NEW c \in Calls, Rollback(c)
  PROVE  Frame(c)
  BY DEF Rollback, Goto, Release, Frame, TypeOK

LEMMA CommitFrame ==
  ASSUME TypeOK, LockInv, NEW c \in Calls,
         pc[c] = "posted",
         CommitMint(c) \/ CommitBurn(c) \/ CommitTransfer(c)
  PROVE  Frame(c)
<1>1. /\ op' = op /\ seen' = seen
      /\ Goto(c, "done") /\ Release(c)
  BY DEF CommitMint, CommitBurn, CommitTransfer, Commit
<1>2. CallInv(c) /\ op[c].from \in Wallets /\ op[c].to \in Wallets
  BY OpType DEF LockInv
<1>3. /\ rowLock[op[c].from] = c
      /\ op[c].kind = "transfer" => rowLock[op[c].to] = c
  BY <1>2 DEF CallInv, Holding, HoldingBoth
<1>4. \A w \in Wallets : rowLock[w] \notin {c, NoOne} => wallet'[w] = wallet[w]
  <2>1. CASE CommitMint(c)
    BY <1>2, <1>3, <2>1 DEF CommitMint, TypeOK
  <2>2. CASE CommitBurn(c)
    BY <1>2, <1>3, <2>2 DEF CommitBurn, TypeOK
  <2>3. CASE CommitTransfer(c)
    BY <1>2, <1>3, <2>3 DEF CommitTransfer, TypeOK
  <2>4. QED
    BY <2>1, <2>2, <2>3
<1>5. QED
  BY <1>1, <1>4 DEF Frame, Goto, Release, TypeOK

LEMMA StepFrame ==
  ASSUME TypeOK, LockInv, NEW c \in Calls, Step(c)
  PROVE  Frame(c)
<1>1. CASE LockFirst(c)
  BY <1>1, OpType DEF LockFirst, Goto, Free, Frame, TypeOK
<1>2. CASE LockSecond(c)
  BY <1>2, OpType DEF LockSecond, Goto, Free, Frame, TypeOK
<1>3. CASE Reject(c) \/ DeadlockVictim(c)
  BY <1>3, RollbackFrame DEF Reject, DeadlockVictim
<1>4. CASE ReadReserve(c)
  BY <1>4 DEF ReadReserve, Goto, Frame, TypeOK
<1>5. CASE SaveReserve(c)
  BY <1>5 DEF SaveReserve, Goto, Frame, TypeOK
<1>6. CASE PassTransfer(c)
  BY <1>6 DEF PassTransfer, Goto, Frame, TypeOK
<1>7. CASE CommitMint(c) \/ CommitBurn(c) \/ CommitTransfer(c)
  <2>1. pc[c] = "posted"
    BY <1>7 DEF CommitMint, CommitBurn, CommitTransfer
  <2>2. QED
    BY <1>7, <2>1, CommitFrame
<1>8. CASE SetFrozen(c)
  BY <1>8, OpType DEF SetFrozen, Goto, Frame, TypeOK
<1>9. CASE PatchRead(c)
  BY <1>9 DEF PatchRead, Goto, Frame, TypeOK
<1>10. CASE PatchWrite(c)
  <2>1. PICK b \in BOOLEAN :
          wallet' = [wallet EXCEPT ![op[c].from] = [seen[c].from EXCEPT !.frozen = b]]
    BY <1>10 DEF PatchWrite
  <2>2. \A w \in Wallets : rowLock[w] \notin {c, NoOne} => wallet'[w] = wallet[w]
    BY <1>10, <2>1, OpType DEF PatchWrite, TypeOK
  <2>3. QED
    BY <1>10, <2>2 DEF PatchWrite, Goto, Frame, TypeOK
<1>11. QED
  BY <1>1, <1>2, <1>3, <1>4, <1>5, <1>6, <1>7, <1>8, <1>9, <1>10 DEF Step

\* A call that has not begun or has ended holds nothing.
LEMMA IdleCallInv ==
  ASSUME NEW c \in Calls, pc[c] \in {"start", "done", "failed"}
  PROVE  CallInv(c)
  BY DEF CallInv, Holding, HoldingBoth

LEMMA StepKeepsOwnCall ==
  ASSUME TypeOK, LockInv, NEW c \in Calls, Step(c)
  PROVE  CallInv(c)'
<1> USE DEF Goto
<1>1. CASE LockFirst(c)
  <2>1. op[c].from \in Wallets /\ op' = op /\ wallet' = wallet
    BY <1>1, OpType DEF LockFirst
  <2>2. rowLock'[op[c].from] = c /\ seen'[c].from = wallet[op[c].from]
    BY <1>1, <2>1 DEF LockFirst, TypeOK
  <2>3. pc'[c] = (IF op[c].kind = "transfer" THEN "second" ELSE "held")
    BY <1>1 DEF LockFirst, TypeOK
  <2>4. op[c].kind \in {"mint", "burn", "transfer"}
    BY <1>1 DEF LockFirst
  <2>5. QED
    BY <2>1, <2>2, <2>3, <2>4 DEF CallInv, Holding, HoldingBoth
<1>2. CASE LockSecond(c)
  <2>1. /\ op[c].from \in Wallets /\ op[c].to \in Wallets
        /\ op' = op /\ wallet' = wallet
    BY <1>2, OpType DEF LockSecond
  <2>2. CallInv(c) /\ pc[c] = "second"
    BY <1>2 DEF LockInv, LockSecond
  <2>3. /\ rowLock'[op[c].to] = c /\ rowLock'[op[c].from] = c
        /\ seen'[c].to = wallet[op[c].to] /\ seen'[c].from = seen[c].from
        /\ pc'[c] = "held"
    BY <1>2, <2>1, <2>2 DEF LockSecond, TypeOK, CallInv, Holding
  <2>4. QED
    BY <2>1, <2>2, <2>3 DEF CallInv, Holding, HoldingBoth
<1>3. CASE Reject(c) \/ DeadlockVictim(c)
  <2>1. pc'[c] = "failed"
    BY <1>3 DEF Reject, DeadlockVictim, Rollback, TypeOK
  <2>2. QED
    BY <2>1 DEF CallInv, Holding, HoldingBoth
<1>4. CASE ReadReserve(c)
  <2>1. CallInv(c) /\ pc[c] = "held" /\ Allowed(c)
    BY <1>4 DEF LockInv, ReadReserve
  <2>2. /\ pc'[c] = "computed" /\ op' = op /\ wallet' = wallet /\ rowLock' = rowLock
        /\ seen'[c].from = seen[c].from /\ seen'[c].to = seen[c].to
    BY <1>4 DEF ReadReserve, TypeOK
  <2>3. QED
    BY <2>1, <2>2 DEF CallInv, Holding, HoldingBoth, Allowed, MintAllowed,
                      BurnAllowed, TransferAllowed
<1>5. CASE SaveReserve(c)
  <2>1. CallInv(c) /\ pc[c] = "computed"
    BY <1>5 DEF LockInv, SaveReserve
  <2>2. /\ pc'[c] = "posted" /\ op' = op /\ wallet' = wallet /\ rowLock' = rowLock
        /\ seen' = seen
    BY <1>5 DEF SaveReserve, TypeOK
  <2>3. QED
    BY <2>1, <2>2 DEF CallInv, Holding, HoldingBoth, Allowed, MintAllowed,
                      BurnAllowed, TransferAllowed
<1>6. CASE PassTransfer(c)
  <2>1. CallInv(c) /\ pc[c] = "held" /\ Allowed(c)
    BY <1>6 DEF LockInv, PassTransfer
  <2>2. /\ pc'[c] = "posted" /\ op' = op /\ wallet' = wallet /\ rowLock' = rowLock
        /\ seen' = seen
    BY <1>6 DEF PassTransfer, TypeOK
  <2>3. QED
    BY <2>1, <2>2 DEF CallInv, Holding, HoldingBoth, Allowed, MintAllowed,
                      BurnAllowed, TransferAllowed
<1>7. CASE \/ CommitMint(c) \/ CommitBurn(c) \/ CommitTransfer(c)
           \/ SetFrozen(c) \/ PatchWrite(c)
  <2>1. pc'[c] = "done"
    BY <1>7 DEF CommitMint, CommitBurn, CommitTransfer, Commit, SetFrozen,
                PatchWrite, TypeOK
  <2>2. QED
    BY <2>1 DEF CallInv, Holding, HoldingBoth
<1>8. CASE PatchRead(c)
  <2>1. pc'[c] = "patching" /\ op'[c].kind = "patch"
    BY <1>8 DEF PatchRead, TypeOK
  <2>2. QED
    BY <2>1 DEF CallInv, Holding, HoldingBoth
<1>9. QED
  BY <1>1, <1>2, <1>3, <1>4, <1>5, <1>6, <1>7, <1>8 DEF Step

LEMMA NextLockInv == TypeOK /\ LockInv /\ [Next]_vars => LockInv'
<1> SUFFICES ASSUME TypeOK, LockInv, [Next]_vars PROVE LockInv'
  OBVIOUS
<1>1. ASSUME NEW c \in Calls, Step(c) PROVE LockInv'
  BY <1>1, StepFrame, FrameKeepsCall, StepKeepsOwnCall DEF LockInv
<1>2. ASSUME NEW c \in Calls, Crash(c) PROVE LockInv'
  <2>1. Frame(c)
    BY <1>2, RollbackFrame DEF Crash
  <2>2. pc'[c] = "failed"
    BY <1>2 DEF Crash, Rollback, Goto, TypeOK
  <2>3. CallInv(c)'
    BY <2>2 DEF CallInv, Holding, HoldingBoth
  <2>4. QED
    BY <2>1, <2>3, FrameKeepsCall DEF LockInv
<1>3. CASE UNCHANGED vars
  BY <1>3 DEF vars, LockInv, CallInv, Holding, HoldingBoth, Allowed, MintAllowed,
              BurnAllowed, TransferAllowed
<1>4. QED
  BY <1>1, <1>2, <1>3 DEF Next, AtRest

\* At every moment a call inside its transaction holds its rows and knows them.
THEOREM Locking == Spec => [](TypeOK /\ LockInv)
<1>1. Init => TypeOK /\ LockInv
  <2>1. Init => LockInv
    BY IdleCallInv DEF Init, LockInv
  <2>2. QED
    BY <2>1, InitTypeOK
<1>2. (TypeOK /\ LockInv) /\ [Next]_vars => (TypeOK /\ LockInv)'
  BY NextTypeOK, NextLockInv
<1>3. QED
  BY <1>1, <1>2, PTL DEF Spec
-----------------------------------------------------------------------------
(* Solvency.                                                                *)

\* No wallet, and no copy of a wallet a call works on, is overdrawn.
SolvencyInv ==
  /\ NonNegative
  /\ \A c \in Calls : seen[c].from.balance >= 0 /\ seen[c].to.balance >= 0

LEMMA PostedAmount ==
  ASSUME NaturalAmounts, TypeOK, NEW c \in Calls,
         op[c].kind \in {"mint", "burn", "transfer"}
  PROVE  op[c].amount \in Int /\ op[c].amount >= 0
<1>1. op[c].amount \in Amounts
  BY OpType
<1>2. op[c].amount \in Nat
  BY <1>1 DEF NaturalAmounts
<1>3. QED
  BY <1>2

LEMMA NextSolvency ==
  ASSUME NaturalAmounts
  PROVE  TypeOK /\ LockInv /\ SolvencyInv /\ [Next]_vars => SolvencyInv'
<1> SUFFICES ASSUME TypeOK, LockInv, SolvencyInv, [Next]_vars PROVE SolvencyInv'
  OBVIOUS
<1> USE DEF SolvencyInv, NonNegative
<1>1. ASSUME NEW c \in Calls, Rollback(c) PROVE SolvencyInv'
  BY <1>1 DEF Rollback
<1>2. ASSUME NEW c \in Calls, Step(c) PROVE SolvencyInv'
  <2>1. CASE LockFirst(c) \/ LockSecond(c) \/ PatchRead(c)
    <3>1. wallet' = wallet /\ op[c].from \in Wallets /\ op[c].to \in Wallets
      BY <2>1, OpType DEF LockFirst, LockSecond, PatchRead
    <3>2. ASSUME NEW d \in Calls
          PROVE  seen'[d].from.balance >= 0 /\ seen'[d].to.balance >= 0
      <4>1. seen'[d].from \in {seen[d].from, wallet[op[d].from]}
        BY <2>1 DEF LockFirst, LockSecond, PatchRead, TypeOK
      <4>2. seen'[d].to \in {seen[d].to, wallet[op[d].to]}
        BY <2>1 DEF LockFirst, LockSecond, PatchRead, TypeOK
      <4>3. wallet[op[d].from].balance >= 0 /\ wallet[op[d].to].balance >= 0
        BY OpType
      <4>4. QED
        BY <4>1, <4>2, <4>3
    <3>3. QED
      BY <3>1, <3>2
  <2>2. CASE Reject(c) \/ DeadlockVictim(c)
    BY <1>1, <2>2 DEF Reject, DeadlockVictim
  <2>3. CASE ReadReserve(c)
    <3>1. wallet' = wallet
      BY <2>3 DEF ReadReserve
    <3>2. ASSUME NEW d \in Calls
          PROVE  seen'[d].from = seen[d].from /\ seen'[d].to = seen[d].to
      BY <2>3 DEF ReadReserve, TypeOK
    <3>3. QED
      BY <3>1, <3>2
  <2>4. CASE SaveReserve(c) \/ PassTransfer(c)
    BY <2>4 DEF SaveReserve, PassTransfer
  <2>5. CASE CommitMint(c)
    <3> DEFINE w == op[c].from
               a == op[c].amount
    <3>1. /\ w \in Wallets /\ seen[c].from \in Row /\ seen[c].from.balance \in Int
      BY OpType, SeenType
    <3>2. a \in Int /\ a >= 0
      BY <2>5, PostedAmount DEF CommitMint
    <3>3. /\ Post(seen[c].from, a).balance = seen[c].from.balance + a
          /\ Post(seen[c].from, a) \in Row
      BY <3>1, <3>2, PostType
    <3>4. Post(seen[c].from, a).balance >= 0
      BY <3>1, <3>2, <3>3
    <3>5. Saved(w, Post(seen[c].from, a)).balance >= 0
      BY <3>1, <3>3, <3>4, SavedType
    <3>6. QED
      BY <2>5, <3>1, <3>5 DEF CommitMint, TypeOK
  <2>6. CASE CommitBurn(c)
    <3> DEFINE w == op[c].from
               a == op[c].amount
    <3>1. /\ w \in Wallets /\ a \in Int /\ seen[c].from \in Row
          /\ seen[c].from.balance \in Int
      BY <2>6, OpType, SeenType DEF Row
    <3>2. a <= seen[c].from.balance
      BY <2>6 DEF CommitBurn, LockInv, CallInv, Allowed, BurnAllowed
    <3>3. -a \in Int
      BY <3>1
    <3>4. /\ Post(seen[c].from, -a).balance = seen[c].from.balance + (-a)
          /\ Post(seen[c].from, -a) \in Row
      BY <3>1, <3>3, PostType
    <3>5. Post(seen[c].from, -a).balance >= 0
      BY <3>1, <3>2, <3>4
    <3>6. Saved(w, Post(seen[c].from, -a)).balance >= 0
      BY <3>1, <3>4, <3>5, SavedType
    <3>7. QED
      BY <2>6, <3>1, <3>6 DEF CommitBurn, TypeOK
  <2>7. CASE CommitTransfer(c)
    <3> DEFINE f == op[c].from
               t == op[c].to
               a == op[c].amount
    <3>1. /\ f \in Wallets /\ t \in Wallets
          /\ seen[c].from \in Row /\ seen[c].from.balance \in Int
          /\ seen[c].to \in Row /\ seen[c].to.balance \in Int
      BY OpType, SeenType
    <3>2. a \in Int /\ a >= 0
      BY <2>7, PostedAmount DEF CommitTransfer
    <3>3. -a \in Int
      BY <3>2
    <3>4. a <= seen[c].from.balance
      BY <2>7 DEF CommitTransfer, LockInv, CallInv, Allowed, TransferAllowed
    <3>5. /\ Post(seen[c].from, -a).balance = seen[c].from.balance + (-a)
          /\ Post(seen[c].from, -a) \in Row
      BY <3>1, <3>3, PostType
    <3>6. /\ Post(seen[c].to, a).balance = seen[c].to.balance + a
          /\ Post(seen[c].to, a) \in Row
      BY <3>1, <3>2, PostType
    <3>7. Post(seen[c].from, -a).balance >= 0 /\ Post(seen[c].to, a).balance >= 0
      BY <3>1, <3>2, <3>4, <3>5, <3>6
    <3>8. /\ Saved(f, Post(seen[c].from, -a)).balance >= 0
          /\ Saved(t, Post(seen[c].to, a)).balance >= 0
      BY <3>1, <3>5, <3>6, <3>7, SavedType
    <3>9. QED
      BY <2>7, <3>1, <3>8 DEF CommitTransfer, TypeOK
  <2>8. CASE SetFrozen(c)
    <3>1. \A w \in Wallets : wallet'[w].balance = wallet[w].balance
      BY <2>8 DEF SetFrozen, TypeOK, Row
    <3>2. QED
      BY <2>8, <3>1 DEF SetFrozen
  <2>9. CASE PatchWrite(c)
    <3>1. PICK b \in BOOLEAN :
            wallet' = [wallet EXCEPT ![op[c].from] = [seen[c].from EXCEPT !.frozen = b]]
      BY <2>9 DEF PatchWrite
    <3>2. [seen[c].from EXCEPT !.frozen = b].balance = seen[c].from.balance
      BY SeenType DEF Row
    <3>3. QED
      BY <2>9, <3>1, <3>2 DEF PatchWrite, TypeOK
  <2>10. QED
    BY <1>2, <2>1, <2>2, <2>3, <2>4, <2>5, <2>6, <2>7, <2>8, <2>9 DEF Step
<1>3. CASE UNCHANGED vars
  BY <1>3 DEF vars
<1>4. QED
  BY <1>1, <1>2, <1>3 DEF Next, AtRest, Crash

\* For any natural amounts no interleaving of calls, crashes, deadlock victims
\* or PATCHes overdraws a wallet.
THEOREM Solvency ==
  ASSUME NaturalAmounts
  PROVE  Spec => []NonNegative
<1>1. Init => SolvencyInv
  <2> SUFFICES ASSUME Init PROVE SolvencyInv
    OBVIOUS
  <2>1. \A w \in Wallets : OpeningRow(w).balance >= 0
    BY CreditsAssumption DEF OpeningRow
  <2>2. \A c \in Calls : op[c].from \in Wallets /\ op[c].to \in Wallets
    BY InitTypeOK, OpType
  <2>3. QED
    BY <2>1, <2>2 DEF Init, SolvencyInv, NonNegative
<1>2. TypeOK /\ LockInv /\ SolvencyInv /\ [Next]_vars => SolvencyInv'
  BY NextSolvency
<1>3. SolvencyInv => NonNegative
  BY DEF SolvencyInv
<1>4. QED
  BY <1>1, <1>2, <1>3, Locking, PTL DEF Spec

-----------------------------------------------------------------------------
(* The reserve counters.                                                    *)

\* What a call has read of the reserve was never more than the truth.
ReserveInv ==
  /\ ReserveNeverOverstates
  /\ \A c \in Calls : /\ seen[c].reserve.minted <= issued
                       /\ seen[c].reserve.burned <= retired

LEMMA NextReserveInv ==
  ASSUME NaturalAmounts
  PROVE  TypeOK /\ ReserveInv /\ [Next]_vars => ReserveInv'
<1> SUFFICES ASSUME TypeOK, ReserveInv, [Next]_vars PROVE ReserveInv'
  OBVIOUS
<1>1. /\ issued \in Int /\ retired \in Int
      /\ reserve.minted \in Int /\ reserve.burned \in Int
      /\ \A c \in Calls : seen[c].reserve.minted \in Int /\ seen[c].reserve.burned \in Int
  BY SeenType DEF TypeOK, ReserveRow
<1>2. ASSUME reserve' = reserve, issued' = issued, retired' = retired,
             \A d \in Calls : seen'[d].reserve \in {seen[d].reserve, reserve}
      PROVE  ReserveInv'
  BY <1>2 DEF ReserveInv, ReserveNeverOverstates
<1>3. ASSUME NEW c \in Calls, Step(c) PROVE ReserveInv'
  <2>1. CASE CommitMint(c)
    <3>1. op[c].amount \in Int /\ op[c].amount >= 0
      BY <2>1, PostedAmount DEF CommitMint
    <3>2. /\ reserve'.minted = seen[c].reserve.minted + op[c].amount
          /\ reserve'.burned = reserve.burned
          /\ issued' = issued + op[c].amount /\ retired' = retired /\ seen' = seen
      BY <2>1 DEF CommitMint, TypeOK, ReserveRow
    <3>3. QED
      BY <1>1, <3>1, <3>2 DEF ReserveInv, ReserveNeverOverstates
  <2>2. CASE CommitBurn(c)
    <3>1. op[c].amount \in Int /\ op[c].amount >= 0
      BY <2>2, PostedAmount DEF CommitBurn
    <3>2. /\ reserve'.burned = seen[c].reserve.burned + op[c].amount
          /\ reserve'.minted = reserve.minted
          /\ retired' = retired + op[c].amount /\ issued' = issued /\ seen' = seen
      BY <2>2 DEF CommitBurn, TypeOK, ReserveRow
    <3>3. QED
      BY <1>1, <3>1, <3>2 DEF ReserveInv, ReserveNeverOverstates
  <2>3. CASE \/ LockFirst(c) \/ LockSecond(c) \/ ReadReserve(c) \/ PatchRead(c)
    <3>1. \A d \in Calls : seen'[d].reserve \in {seen[d].reserve, reserve}
      BY <2>3 DEF LockFirst, LockSecond, ReadReserve, PatchRead, TypeOK
    <3>2. QED
      BY <1>2, <2>3, <3>1 DEF LockFirst, LockSecond, ReadReserve, PatchRead
  <2>4. CASE \/ Reject(c) \/ DeadlockVictim(c) \/ SaveReserve(c) \/ PassTransfer(c)
             \/ CommitTransfer(c) \/ SetFrozen(c) \/ PatchWrite(c)
    BY <1>2, <2>4 DEF Reject, DeadlockVictim, Rollback, SaveReserve, PassTransfer,
                      CommitTransfer, SetFrozen, PatchWrite
  <2>5. QED
    BY <1>3, <2>1, <2>2, <2>3, <2>4 DEF Step
<1>4. CASE \/ \E c \in Calls : Crash(c)
           \/ UNCHANGED vars
  BY <1>2, <1>4 DEF Crash, Rollback, vars
<1>5. QED
  BY <1>3, <1>4 DEF Next, AtRest

\* The unlocked read of the reserve can lose updates but never invents any.
THEOREM ReserveSound ==
  ASSUME NaturalAmounts
  PROVE  Spec => []ReserveNeverOverstates
<1>1. Init => ReserveInv
  BY CreditsAssumption
     DEF Init, OpeningReserve, ReserveInv, ReserveNeverOverstates
<1>2. TypeOK /\ ReserveInv /\ [Next]_vars => ReserveInv'
  BY NextReserveInv
<1>3. ReserveInv => ReserveNeverOverstates
  BY DEF ReserveInv
<1>4. QED
  BY <1>1, <1>2, <1>3, TypeCorrect, PTL DEF Spec

-----------------------------------------------------------------------------
(* The ledger replays and describes the wallets, a frozen wallet transfers *)
(* nothing, and Credits implements CreditBook.  The ledger and the         *)
(* refinement need that no call is a generic PATCH and that transfers are  *)
(* between two different wallets.                                          *)

LEMMA RowEqual ==
  ASSUME NEW r \in Row, NEW s \in Row,
         r.balance = s.balance, r.nonce = s.nonce, r.frozen = s.frozen
  PROVE  r = s
  BY DEF Row

\* What the three kinds of commit do, in terms of the rows they hold.
LEMMA MintStep ==
  ASSUME TypeOK, LockInv, NEW c \in Calls, CommitMint(c)
  PROVE  LET w == op[c].from
             a == op[c].amount
             row == Post(wallet[w], a)
         IN /\ w \in Wallets /\ a \in Amounts /\ a \in Int /\ a <= Backing
            /\ row \in Row /\ row.balance = wallet[w].balance + a
            /\ row.nonce = wallet[w].nonce + 1 /\ row.frozen = wallet[w].frozen
            /\ wallet' = [wallet EXCEPT ![w] = row]
            /\ ledger' = [ledger EXCEPT ![w] = Append(@, Entry("mint", a, row))]
<1> DEFINE w == op[c].from
           a == op[c].amount
           row == Post(wallet[w], a)
<1>1. w \in Wallets /\ a \in Amounts /\ a \in Int
  BY OpType DEF CommitMint
<1>2. seen[c].from = wallet[w] /\ a <= Backing
  BY DEF LockInv, CallInv, Holding, Allowed, MintAllowed, CommitMint
<1>3. wallet[w] \in Row
  BY <1>1 DEF TypeOK
<1>4. /\ row \in Row /\ row.balance = wallet[w].balance + a
      /\ row.nonce = wallet[w].nonce + 1 /\ row.frozen = wallet[w].frozen
  BY <1>1, <1>3, PostType
<1>5. Saved(w, row) = row
  BY <1>1, <1>4, SavedType, RowEqual
<1>6. QED
  BY <1>1, <1>2, <1>4, <1>5 DEF CommitMint

LEMMA BurnStep ==
  ASSUME TypeOK, LockInv, NEW c \in Calls, CommitBurn(c)
  PROVE  LET w == op[c].from
             a == op[c].amount
             row == Post(wallet[w], -a)
         IN /\ w \in Wallets /\ a \in Amounts /\ a \in Int
            /\ a <= wallet[w].balance
            /\ row \in Row /\ row.balance = wallet[w].balance + (-a)
            /\ row.nonce = wallet[w].nonce + 1 /\ row.frozen = wallet[w].frozen
            /\ wallet' = [wallet EXCEPT ![w] = row]
            /\ ledger' = [ledger EXCEPT ![w] = Append(@, Entry("burn", -a, row))]
<1> DEFINE w == op[c].from
           a == op[c].amount
           row == Post(wallet[w], -a)
<1>1. w \in Wallets /\ a \in Amounts /\ a \in Int
  BY OpType DEF CommitBurn
<1>2. seen[c].from = wallet[w] /\ a <= wallet[w].balance
  BY DEF LockInv, CallInv, Holding, Allowed, BurnAllowed, CommitBurn
<1>3. wallet[w] \in Row
  BY <1>1 DEF TypeOK
<1>4. -a \in Int
  BY <1>1
<1>5. /\ row \in Row /\ row.balance = wallet[w].balance + (-a)
      /\ row.nonce = wallet[w].nonce + 1 /\ row.frozen = wallet[w].frozen
  BY <1>3, <1>4, PostType
<1>6. Saved(w, row) = row
  BY <1>1, <1>5, SavedType, RowEqual
<1>7. QED
  BY <1>1, <1>2, <1>5, <1>6 DEF CommitBurn

LEMMA TransferStep ==
  ASSUME TypeOK, LockInv, DistinctRoutes, NEW c \in Calls, CommitTransfer(c)
  PROVE  LET f == op[c].from
             t == op[c].to
             a == op[c].amount
             debit == Post(wallet[f], -a)
             credit == Post(wallet[t], a)
         IN /\ f \in Wallets /\ t \in Wallets /\ f # t
            /\ a \in Amounts /\ a \in Int /\ a <= wallet[f].balance
            /\ debit \in Row /\ debit.balance = wallet[f].balance + (-a)
            /\ debit.nonce = wallet[f].nonce + 1 /\ debit.frozen = wallet[f].frozen
            /\ credit \in Row /\ credit.balance = wallet[t].balance + a
            /\ credit.nonce = wallet[t].nonce + 1 /\ credit.frozen = wallet[t].frozen
            /\ wallet' = [wallet EXCEPT ![f] = debit, ![t] = credit]
            /\ ledger'[f] = Append(ledger[f], Entry("transfer", -a, debit))
            /\ ledger'[t] = Append(ledger[t], Entry("transfer", a, credit))
            /\ \A w \in Wallets \ {f, t} : ledger'[w] = ledger[w]
<1> DEFINE f == op[c].from
           t == op[c].to
           a == op[c].amount
           debit == Post(wallet[f], -a)
           credit == Post(wallet[t], a)
<1>1. op[c].kind = "transfer" /\ pc[c] = "posted"
  BY DEF CommitTransfer
<1>2. f \in Wallets /\ t \in Wallets /\ a \in Amounts /\ a \in Int
  BY <1>1, OpType
<1>3. f # t
  <2>1. <<f, t>> \in Routes
    BY <1>1, OpType
  <2>2. QED
    BY <2>1 DEF DistinctRoutes
<1>4. /\ seen[c].from = wallet[f] /\ seen[c].to = wallet[t]
      /\ a <= wallet[f].balance
  BY <1>1 DEF LockInv, CallInv, Holding, HoldingBoth, Allowed, TransferAllowed
<1>5. wallet[f] \in Row /\ wallet[t] \in Row
  BY <1>2 DEF TypeOK
<1>6. -a \in Int
  BY <1>2
<1>7. /\ debit \in Row /\ debit.balance = wallet[f].balance + (-a)
      /\ debit.nonce = wallet[f].nonce + 1 /\ debit.frozen = wallet[f].frozen
  BY <1>5, <1>6, PostType
<1>8. /\ credit \in Row /\ credit.balance = wallet[t].balance + a
      /\ credit.nonce = wallet[t].nonce + 1 /\ credit.frozen = wallet[t].frozen
  BY <1>2, <1>5, PostType
<1>9. Saved(f, debit) = debit /\ Saved(t, credit) = credit
  BY <1>2, <1>7, <1>8, SavedType, RowEqual
<1>10. wallet' = [wallet EXCEPT ![f] = debit, ![t] = credit]
  BY <1>4, <1>9 DEF CommitTransfer
<1>11. /\ ledger'[f] = Append(ledger[f], Entry("transfer", -a, debit))
       /\ ledger'[t] = Append(ledger[t], Entry("transfer", a, credit))
       /\ \A w \in Wallets \ {f, t} : ledger'[w] = ledger[w]
  <2> DEFINE debited == [ledger EXCEPT ![f] = Append(@, Entry("transfer", -a, debit))]
  <2>1. ledger' = [debited EXCEPT ![t] = Append(@, Entry("transfer", a, credit))]
    BY <1>4 DEF CommitTransfer
  <2>2. /\ DOMAIN debited = Wallets /\ debited[t] = ledger[t]
        /\ debited[f] = Append(ledger[f], Entry("transfer", -a, debit))
        /\ \A w \in Wallets \ {f, t} : debited[w] = ledger[w]
    BY <1>2, <1>3 DEF TypeOK
  <2> HIDE DEF debited
  <2>3. QED
    BY <1>2, <1>3, <2>1, <2>2
<1>12. QED
  BY <1>2, <1>3, <1>4, <1>7, <1>8, <1>10, <1>11

\* Every other step leaves the ledger alone, and without the generic PATCH it
\* leaves balances and nonces alone too.
NotPosting(c) == ~CommitMint(c) /\ ~CommitBurn(c) /\ ~CommitTransfer(c)

LEMMA OtherStep ==
  ASSUME TypeOK, LockInv, NoPatch, NEW c \in Calls, Step(c) \/ Crash(c), NotPosting(c)
  PROVE  /\ ledger' = ledger
         /\ \/ wallet' = wallet
            \/ \E w \in Wallets, b \in BOOLEAN :
                 wallet' = [wallet EXCEPT ![w].frozen = b]
<1>1. op[c].from \in Wallets /\ op[c].kind \in Ops
  BY OpType
<1>2. CASE SetFrozen(c)
  BY <1>1, <1>2 DEF SetFrozen
<1>3. CASE PatchRead(c)
  BY <1>3 DEF PatchRead
<1>4. CASE PatchWrite(c)
  <2>1. op[c].kind = "patch"
    BY <1>4 DEF PatchWrite, LockInv, CallInv
  <2>2. QED
    BY <1>1, <2>1 DEF NoPatch
<1>5. CASE LockFirst(c) \/ LockSecond(c) \/ ReadReserve(c) \/ SaveReserve(c) \/ PassTransfer(c)
  BY <1>5 DEF LockFirst, LockSecond, ReadReserve, SaveReserve, PassTransfer
<1>6. CASE Reject(c) \/ DeadlockVictim(c) \/ Crash(c)
  BY <1>6 DEF Reject, DeadlockVictim, Crash, Rollback
<1>7. QED
  BY <1>2, <1>3, <1>4, <1>5, <1>6 DEF NotPosting, Step
-----------------------------------------------------------------------------
(* A frozen wallet transfers nothing.                                       *)

LEMMA FrozenStep ==
  ASSUME TypeOK, LockInv, [Next]_vars,
         NEW w \in Wallets, Len(ledger'[w]) > Len(ledger[w]),
         ledger'[w][Len(ledger'[w])].type = "transfer"
  PROVE  ~wallet[w].frozen
<1>1. ASSUME ledger' = ledger PROVE FALSE
  BY <1>1 DEF TypeOK
<1>2. ASSUME NEW c \in Calls, Step(c) PROVE ~wallet[w].frozen
  <2>1. CASE CommitMint(c)
    <3>1. ledger'[w] \in {ledger[w], Append(ledger[w], Entry("mint", op[c].amount,
                                            Post(seen[c].from, op[c].amount)))}
      BY <2>1 DEF CommitMint, TypeOK
    <3>2. ledger[w] \in Seq(LedgerEntry)
      BY DEF TypeOK
    <3>3. QED
      BY <3>1, <3>2 DEF Entry
  <2>2. CASE CommitBurn(c)
    <3>1. ledger'[w] \in {ledger[w], Append(ledger[w], Entry("burn", -op[c].amount,
                                            Post(seen[c].from, -op[c].amount)))}
      BY <2>2 DEF CommitBurn, TypeOK
    <3>2. ledger[w] \in Seq(LedgerEntry)
      BY DEF TypeOK
    <3>3. QED
      BY <3>1, <3>2 DEF Entry
  <2>3. CASE CommitTransfer(c)
    <3> DEFINE f == op[c].from
               t == op[c].to
    <3>1. /\ seen[c].from = wallet[f] /\ seen[c].to = wallet[t]
          /\ ~wallet[f].frozen /\ ~wallet[t].frozen
      BY <2>3 DEF CommitTransfer, LockInv, CallInv, Holding, HoldingBoth, Allowed,
                  TransferAllowed
    <3>2. w \notin {f, t} => ledger'[w] = ledger[w]
      <4> DEFINE debited == [ledger EXCEPT ![f] = Append(@, Entry("transfer",
                               -op[c].amount, Post(seen[c].from, -op[c].amount)))]
      <4>1. ledger' = [debited EXCEPT ![t] = Append(@, Entry("transfer",
                               op[c].amount, Post(seen[c].to, op[c].amount)))]
        BY <2>3 DEF CommitTransfer
      <4>2. DOMAIN debited = Wallets /\ (w # f => debited[w] = ledger[w])
        BY DEF TypeOK
      <4> HIDE DEF debited
      <4>3. QED
        BY <4>1, <4>2
    <3>3. ledger[w] \in Seq(LedgerEntry)
      BY DEF TypeOK
    <3>4. QED
      BY <3>1, <3>2, <3>3
  <2>4. CASE NotPosting(c)
    <3>1. ledger' = ledger
      BY <1>2, <2>4 DEF NotPosting, Step, LockFirst, LockSecond, Reject, ReadReserve,
           SaveReserve, PassTransfer, SetFrozen, PatchRead, PatchWrite,
           DeadlockVictim, Rollback
    <3>2. QED
      BY <1>1, <3>1
  <2>5. QED
    BY <2>1, <2>2, <2>3, <2>4 DEF NotPosting
<1>3. CASE (\E c \in Calls : Crash(c)) \/ UNCHANGED vars
  BY <1>1, <1>3 DEF Crash, Rollback, vars
<1>4. QED
  BY <1>2, <1>3 DEF Next, AtRest

\* Once a wallet is frozen no transfer from it or to it commits, whatever was
\* under way when it was frozen.
THEOREM FreezeIsImmediate == Spec => FrozenNeverTransfers
<1>1. TypeOK /\ LockInv /\ [Next]_vars =>
        [\A w \in Wallets :
           /\ Len(ledger'[w]) > Len(ledger[w])
           /\ ledger'[w][Len(ledger'[w])].type = "transfer"
           => ~wallet[w].frozen]_vars
  BY FrozenStep
<1>2. QED
  BY <1>1, Locking, PTL DEF Spec, FrozenNeverTransfers

-----------------------------------------------------------------------------
(* The ledger replays, and its tip is the wallet.                           *)

Replays(w) ==
  \A i \in 1..Len(ledger[w]) :
    /\ ledger[w][i].balance_after = After(w, i - 1).balance + ledger[w][i].amount
    /\ ledger[w][i].nonce = After(w, i - 1).nonce + 1

Tip(w) ==
  /\ wallet[w].balance = After(w, Len(ledger[w])).balance
  /\ wallet[w].nonce = After(w, Len(ledger[w])).nonce

\* Nonces count ledger rows.
WalletInv(w) == Replays(w) /\ Tip(w) /\ wallet[w].nonce = Len(ledger[w])

LedgerInv == \A w \in Wallets : WalletInv(w)

LEMMA WalletKept ==
  ASSUME NEW w \in Wallets, WalletInv(w), ledger'[w] = ledger[w],
         wallet'[w].balance = wallet[w].balance, wallet'[w].nonce = wallet[w].nonce
  PROVE  WalletInv(w)'
  BY DEF WalletInv, Replays, Tip, After

LEMMA WalletPosted ==
  ASSUME TypeOK, NEW w \in Wallets, WalletInv(w),
         NEW type \in {"mint", "burn", "transfer"}, NEW a \in Int, NEW row \in Row,
         row.balance = wallet[w].balance + a, row.nonce = wallet[w].nonce + 1,
         ledger'[w] = Append(ledger[w], Entry(type, a, row)),
         wallet'[w] = row
  PROVE  WalletInv(w)'
<1> DEFINE e == Entry(type, a, row)
<1>1. /\ e.balance_after = row.balance /\ e.nonce = row.nonce /\ e.amount = a
  BY DEF Entry
<1>2. ledger[w] \in Seq(LedgerEntry) /\ e \in LedgerEntry
  BY EntryType DEF TypeOK
<1> HIDE DEF e
<1>0. PICK n \in Nat : n = Len(ledger[w])
  BY <1>2
<1>3. /\ n \in Nat /\ Len(ledger'[w]) = n + 1
      /\ ledger'[w][n + 1] = e
      /\ \A i \in 1..n : ledger'[w][i] = ledger[w][i]
  BY <1>0, <1>2 DEF e
<1>4. \A i \in 0..n : After(w, i)' = After(w, i)
  BY <1>3 DEF After
<1>5. /\ After(w, n + 1)'.balance = row.balance
      /\ After(w, n + 1)'.nonce = row.nonce
  <2>1. n + 1 # 0
    BY <1>3
  <2>2. After(w, n + 1)' = [balance |-> ledger'[w][n + 1].balance_after,
                            nonce |-> ledger'[w][n + 1].nonce]
    BY <2>1 DEF After
  <2>3. QED
    BY <1>1, <1>3, <2>2
<1>6. Tip(w)' /\ wallet'[w].nonce = Len(ledger'[w])
  <2>1. wallet[w].nonce = n
    BY <1>0 DEF WalletInv
  <2>2. wallet'[w].balance = row.balance /\ wallet'[w].nonce = row.nonce
    OBVIOUS
  <2>3. After(w, n + 1)' = After(w, Len(ledger[w]))'
    BY <1>3 DEF After
  <2>4. QED
    BY <1>3, <1>5, <2>1, <2>2, <2>3 DEF Tip
<1>7. Replays(w)'
  <2>1. ASSUME NEW i \in 1..n
        PROVE  /\ ledger'[w][i].balance_after
                    = After(w, i - 1)'.balance + ledger'[w][i].amount
               /\ ledger'[w][i].nonce = After(w, i - 1)'.nonce + 1
    <3>1. i - 1 \in 0..n
      BY <1>3, <2>1
    <3>2. QED
      BY <1>0, <1>3, <1>4, <2>1, <3>1 DEF WalletInv, Replays
  <2>2. /\ ledger'[w][n + 1].balance_after
             = After(w, n)'.balance + ledger'[w][n + 1].amount
        /\ ledger'[w][n + 1].nonce = After(w, n)'.nonce + 1
    <3>1. n \in 0..n
      BY <1>3
    <3>2. /\ After(w, n)'.balance = wallet[w].balance
          /\ After(w, n)'.nonce = wallet[w].nonce
      <4>1. After(w, n)' = After(w, n)
        BY <1>4, <3>1
      <4>2. /\ After(w, n).balance = wallet[w].balance
            /\ After(w, n).nonce = wallet[w].nonce
        BY <1>0 DEF WalletInv, Tip
      <4>3. QED
        BY <4>1, <4>2
    <3>3. QED
      BY <1>1, <1>3, <3>2
  <2>3. \A i \in 1..(n + 1) : i \in 1..n \/ i = n + 1
    BY <1>3
  <2>4. n + 1 - 1 = n
    BY <1>3
  <2>5. \A i \in 1..Len(ledger'[w]) :
          /\ ledger'[w][i].balance_after
               = After(w, i - 1)'.balance + ledger'[w][i].amount
          /\ ledger'[w][i].nonce = After(w, i - 1)'.nonce + 1
    BY <1>3, <2>1, <2>2, <2>3, <2>4
  <2>6. QED
    BY <2>5 DEF Replays
<1>8. QED
  BY <1>6, <1>7 DEF WalletInv

LEMMA NextLedgerInv ==
  ASSUME NoPatch, DistinctRoutes
  PROVE  TypeOK /\ LockInv /\ LedgerInv /\ [Next]_vars => LedgerInv'
<1> SUFFICES ASSUME TypeOK, LockInv, LedgerInv, [Next]_vars,
                    NEW w \in Wallets
             PROVE  WalletInv(w)'
  BY DEF LedgerInv
<1>0. WalletInv(w) /\ wallet[w] \in Row
  BY DEF LedgerInv, TypeOK
<1>1. ASSUME NEW c \in Calls, CommitMint(c) PROVE WalletInv(w)'
  <2>1. CASE w = op[c].from
    <3>1. wallet'[w] = Post(wallet[w], op[c].amount)
      BY <1>1, <2>1, MintStep DEF TypeOK
    <3>2. ledger'[w] = Append(ledger[w], Entry("mint", op[c].amount,
                                            Post(wallet[w], op[c].amount)))
      BY <1>1, <2>1, MintStep DEF TypeOK
    <3>3. QED
      BY <1>0, <1>1, <2>1, <3>1, <3>2, MintStep, WalletPosted
  <2>2. CASE w # op[c].from
    BY <1>0, <1>1, <2>2, MintStep, WalletKept DEF TypeOK
  <2>3. QED
    BY <2>1, <2>2
<1>2. ASSUME NEW c \in Calls, CommitBurn(c) PROVE WalletInv(w)'
  <2>1. CASE w = op[c].from
    <3>1. wallet'[w] = Post(wallet[w], -op[c].amount)
      BY <1>2, <2>1, BurnStep DEF TypeOK
    <3>2. ledger'[w] = Append(ledger[w], Entry("burn", -op[c].amount,
                                            Post(wallet[w], -op[c].amount)))
      BY <1>2, <2>1, BurnStep DEF TypeOK
    <3>3. op[c].amount \in Int
      BY <1>2, BurnStep
    <3>4. -op[c].amount \in Int
      BY <3>3
    <3>5. QED
      BY <1>0, <1>2, <2>1, <3>1, <3>2, <3>4, BurnStep, WalletPosted
  <2>2. CASE w # op[c].from
    BY <1>0, <1>2, <2>2, BurnStep, WalletKept DEF TypeOK
  <2>3. QED
    BY <2>1, <2>2
<1>3. ASSUME NEW c \in Calls, CommitTransfer(c) PROVE WalletInv(w)'
  <2>1. CASE w = op[c].from
    <3>1. wallet'[w] = Post(wallet[w], -op[c].amount)
      BY <1>3, <2>1, TransferStep DEF TypeOK
    <3>2. op[c].amount \in Int
      BY <1>3, TransferStep
    <3>3. -op[c].amount \in Int
      BY <3>2
    <3>4. QED
      BY <1>0, <1>3, <2>1, <3>1, <3>3, TransferStep, WalletPosted
  <2>2. CASE w = op[c].to
    <3>1. wallet'[w] = Post(wallet[w], op[c].amount)
      BY <1>3, <2>2, TransferStep DEF TypeOK
    <3>2. QED
      BY <1>0, <1>3, <2>2, <3>1, TransferStep, WalletPosted
  <2>3. CASE w \notin {op[c].from, op[c].to}
    BY <1>0, <1>3, <2>3, TransferStep, WalletKept DEF TypeOK
  <2>4. QED
    BY <2>1, <2>2, <2>3
<1>4. ASSUME NEW c \in Calls, Step(c) \/ Crash(c), NotPosting(c)
      PROVE  WalletInv(w)'
  <2>1. /\ ledger' = ledger
        /\ wallet'[w].balance = wallet[w].balance /\ wallet'[w].nonce = wallet[w].nonce
    <3>1. /\ ledger' = ledger
          /\ \/ wallet' = wallet
             \/ \E v \in Wallets, b \in BOOLEAN :
                  wallet' = [wallet EXCEPT ![v].frozen = b]
      BY <1>4, OtherStep
    <3>2. ASSUME NEW v \in Wallets, NEW b \in BOOLEAN,
                 wallet' = [wallet EXCEPT ![v].frozen = b]
          PROVE  /\ wallet'[w].balance = wallet[w].balance
                 /\ wallet'[w].nonce = wallet[w].nonce
      <4>1. wallet'[w] \in {wallet[w], [wallet[w] EXCEPT !.frozen = b]}
        BY <3>2 DEF TypeOK
      <4>2. QED
        BY <1>0, <4>1 DEF Row
    <3>3. QED
      BY <3>1, <3>2
  <2>2. QED
    BY <1>0, <2>1, WalletKept
<1>5. CASE UNCHANGED vars
  BY <1>0, <1>5, WalletKept DEF vars
<1>6. QED
  BY <1>1, <1>2, <1>3, <1>4, <1>5 DEF Next, AtRest, NotPosting

LEMMA LedgerAlways ==
  ASSUME NoPatch, DistinctRoutes
  PROVE  Spec => [](TypeOK /\ LockInv /\ LedgerInv)
<1>1. Init => LedgerInv
  <2> SUFFICES ASSUME Init, NEW w \in Wallets PROVE WalletInv(w)
    BY DEF LedgerInv
  <2>1. ledger[w] = <<>> /\ wallet[w] = OpeningRow(w)
    BY DEF Init
  <2>2. Len(ledger[w]) = 0
    BY <2>1
  <2>3. Replays(w)
    BY <2>2 DEF Replays
  <2>4. Tip(w)
    BY <2>1, <2>2 DEF Tip, After, OpeningRow
  <2>5. QED
    BY <2>1, <2>2, <2>3, <2>4 DEF WalletInv, OpeningRow
<1>2. TypeOK /\ LockInv /\ LedgerInv /\ [Next]_vars => LedgerInv'
  BY NextLedgerInv
<1>3. QED
  BY <1>1, <1>2, Locking, PTL DEF Spec

\* Between two different wallets and without the generic PATCH, every ledger
\* replays to the row of its wallet: balances follow from amounts, nonces have no gap.
THEOREM LedgerAlwaysReplays ==
  ASSUME NoPatch, DistinctRoutes
  PROVE  Spec => []LedgerReplays
<1>1. LedgerInv => LedgerReplays
  BY DEF LedgerInv, WalletInv, Replays, Tip, LedgerReplays
<1>2. QED
  BY <1>1, LedgerAlways, PTL

-----------------------------------------------------------------------------
(* Waits for locks.                                                         *)

\* The row of w is one that c takes, at the stage c has reached.
Rightful(w, c) ==
  Holding(c) /\ (w = op[c].from \/ (w = op[c].to /\ HoldingBoth(c)))

\* A row that is locked is one its holder has taken and still needs, the reserve is
\* locked by a call that is about to commit, and only transfers take a second row.
HolderInv ==
  /\ \A w \in Wallets, c \in Calls : rowLock[w] = c => Rightful(w, c)
  /\ \A c \in Calls : /\ reserveLock = c => pc[c] = "posted"
                      /\ pc[c] = "second" => op[c].kind = "transfer"

\* A call that gives its locks back holds none, and takes none from the others.
LEMMA ReleaseHolderInv ==
  ASSUME TypeOK, HolderInv, NEW c \in Calls, Release(c), op' = op,
         NEW stage \in {"done", "failed"}, Goto(c, stage)
  PROVE  HolderInv'
<1>1. \A d \in Calls : pc'[d] = (IF d = c THEN stage ELSE pc[d])
  BY DEF Goto, TypeOK
<1>2. ASSUME NEW w \in Wallets, NEW d \in Calls, rowLock'[w] = d
      PROVE  Rightful(w, d)'
  <2>1. rowLock[w] = d /\ d # c
    BY <1>2, CreditsAssumption DEF Release
  <2>2. QED
    BY <1>1, <2>1 DEF HolderInv, Rightful, Holding, HoldingBoth
<1>3. ASSUME NEW d \in Calls, reserveLock' = d PROVE pc'[d] = "posted"
  BY <1>1, <1>3, CreditsAssumption DEF Release, HolderInv
<1>4. QED
  BY <1>1, <1>2, <1>3 DEF HolderInv

\* A call that moves on and takes no row of a wallet.
LEMMA MoveHolderInv ==
  ASSUME TypeOK, HolderInv, NEW c \in Calls, NEW stage \in Stages,
         Goto(c, stage), op' = op, rowLock' = rowLock,
         \/ /\ pc[c] \in {"held", "computed"} /\ stage \in {"computed", "posted"}
            /\ reserveLock' = reserveLock \/ (reserveLock' = c /\ stage = "posted")
         \/ /\ pc[c] \in {"start", "patching"} /\ stage \in {"patching", "done"}
            /\ reserveLock' = reserveLock
  PROVE  HolderInv'
<1>1. \A d \in Calls : pc'[d] = (IF d = c THEN stage ELSE pc[d])
  BY DEF Goto, TypeOK
<1>2. ASSUME NEW w \in Wallets, NEW d \in Calls, rowLock'[w] = d
      PROVE  Rightful(w, d)'
  BY <1>1, <1>2 DEF HolderInv, Rightful, Holding, HoldingBoth
<1>3. ASSUME NEW d \in Calls, reserveLock' = d PROVE pc'[d] = "posted"
  BY <1>1, <1>3 DEF HolderInv
<1>4. QED
  BY <1>1, <1>2, <1>3 DEF HolderInv

\* Every step of a call keeps the invariant.
LEMMA StepHolderInv ==
  ASSUME TypeOK, HolderInv, NEW c \in Calls, Step(c) \/ Crash(c)
  PROVE  HolderInv'
<1>1. CASE LockFirst(c)
  <2>1. /\ \A d \in Calls : pc'[d] = (IF d = c THEN IF op[c].kind = "transfer" THEN "second" ELSE "held" ELSE pc[d])
        /\ \A w \in Wallets : rowLock'[w] = (IF w = op[c].from THEN c ELSE rowLock[w])
        /\ reserveLock' = reserveLock /\ op' = op
    BY <1>1, OpType DEF LockFirst, Goto, TypeOK
  <2>2. pc[c] = "start"
    BY <1>1 DEF LockFirst
  <2>3. ASSUME NEW w \in Wallets, NEW d \in Calls, rowLock'[w] = d
        PROVE  Rightful(w, d)'
    <3>1. CASE w = op[c].from
      <4>1. d = c
        BY <2>1, <2>3, <3>1
      <4>2. Holding(d)' /\ w = op'[d].from
        BY <2>1, <3>1, <4>1 DEF Holding
      <4>3. QED
        BY <4>2 DEF Rightful
    <3>2. CASE w # op[c].from
      <4>1. rowLock[w] = d /\ d # c
        BY <2>1, <2>2, <2>3, <3>2 DEF HolderInv, Rightful, Holding
      <4>2. QED
        BY <2>1, <4>1 DEF HolderInv, Rightful, Holding, HoldingBoth
    <3>3. QED
      BY <3>1, <3>2
  <2>4. QED
    BY <2>1, <2>2, <2>3 DEF HolderInv
<1>2. CASE LockSecond(c)
  <2>1. /\ \A d \in Calls : pc'[d] = (IF d = c THEN "held" ELSE pc[d])
        /\ \A w \in Wallets : rowLock'[w] = (IF w = op[c].to THEN c ELSE rowLock[w])
        /\ reserveLock' = reserveLock /\ op' = op
    BY <1>2, OpType DEF LockSecond, Goto, TypeOK
  <2>2. pc[c] = "second" /\ op[c].kind = "transfer"
    BY <1>2 DEF LockSecond, HolderInv
  <2>3. ASSUME NEW w \in Wallets, NEW d \in Calls, rowLock'[w] = d
        PROVE  Rightful(w, d)'
    BY <2>1, <2>2, <2>3 DEF HolderInv, Rightful, Holding, HoldingBoth
  <2>4. QED
    BY <2>1, <2>2, <2>3 DEF HolderInv
<1>3. CASE Reject(c) \/ DeadlockVictim(c) \/ Crash(c)
  BY <1>3, ReleaseHolderInv DEF Reject, DeadlockVictim, Crash, Rollback
<1>4. CASE CommitMint(c) \/ CommitBurn(c) \/ CommitTransfer(c)
  BY <1>4, ReleaseHolderInv DEF CommitMint, CommitBurn, CommitTransfer, Commit
<1>5. CASE ReadReserve(c)
  <2>1. /\ pc[c] = "held" /\ Goto(c, "computed")
        /\ op' = op /\ rowLock' = rowLock /\ reserveLock' = reserveLock
    BY <1>5 DEF ReadReserve
  <2>2. QED
    BY <2>1, MoveHolderInv DEF Stages
<1>6. CASE SaveReserve(c) \/ PassTransfer(c)
  BY <1>6, MoveHolderInv DEF SaveReserve, PassTransfer, Stages
<1>7. CASE SetFrozen(c) \/ PatchRead(c) \/ PatchWrite(c)
  BY <1>7, MoveHolderInv DEF SetFrozen, PatchRead, PatchWrite, Stages
<1>8. QED
  BY <1>1, <1>2, <1>3, <1>4, <1>5, <1>6, <1>7 DEF Step



\* Whom a call waits for is inside its transaction.
LEMMA WaitsForHolder ==
  ASSUME TypeOK, HolderInv, NEW c \in Calls, NEW d \in Calls, WaitsFor(c, d)
  PROVE  Holding(d) /\ (pc[c] = "computed" => pc[d] = "posted")
  BY OpType DEF WaitsFor, HolderInv, Rightful, Holding

\* A call that is waited for, waits for another one, which waits itself, is between
\* its two wallets.
LEMMA WaiterInBetween ==
  ASSUME TypeOK, HolderInv, NEW b \in Calls, NEW c \in Calls, NEW d \in Calls,
         NEW e \in Calls, WaitsFor(b, c), WaitsFor(c, d), WaitsFor(d, e)
  PROVE  pc[c] = "second"
<1>1. Holding(c) /\ (pc[c] = "computed" => pc[d] = "posted")
  BY WaitsForHolder
<1>2. pc[d] # "posted"
  BY DEF WaitsFor
<1>3. QED
  BY <1>1, <1>2 DEF WaitsFor, Holding

\* Only finitely many calls hold a wallet.
LEMMA FewHolders ==
  ASSUME TypeOK, NEW S \in SUBSET Calls,
         \A c \in S : \E w \in Wallets : rowLock[w] = c
  PROVE  IsFiniteSet(S)
<1> DEFINE Holders == {rowLock[w] : w \in Wallets}
<1>1. rowLock \in Surjection(Wallets, Holders)
  BY DEF TypeOK, Surjection
<1>2. IsFiniteSet(Holders)
  BY <1>1, FS_Surjection, CreditsAssumption
<1>3. S \subseteq Holders
  OBVIOUS
<1>4. QED
  BY <1>2, <1>3, FS_Subset

\* In a finite set whose members each have a successor in it, some nonempty subset
\* has a successor and a predecessor in it for each of its members.
LEMMA CycleExists ==
  ASSUME NEW S, IsFiniteSet(S), S # {}, NEW R,
         \A c \in S : \E d \in S : <<c, d>> \in R,
         \A c \in S : <<c, c>> \notin R
  PROVE  \E M \in SUBSET S :
           /\ M # {}
           /\ \A d \in M : (\E e \in M : <<d, e>> \in R) /\ (\E e \in M : <<e, d>> \in R)
<1> DEFINE Closed(M) == M # {} /\ \A c \in M : \E d \in M : <<c, d>> \in R
           Sizes == {Cardinality(M) : M \in {T \in SUBSET S : Closed(T)}}
<1>1. ASSUME NEW M \in SUBSET S PROVE IsFiniteSet(M) /\ Cardinality(M) \in Nat
  BY <1>1, FS_Subset, FS_CardinalityType
<1>2. Sizes \in SUBSET Nat /\ Sizes # {}
  <2>1. Closed(S)
    OBVIOUS
  <2>2. Sizes \subseteq Nat
    BY <1>1
  <2>3. Cardinality(S) \in Sizes
    BY <2>1
  <2>4. QED
    BY <2>2, <2>3
<1>3. PICK n \in Sizes : \A m \in Sizes : n <= m
  <2> HIDE DEF Sizes
  <2> QED BY <1>2, LeastNumber
<1>4. PICK M \in SUBSET S : Closed(M) /\ Cardinality(M) = n
  BY <1>3
<1>5. ASSUME NEW d \in M, \A e \in M : <<e, d>> \notin R PROVE FALSE
  <2>0. d \in S /\ <<d, d>> \notin R
    BY <1>5
  <2>1. Closed(M \ {d})
    <3>1. \A c \in M \ {d} : \E e \in M \ {d} : <<c, e>> \in R
      BY <1>4, <1>5
    <3>2. M \ {d} # {}
      <4>1. PICK e \in M : <<d, e>> \in R
        BY <1>4, <1>5
      <4>2. e # d
        BY <2>0, <4>1
      <4>3. QED
        BY <4>2
    <3>3. QED
      BY <3>1, <3>2
  <2>2. Cardinality(M \ {d}) \in Sizes
    BY <2>1
  <2>3. n <= Cardinality(M \ {d})
    BY <2>2, <1>3
  <2>4. Cardinality(M \ {d}) = Cardinality(M) - 1
    BY <1>1, FS_RemoveElement
  <2>5. Cardinality(M) \in Nat
    BY <1>1
  <2>6. QED
    BY <2>3, <2>4, <2>5, <1>4
<1>6. QED
  BY <1>4, <1>5

\* Calls that are stuck wait for each other, since every lock has a holder that is
\* under way; the transfers among them are finitely many, and contain a cycle.
LEMMA HolderNobodyHangs ==
  ASSUME TypeOK, LockInv, HolderInv
  PROVE  NobodyHangs
<1>1. ASSUME NEW S \in SUBSET Calls, Stuck(S)
      PROVE  \E c \in S : OnCycle(c)
  <2>1. \A c \in S : \E d \in S : WaitsFor(c, d)
    <3>1. ASSUME NEW c \in S PROVE \E d \in S : WaitsFor(c, d)
      <4>1. PICK d \in Calls : WaitsFor(c, d) /\ (d \in S \/ Finished(d))
        BY <1>1 DEF Stuck
      <4>2. ~Finished(d)
        BY <4>1, WaitsForHolder DEF Holding, Finished
      <4>3. QED
        BY <4>1, <4>2
    <3>2. QED
      BY <3>1
  <2> DEFINE T == {c \in S : pc[c] = "second"}
             R == {p \in Calls \X Calls : WaitsFor(p[1], p[2])}
  <2>2. \A c \in S, d \in S : WaitsFor(c, d) => d \in T
    BY <2>1, WaiterInBetween
  <2>3. T # {}
    BY <1>1, <2>1, <2>2 DEF Stuck
  <2>4. \A c \in T : \E d \in T : <<c, d>> \in R
    BY <2>1, <2>2
  <2>5. \A c \in T : <<c, c>> \notin R
    BY DEF WaitsFor
  <2>6. IsFiniteSet(T)
    <3>1. \A c \in T : \E w \in Wallets : rowLock[w] = c
      BY OpType DEF LockInv, CallInv, Holding
    <3>2. QED
      BY <3>1, FewHolders
  <2>7. PICK M \in SUBSET T :
          /\ M # {}
          /\ \A d \in M : (\E e \in M : <<d, e>> \in R) /\ (\E e \in M : <<e, d>> \in R)
    <3> HIDE DEF T, R
    <3> QED BY <2>3, <2>4, <2>5, <2>6, CycleExists
  <2>8. PICK c \in M : TRUE
    BY <2>7
  <2>9. \A d \in M : (\E e \in M : WaitsFor(d, e)) /\ (\E e \in M : WaitsFor(e, d))
    BY <2>7
  <2>10. M \in SUBSET Calls /\ c \in S
    OBVIOUS
  <2>11. QED
    BY <2>9, <2>10 DEF OnCycle
<1>2. ASSUME NEW c \in Calls, OnCycle(c)
      PROVE  op[c].kind = "transfer"
  <2>1. PICK S \in SUBSET Calls :
          /\ c \in S
          /\ \A d \in S : (\E e \in S : WaitsFor(d, e)) /\ (\E e \in S : WaitsFor(e, d))
    BY <1>2 DEF OnCycle
  <2>2. PICK b \in S, d \in S : WaitsFor(b, c) /\ WaitsFor(c, d)
    BY <2>1
  <2>3. pc[c] = "second"
    BY <2>1, <2>2, WaiterInBetween
  <2>4. QED
    BY <2>3 DEF HolderInv
<1>3. QED
  BY <1>1, <1>2 DEF NobodyHangs

\* Locks have rightful holders throughout.
LEMMA AlwaysHolderInv == Spec => []HolderInv
<1>1. Init => HolderInv
  BY CreditsAssumption DEF Init, HolderInv
<1>2. TypeOK /\ HolderInv /\ [Next]_vars => HolderInv'
  <2>1. CASE UNCHANGED vars
    BY <2>1 DEF vars, HolderInv, Rightful, Holding, HoldingBoth
  <2>2. QED
    BY <2>1, StepHolderInv DEF Next, AtRest
<1>3. QED
  BY <1>1, <1>2, TypeCorrect, PTL DEF Spec

\* Whatever the calls are, transfers to oneself and PATCHes included: no call waits
\* for a lock that nobody will give back, unless the database sees a cycle of waits,
\* and only transfers are on one.
THEOREM NoCallHangs == Spec => []NobodyHangs
<1>1. TypeOK /\ LockInv /\ HolderInv => NobodyHangs
  BY HolderNobodyHangs
<1>2. QED
  BY <1>1, Locking, AlwaysHolderInv, PTL

-----------------------------------------------------------------------------
(* Credits are conserved.                                                   *)

Balances(rows) == [w \in Wallets |-> rows[w].balance]

LEMMA BalancesType ==
  ASSUME NEW rows \in [Wallets -> Row]
  PROVE  /\ \A w \in Wallets :
              Balances(rows)[w] = rows[w].balance /\ Balances(rows)[w] \in Int
         /\ SumFunction([w \in Wallets |-> rows[w].balance])
              = SumFunctionOnSet(Balances(rows), Wallets)
         /\ SumFunctionOnSet(Balances(rows), Wallets) \in Int
<1>1. \A w \in Wallets : Balances(rows)[w] = rows[w].balance /\ Balances(rows)[w] \in Int
  BY DEF Balances, Row
<1>2. DOMAIN Balances(rows) = Wallets
  BY DEF Balances
<1>3. SumFunctionOnSet(Balances(rows), Wallets) \in Int
  BY <1>1, SumType, CreditsAssumption
<1> QED BY <1>1, <1>2, <1>3 DEF Balances, SumFunction

\* The balances before and after a step, and their totals.
LEMMA TotalsOfStep ==
  ASSUME TypeOK, TypeOK'
  PROVE  LET old == Balances(wallet)
             new == Balances(wallet')
         IN /\ \A v \in Wallets : old[v] = wallet[v].balance /\ old[v] \in Int
            /\ \A v \in Wallets : new[v] = wallet'[v].balance /\ new[v] \in Int
            /\ TotalBalance = SumFunctionOnSet(old, Wallets) /\ TotalBalance \in Int
            /\ TotalBalance' = SumFunctionOnSet(new, Wallets)
<1>1. wallet \in [Wallets -> Row] /\ wallet' \in [Wallets -> Row]
  BY DEF TypeOK
<1>2. /\ TotalBalance = SumFunction([w \in Wallets |-> wallet[w].balance])
      /\ TotalBalance' = SumFunction([w \in Wallets |-> wallet'[w].balance])
  BY DEF TotalBalance
<1> QED BY <1>1, <1>2, BalancesType

\* When one balance changes, the total changes by as much.
LEMMA OneBalance ==
  ASSUME TypeOK, TypeOK', NEW w \in Wallets, NEW a \in Int,
         wallet'[w].balance = wallet[w].balance + a,
         \A v \in Wallets : v # w => wallet'[v].balance = wallet[v].balance
  PROVE  TotalBalance' = TotalBalance + a
<1> DEFINE old == Balances(wallet)
           new == Balances(wallet')
<1>1. /\ \A v \in Wallets : old[v] = wallet[v].balance /\ old[v] \in Int
      /\ \A v \in Wallets : new[v] = wallet'[v].balance /\ new[v] \in Int
      /\ TotalBalance = SumFunctionOnSet(old, Wallets) /\ TotalBalance \in Int
      /\ TotalBalance' = SumFunctionOnSet(new, Wallets)
  BY TotalsOfStep
<1> HIDE DEF old, new
<1>2. SumFunctionOnSet(new, Wallets) = SumFunctionOnSet(old, Wallets) + new[w] - old[w]
  BY <1>1, SumChange, CreditsAssumption
<1> QED BY <1>1, <1>2

\* What one wallet loses to another leaves the total as it was.
LEMMA TwoBalances ==
  ASSUME TypeOK, TypeOK', NEW f \in Wallets, NEW t \in Wallets, f # t, NEW a \in Int,
         wallet'[f].balance = wallet[f].balance + (-a),
         wallet'[t].balance = wallet[t].balance + a,
         \A v \in Wallets \ {f, t} : wallet'[v].balance = wallet[v].balance
  PROVE  TotalBalance' = TotalBalance
<1> DEFINE old == Balances(wallet)
           new == Balances(wallet')
           debited == [v \in Wallets |-> IF v = f THEN wallet[f].balance + (-a)
                                                   ELSE wallet[v].balance]
<1>1. /\ \A v \in Wallets : old[v] = wallet[v].balance /\ old[v] \in Int
      /\ \A v \in Wallets : new[v] = wallet'[v].balance /\ new[v] \in Int
      /\ TotalBalance = SumFunctionOnSet(old, Wallets) /\ TotalBalance \in Int
      /\ TotalBalance' = SumFunctionOnSet(new, Wallets)
  BY TotalsOfStep
<1> HIDE DEF old, new
<1>2. /\ \A v \in Wallets : debited[v] \in Int
      /\ debited[f] = old[f] + (-a) /\ debited[t] = old[t]
      /\ \A v \in Wallets : v # f => debited[v] = old[v]
      /\ \A v \in Wallets : v # t => new[v] = debited[v]
  BY <1>1
<1> HIDE DEF debited
<1>3. SumFunctionOnSet(debited, Wallets)
        = SumFunctionOnSet(old, Wallets) + debited[f] - old[f]
  BY <1>1, <1>2, SumChange, CreditsAssumption
<1>4. SumFunctionOnSet(new, Wallets)
        = SumFunctionOnSet(debited, Wallets) + new[t] - debited[t]
  BY <1>1, <1>2, SumChange, CreditsAssumption
<1>5. /\ debited[f] = old[f] + (-a) /\ old[f] \in Int
      /\ new[t] = debited[t] + a /\ debited[t] \in Int
  BY <1>1, <1>2
<1> QED BY <1>1, <1>3, <1>4, <1>5

LEMMA SameBalances ==
  ASSUME \A v \in Wallets : wallet'[v].balance = wallet[v].balance
  PROVE  TotalBalance' = TotalBalance
<1>1. [w \in Wallets |-> wallet'[w].balance] = [w \in Wallets |-> wallet[w].balance]
  OBVIOUS
<1> QED BY <1>1 DEF TotalBalance

\* Without the generic PATCH and transfers to oneself, no credit is made or lost
\* by a transfer, and mints and burns are accounted for to the last credit.
THEOREM Conservation ==
  ASSUME NoPatch, DistinctRoutes
  PROVE  Spec => []CreditsConserved
<1>0. SumFunction(Opening) \in Int
  <2>1. DOMAIN Opening = Wallets /\ \A w \in Wallets : Opening[w] \in Int
    BY CreditsAssumption
  <2> QED BY <2>1, SumType, CreditsAssumption DEF SumFunction
<1>1. Init => CreditsConserved
  <2> SUFFICES ASSUME Init PROVE CreditsConserved
    OBVIOUS
  <2>1. [w \in Wallets |-> wallet[w].balance] = Opening
    BY CreditsAssumption DEF Init, OpeningRow
  <2>2. TotalBalance = SumFunction(Opening)
    BY <2>1 DEF TotalBalance
  <2> QED BY <1>0, <2>2, CreditsAssumption DEF CreditsConserved, Init
<1>2. TypeOK /\ TypeOK' /\ LockInv /\ CreditsConserved /\ [Next]_vars => CreditsConserved'
  <2> SUFFICES ASSUME TypeOK, TypeOK', LockInv, CreditsConserved, [Next]_vars
               PROVE  CreditsConserved'
    OBVIOUS
  <2>0. issued \in Int /\ retired \in Int /\ OpeningMinted \in Int /\ TotalBalance \in Int
    BY TotalsOfStep, CreditsAssumption DEF TypeOK
  <2>1. ASSUME NEW c \in Calls, CommitMint(c) PROVE CreditsConserved'
    <3> DEFINE w == op[c].from
               a == op[c].amount
    <3>1. /\ w \in Wallets /\ a \in Int
          /\ wallet'[w].balance = wallet[w].balance + a
          /\ \A v \in Wallets : v # w => wallet'[v].balance = wallet[v].balance
      BY <2>1, MintStep DEF TypeOK
    <3>2. issued' = issued + a /\ retired' = retired
      BY <2>1 DEF CommitMint
    <3> HIDE DEF w, a
    <3>3. TotalBalance' = TotalBalance + a
      BY <3>1, OneBalance
    <3> QED BY <1>0, <2>0, <3>1, <3>2, <3>3 DEF CreditsConserved
  <2>2. ASSUME NEW c \in Calls, CommitBurn(c) PROVE CreditsConserved'
    <3> DEFINE w == op[c].from
               a == op[c].amount
    <3>1. /\ w \in Wallets /\ a \in Int
          /\ wallet'[w].balance = wallet[w].balance + (-a)
          /\ \A v \in Wallets : v # w => wallet'[v].balance = wallet[v].balance
      BY <2>2, BurnStep DEF TypeOK
    <3>2. issued' = issued /\ retired' = retired + a
      BY <2>2 DEF CommitBurn
    <3> HIDE DEF w, a
    <3>3. -a \in Int
      BY <3>1
    <3>4. TotalBalance' = TotalBalance + (-a)
      BY <3>1, <3>3, OneBalance
    <3> QED BY <1>0, <2>0, <3>1, <3>2, <3>4 DEF CreditsConserved
  <2>3. ASSUME NEW c \in Calls, CommitTransfer(c) PROVE CreditsConserved'
    <3> DEFINE f == op[c].from
               t == op[c].to
               a == op[c].amount
    <3>1. /\ f \in Wallets /\ t \in Wallets /\ f # t /\ a \in Int
          /\ wallet'[f].balance = wallet[f].balance + (-a)
          /\ wallet'[t].balance = wallet[t].balance + a
          /\ \A v \in Wallets \ {f, t} : wallet'[v].balance = wallet[v].balance
      BY <2>3, TransferStep DEF TypeOK
    <3>2. issued' = issued /\ retired' = retired
      BY <2>3 DEF CommitTransfer
    <3> HIDE DEF f, t, a
    <3>3. TotalBalance' = TotalBalance
      BY <3>1, TwoBalances
    <3> QED BY <3>2, <3>3 DEF CreditsConserved
  <2>4. ASSUME NEW c \in Calls, Step(c) \/ Crash(c), NotPosting(c)
        PROVE  CreditsConserved'
    <3>1. issued' = issued /\ retired' = retired
      BY <2>4 DEF NotPosting, Step, LockFirst, LockSecond, Reject, ReadReserve,
           SaveReserve, PassTransfer, SetFrozen, PatchRead, PatchWrite,
           DeadlockVictim, Crash, Rollback
    <3>2. \/ wallet' = wallet
          \/ \E w \in Wallets, b \in BOOLEAN :
               wallet' = [wallet EXCEPT ![w].frozen = b]
      BY <2>4, OtherStep
    <3>3. ASSUME NEW v \in Wallets PROVE wallet'[v].balance = wallet[v].balance
      <4>1. wallet[v] \in Row /\ (wallet' = wallet => wallet'[v] = wallet[v])
        BY DEF TypeOK
      <4>2. ASSUME NEW w \in Wallets, NEW b \in BOOLEAN,
                   wallet' = [wallet EXCEPT ![w].frozen = b]
            PROVE  wallet'[v] \in {wallet[v], [wallet[v] EXCEPT !.frozen = b]}
        BY <4>2 DEF TypeOK
      <4> QED BY <3>2, <4>1, <4>2 DEF Row
    <3>4. TotalBalance' = TotalBalance
      BY <3>3, SameBalances
    <3> QED BY <3>1, <3>4 DEF CreditsConserved
  <2>5. CASE UNCHANGED vars
    BY <2>5 DEF vars, CreditsConserved, TotalBalance
  <2> QED BY <2>1, <2>2, <2>3, <2>4, <2>5 DEF Next, AtRest, NotPosting
<1> QED BY <1>1, <1>2, Locking, PTL DEF Spec

-----------------------------------------------------------------------------
(* Every commit is one transaction of the book.                              *)

BookBalance == [w \in Wallets |-> wallet[w].balance]
BookFrozen == [w \in Wallets |-> wallet[w].frozen]

\* The entry a commit appends is the one the book computes.
LEMMA SameEntry ==
  ASSUME TypeOK, LedgerInv, NEW w \in Wallets, NEW type, NEW a \in Int, NEW row \in Row,
         row.balance = wallet[w].balance + a, row.nonce = wallet[w].nonce + 1
  PROVE  Entry(type, a, row) = Book!Entry(w, type, a)
<1>1. row.nonce = Len(ledger[w]) + 1
  BY DEF LedgerInv, WalletInv
<1>2. BookBalance[w] + a = row.balance
  BY DEF BookBalance
<1>3. QED
  BY <1>1, <1>2 DEF Entry, Book!Entry, BookBalance

LEMMA BookMint ==
  ASSUME TypeOK, LockInv, LedgerInv, NEW c \in Calls, CommitMint(c)
  PROVE  Book!Mint(op[c].from, op[c].amount)
<1> DEFINE w == op[c].from
           a == op[c].amount
           row == Post(wallet[w], a)
<1>1. /\ w \in Wallets /\ a \in Int /\ a <= Backing
      /\ row \in Row /\ row.balance = wallet[w].balance + a
      /\ row.nonce = wallet[w].nonce + 1 /\ row.frozen = wallet[w].frozen
      /\ wallet' = [wallet EXCEPT ![w] = row]
      /\ ledger' = [ledger EXCEPT ![w] = Append(@, Entry("mint", a, row))]
  BY MintStep
<1> HIDE DEF row, w, a
<1>2. BookBalance' = [BookBalance EXCEPT ![w] = @ + a]
  BY <1>1 DEF BookBalance, TypeOK
<1>3. BookFrozen' = BookFrozen
  BY <1>1 DEF BookFrozen, TypeOK
<1>4. ledger' = [ledger EXCEPT ![w] = Append(@, Book!Entry(w, "mint", a))]
  BY <1>1, SameEntry
<1>5. Book!Mint(w, a)
  BY <1>1, <1>2, <1>3, <1>4 DEF Book!Mint, BookBalance, BookFrozen
<1>6. QED
  BY <1>5 DEF w, a

LEMMA BookBurn ==
  ASSUME TypeOK, LockInv, LedgerInv, NEW c \in Calls, CommitBurn(c)
  PROVE  Book!Burn(op[c].from, op[c].amount)
<1> DEFINE w == op[c].from
           a == op[c].amount
           row == Post(wallet[w], -a)
<1>1. /\ w \in Wallets /\ a \in Int /\ a <= wallet[w].balance
      /\ row \in Row /\ row.balance = wallet[w].balance + (-a)
      /\ row.nonce = wallet[w].nonce + 1 /\ row.frozen = wallet[w].frozen
      /\ wallet' = [wallet EXCEPT ![w] = row]
      /\ ledger' = [ledger EXCEPT ![w] = Append(@, Entry("burn", -a, row))]
  BY BurnStep
<1> HIDE DEF row, w, a
<1>2. -a \in Int /\ wallet[w].balance \in Int /\ DOMAIN wallet = Wallets
  BY <1>1 DEF TypeOK, Row
<1>3. BookBalance' = [BookBalance EXCEPT ![w] = @ - a]
  <2>1. wallet[w].balance + (-a) = wallet[w].balance - a
    BY <1>1, <1>2
  <2>2. QED
    BY <1>1, <1>2, <2>1 DEF BookBalance
<1>4. BookFrozen' = BookFrozen
  BY <1>1 DEF BookFrozen, TypeOK
<1>5. Entry("burn", -a, row) = Book!Entry(w, "burn", -a)
  BY <1>1, <1>2, SameEntry
<1>6. ledger' = [ledger EXCEPT ![w] = Append(@, Book!Entry(w, "burn", -a))]
  BY <1>1, <1>5
<1>7. Book!Burn(w, a)
  BY <1>1, <1>3, <1>4, <1>6 DEF Book!Burn, BookBalance, BookFrozen
<1>8. QED
  BY <1>7 DEF w, a

LEMMA BookTransfer ==
  ASSUME TypeOK, LockInv, LedgerInv, DistinctRoutes, NEW c \in Calls, CommitTransfer(c)
  PROVE  Book!Transfer(op[c].from, op[c].to, op[c].amount)
<1> DEFINE f == op[c].from
           t == op[c].to
           a == op[c].amount
           debit == Post(wallet[f], -a)
           credit == Post(wallet[t], a)
<1>1. /\ f \in Wallets /\ t \in Wallets /\ f # t
      /\ a \in Int /\ a <= wallet[f].balance
      /\ debit \in Row /\ debit.balance = wallet[f].balance + (-a)
      /\ debit.nonce = wallet[f].nonce + 1 /\ debit.frozen = wallet[f].frozen
      /\ credit \in Row /\ credit.balance = wallet[t].balance + a
      /\ credit.nonce = wallet[t].nonce + 1 /\ credit.frozen = wallet[t].frozen
      /\ wallet' = [wallet EXCEPT ![f] = debit, ![t] = credit]
      /\ ledger'[f] = Append(ledger[f], Entry("transfer", -a, debit))
      /\ ledger'[t] = Append(ledger[t], Entry("transfer", a, credit))
      /\ \A w \in Wallets \ {f, t} : ledger'[w] = ledger[w]
  BY TransferStep
<1>2. ~wallet[f].frozen /\ ~wallet[t].frozen
  BY DEF CommitTransfer, LockInv, CallInv, Holding, HoldingBoth, Allowed, TransferAllowed
<1>3. ledger' = [w \in Wallets |-> ledger'[w]]
  BY DEF CommitTransfer, TypeOK
<1> HIDE DEF f, t, a, debit, credit
<1>4. /\ -a \in Int /\ DOMAIN wallet = Wallets /\ DOMAIN ledger = Wallets
      /\ wallet[f].balance \in Int /\ wallet[t].balance \in Int
  BY <1>1 DEF TypeOK, Row
<1>5. BookBalance' = [BookBalance EXCEPT ![f] = @ - a, ![t] = @ + a]
  <2>1. wallet[f].balance + (-a) = wallet[f].balance - a
    BY <1>1, <1>4
  <2>2. QED
    BY <1>1, <1>4, <2>1 DEF BookBalance
<1>6. BookFrozen' = BookFrozen
  BY <1>1, <1>4 DEF BookFrozen
<1>7. /\ Entry("transfer", -a, debit) = Book!Entry(f, "transfer", -a)
      /\ Entry("transfer", a, credit) = Book!Entry(t, "transfer", a)
  BY <1>1, <1>4, SameEntry
<1>8. ledger' = [ledger EXCEPT ![f] = Append(ledger[f], Book!Entry(f, "transfer", -a)),
                               ![t] = Append(ledger[t], Book!Entry(t, "transfer", a))]
  BY <1>1, <1>3, <1>4, <1>7
<1>9. Book!Transfer(f, t, a)
  BY <1>1, <1>2, <1>4, <1>5, <1>6, <1>8 DEF Book!Transfer, BookBalance, BookFrozen
<1>10. QED
  BY <1>9 DEF f, t, a

LEMMA BookOther ==
  ASSUME TypeOK, LockInv, NoPatch, NEW c \in Calls, Step(c) \/ Crash(c), NotPosting(c)
  PROVE  [Book!Next]_(Book!bookVars)
<1>1. /\ ledger' = ledger
      /\ \/ wallet' = wallet
         \/ \E w \in Wallets, b \in BOOLEAN : wallet' = [wallet EXCEPT ![w].frozen = b]
  BY OtherStep
<1>2. CASE wallet' = wallet
  BY <1>1, <1>2 DEF Book!bookVars
<1>3. ASSUME NEW w \in Wallets, NEW b \in BOOLEAN,
             wallet' = [wallet EXCEPT ![w].frozen = b]
      PROVE  Book!Next
  <2>1. DOMAIN wallet = Wallets /\ \A v \in Wallets : wallet[v] \in Row
    BY DEF TypeOK
  <2>2. /\ \A v \in Wallets : wallet'[v].balance = wallet[v].balance
        /\ \A v \in Wallets : wallet'[v].frozen = IF v = w THEN b ELSE wallet[v].frozen
    <3> SUFFICES ASSUME NEW v \in Wallets
                 PROVE  /\ wallet'[v].balance = wallet[v].balance
                        /\ wallet'[v].frozen = IF v = w THEN b ELSE wallet[v].frozen
      OBVIOUS
    <3>1. CASE v = w
      BY <1>3, <2>1, <3>1 DEF Row
    <3>2. CASE v # w
      BY <1>3, <2>1, <3>2
    <3>3. QED
      BY <3>1, <3>2
  <2>3. BookBalance' = BookBalance
    BY <2>2 DEF BookBalance
  <2>4. BookFrozen' = [BookFrozen EXCEPT ![w] = b]
    BY <2>2 DEF BookFrozen
  <2>5. Book!SetFrozen(w, b)
    BY <1>1, <2>3, <2>4 DEF Book!SetFrozen, BookBalance, BookFrozen
  <2>6. QED
    BY <2>5 DEF Book!Next
<1>4. QED
  BY <1>1, <1>2, <1>3

\* The row-lock design, with its interleavings, crashes and deadlock victims,
\* implements the book of indivisible transactions.
THEOREM RowLocksImplementBook ==
  ASSUME NoPatch, DistinctRoutes
  PROVE  Spec => ImplementsBook
<1>1. Init => Book!Init
  <2> SUFFICES ASSUME Init PROVE Book!Init
    OBVIOUS
  <2>1. Opening \in [Wallets -> Nat]
    BY CreditsAssumption
  <2>2. [w \in Wallets |-> wallet[w].balance] = Opening
    BY <2>1 DEF Init, OpeningRow
  <2>3. [w \in Wallets |-> wallet[w].frozen] = [w \in Wallets |-> FALSE]
    BY DEF Init, OpeningRow
  <2>4. QED
    BY <2>2, <2>3 DEF Init, Book!Init
<1>2. TypeOK /\ LockInv /\ LedgerInv /\ [Next]_vars => [Book!Next]_(Book!bookVars)
  <2> SUFFICES ASSUME TypeOK, LockInv, LedgerInv, [Next]_vars
               PROVE  [Book!Next]_(Book!bookVars)
    OBVIOUS
  <2>1. ASSUME NEW c \in Calls, CommitMint(c) PROVE Book!Next
    <3>1. op[c].from \in Wallets /\ op[c].amount \in Amounts
      BY <2>1, MintStep
    <3>2. Book!Mint(op[c].from, op[c].amount)
      BY <2>1, BookMint
    <3>3. QED
      BY <3>1, <3>2 DEF Book!Next, Book!Mint
  <2>2. ASSUME NEW c \in Calls, CommitBurn(c) PROVE Book!Next
    <3>1. op[c].from \in Wallets /\ op[c].amount \in Amounts
      BY <2>2, BurnStep
    <3>2. Book!Burn(op[c].from, op[c].amount)
      BY <2>2, BookBurn
    <3>3. QED
      BY <3>1, <3>2 DEF Book!Next, Book!Burn
  <2>3. ASSUME NEW c \in Calls, CommitTransfer(c) PROVE Book!Next
    <3>1. op[c].from \in Wallets /\ op[c].to \in Wallets /\ op[c].amount \in Amounts
      BY <2>3, TransferStep
    <3>2. Book!Transfer(op[c].from, op[c].to, op[c].amount)
      BY <2>3, BookTransfer
    <3>3. QED
      BY <3>1, <3>2 DEF Book!Next, Book!Transfer
  <2>4. ASSUME NEW c \in Calls, Step(c) \/ Crash(c), NotPosting(c)
        PROVE  [Book!Next]_(Book!bookVars)
    BY <2>4, BookOther
  <2>5. CASE UNCHANGED vars
    BY <2>5 DEF vars, Book!bookVars
  <2>6. QED
    BY <2>1, <2>2, <2>3, <2>4, <2>5 DEF Next, AtRest, NotPosting
<1>3. QED
  BY <1>1, <1>2, LedgerAlways, PTL DEF Spec, ImplementsBook, Book!Spec
=============================================================================

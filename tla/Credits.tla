------------------------------ MODULE Credits ------------------------------
(***************************************************************************)
(* CreditService and WalletService of way_finance at the level of the      *)
(* database: each call of mint_credits, burn_credits, transfer_credits,    *)
(* freeze_wallet, unfreeze_wallet or of the generic PATCH of a wallet is a *)
(* process, and a step is one statement that another call can observe or   *)
(* wait for.  The database is PostgreSQL at READ COMMITTED: FOR UPDATE and *)
(* UPDATE take the row lock, a plain SELECT does not, and the rows written *)
(* by an @transaction.atomic function become visible when it commits.      *)
(* Rows are published by the commit step, so between the lock and the      *)
(* commit only the call itself knows what it is going to write.            *)
(***************************************************************************)
EXTENDS Integers, Sequences, FiniteSets, Functions

CONSTANTS
  Wallets,        \* wallet ids
  Calls,          \* service calls in flight, each made once
  Ops,            \* the operations the calls may be
  Routes,         \* <<from, to>> pairs a transfer may name
  Amounts,        \* credit amounts a call may name
  Backing,        \* reserve.total_reserve * reserve.rate, in credits
  Opening,        \* balance of each wallet at the start
  OpeningMinted,  \* reserve.total_credits_minted at the start
  NoOne           \* no call holds the lock

ASSUME CreditsAssumption ==
  /\ IsFiniteSet(Wallets)
  /\ Ops \subseteq {"mint", "burn", "transfer", "freeze", "unfreeze", "patch"}
  /\ Routes \subseteq Wallets \X Wallets
  /\ Amounts \subseteq Int
  /\ Backing \in Int
  /\ Opening \in [Wallets -> Nat]
  /\ OpeningMinted \in Nat
  /\ NoOne \notin Calls

VARIABLES
  wallet,       \* committed Wallet rows
  reserve,      \* committed CreditReserve row (its two counters)
  ledger,       \* committed CreditLedger rows of each wallet, oldest first
  issued,       \* history: credits minted by committed calls
  retired,      \* history: credits burned by committed calls
  op,           \* what each call was asked to do (never changes)
  pc,           \* how far each call has got
  seen,         \* the rows each call has read into its Python objects
  rowLock,      \* holder of the row lock of each wallet
  reserveLock   \* holder of the row lock of the reserve

vars == <<wallet, reserve, ledger, issued, retired, op, pc, seen,
          rowLock, reserveLock>>

Row == [balance : Int, nonce : Nat, frozen : BOOLEAN]
ReserveRow == [minted : Int, burned : Int]
LedgerEntry ==
  [type : {"mint", "burn", "transfer"}, amount : Int,
   balance_after : Int, nonce : Nat]
Stages == {"start", "second", "held", "computed", "posted", "patching",
           "done", "failed"}

\* The calls: a transfer names a route, any other call one wallet.
Requests ==
  {q \in [kind : Ops, from : Wallets, to : Wallets, amount : Amounts \cup {0}] :
     /\ IF q.kind = "transfer" THEN <<q.from, q.to>> \in Routes
                               ELSE q.from = q.to
     /\ IF q.kind \in {"mint", "burn", "transfer"} THEN q.amount \in Amounts
                                                   ELSE q.amount = 0}

OpeningRow(w) == [balance |-> Opening[w], nonce |-> 0, frozen |-> FALSE]
OpeningReserve == [minted |-> OpeningMinted, burned |-> 0]

Init ==
  /\ wallet = [w \in Wallets |-> OpeningRow(w)]
  /\ reserve = OpeningReserve
  /\ ledger = [w \in Wallets |-> <<>>]
  /\ issued = OpeningMinted
  /\ retired = 0
  /\ op \in [Calls -> Requests]
  /\ pc = [c \in Calls |-> "start"]
  /\ seen = [c \in Calls |-> [from |-> OpeningRow(op[c].from),
                              to |-> OpeningRow(op[c].to),
                              reserve |-> OpeningReserve]]
  /\ rowLock = [w \in Wallets |-> NoOne]
  /\ reserveLock = NoOne

-----------------------------------------------------------------------------
(* Row locks and transactions                                              *)

\* Mutant: the rows are read without FOR UPDATE.
FreeAlways(w, c) == TRUE

\* select_for_update returns at once when the row is free or already ours.
Free(w, c) == rowLock[w] \in {NoOne, c}

Goto(c, stage) == pc' = [pc EXCEPT ![c] = stage]

\* The end of a transaction, either way, gives back every lock it took.
Release(c) ==
  /\ rowLock' = [w \in Wallets |-> IF rowLock[w] = c THEN NoOne ELSE rowLock[w]]
  /\ reserveLock' = IF reserveLock = c THEN NoOne ELSE reserveLock

Commit(c) == Goto(c, "done") /\ Release(c)

Rollback(c) ==
  /\ Goto(c, "failed")
  /\ Release(c)
  /\ UNCHANGED <<wallet, reserve, ledger, issued, retired, op, seen>>

-----------------------------------------------------------------------------
(* mint_credits, burn_credits, transfer_credits                            *)

\* Mutant: burn_credits locks the row of the reserve first, the wallet second.
LockFirstReserve(c) ==
  LET w == op[c].from
  IN /\ pc[c] = "start"
     /\ op[c].kind \in {"mint", "burn", "transfer"}
     /\ IF op[c].kind = "burn"
        THEN reserveLock = NoOne /\ reserveLock' = c /\ UNCHANGED rowLock
        ELSE Free(w, c) /\ rowLock' = [rowLock EXCEPT ![w] = c] /\ UNCHANGED reserveLock
     /\ seen' = [seen EXCEPT ![c].from = wallet[w]]
     /\ Goto(c, IF op[c].kind = "mint" THEN "held" ELSE "second")
     /\ UNCHANGED <<wallet, reserve, ledger, issued, retired, op>>

\* The first SELECT ... FOR UPDATE of the three functions.
LockFirst(c) ==
  LET w == op[c].from
  IN /\ pc[c] = "start"
     /\ op[c].kind \in {"mint", "burn", "transfer"}
     /\ Free(w, c)
     /\ rowLock' = [rowLock EXCEPT ![w] = c]
     /\ seen' = [seen EXCEPT ![c].from = wallet[w]]
     /\ Goto(c, IF op[c].kind = "transfer" THEN "second" ELSE "held")
     /\ UNCHANGED <<wallet, reserve, ledger, issued, retired, op, reserveLock>>

\* Mutant: the recipient object is the one fetched before the lock was granted.
LockSecondStale(c) ==
  LET w == op[c].to
  IN /\ pc[c] = "second"
     /\ Free(w, c)
     /\ rowLock' = [rowLock EXCEPT ![w] = c]
     /\ Goto(c, "held")
     /\ UNCHANGED <<wallet, reserve, ledger, issued, retired, op, seen,
                    reserveLock>>

\* transfer_credits locks the recipient next: argument order, not id order.
LockSecond(c) ==
  LET w == op[c].to
  IN /\ pc[c] = "second"
     /\ Free(w, c)
     /\ rowLock' = [rowLock EXCEPT ![w] = c]
     /\ seen' = [seen EXCEPT ![c].to = wallet[w]]
     /\ Goto(c, "held")
     /\ UNCHANGED <<wallet, reserve, ledger, issued, retired, op, reserveLock>>

\* Mutants: a dropped balance check, and checks of the sender alone.
BurnUnchecked(c) == op[c].kind = "burn"
TransferFrozenOnly(c) == ~seen[c].from.frozen /\ ~seen[c].to.frozen
TransferSenderOnly(c) ==
  ~seen[c].from.frozen /\ op[c].amount <= seen[c].from.balance

\* The checks the three functions make on what they have read; mint and burn
\* do not look at frozen, and mint compares one amount with the whole reserve.
MintAllowed(c) == op[c].amount <= Backing
BurnAllowed(c) == op[c].amount <= seen[c].from.balance
TransferAllowed(c) ==
  /\ ~seen[c].from.frozen /\ ~seen[c].to.frozen
  /\ op[c].amount <= seen[c].from.balance

Allowed(c) ==
  \/ op[c].kind = "mint" /\ MintAllowed(c)
  \/ op[c].kind = "burn" /\ BurnAllowed(c)
  \/ op[c].kind = "transfer" /\ TransferAllowed(c)

\* raise ValueError inside the atomic block.
Reject(c) ==
  /\ pc[c] = "held"
  /\ ~Allowed(c)
  /\ Rollback(c)

\* get_reserve is a plain SELECT: no lock, so the row may change afterwards.
ReadReserve(c) ==
  /\ pc[c] = "held"
  /\ op[c].kind \in {"mint", "burn"}
  /\ Allowed(c)
  /\ seen' = [seen EXCEPT ![c].reserve = reserve]
  /\ Goto(c, "computed")
  /\ UNCHANGED <<wallet, reserve, ledger, issued, retired, op, rowLock,
                 reserveLock>>

\* Mutant: mint and burn outside of a transaction, so that the save of the
\* reserve is visible before the wallet and the ledger are written.
SaveReserveAutocommit(c) ==
  LET a == op[c].amount
  IN /\ pc[c] = "computed"
     /\ reserveLock = NoOne
     /\ reserveLock' = c
     /\ reserve' = IF op[c].kind = "mint"
                   THEN [reserve EXCEPT !.minted = seen[c].reserve.minted + a]
                   ELSE [reserve EXCEPT !.burned = seen[c].reserve.burned + a]
     /\ Goto(c, "posted")
     /\ UNCHANGED <<wallet, ledger, issued, retired, op, seen, rowLock>>

\* reserve.save() is an UPDATE: it waits for the row, then writes the total
\* computed from the row read before, whatever is there by now.
SaveReserve(c) ==
  /\ pc[c] = "computed"
  /\ reserveLock = NoOne
  /\ reserveLock' = c
  /\ Goto(c, "posted")
  /\ UNCHANGED <<wallet, reserve, ledger, issued, retired, op, seen, rowLock>>

\* transfer_credits past its checks; the saves that follow touch locked rows.
PassTransfer(c) ==
  /\ pc[c] = "held"
  /\ op[c].kind = "transfer"
  /\ Allowed(c)
  /\ Goto(c, "posted")
  /\ UNCHANGED <<wallet, reserve, ledger, issued, retired, op, seen, rowLock,
                 reserveLock>>

\* Mutant: the nonce counts down.
PostDown(row, a) ==
  [balance |-> row.balance + a, nonce |-> row.nonce - 1, frozen |-> row.frozen]

\* A wallet object after "balance += a; nonce += 1".
Post(row, a) ==
  [balance |-> row.balance + a, nonce |-> row.nonce + 1, frozen |-> row.frozen]

\* save(update_fields=["balance", "nonce"]) leaves the other columns alone.
Saved(w, row) ==
  [wallet[w] EXCEPT !.balance = row.balance, !.nonce = row.nonce]

\* The ledger row for a change by a that left the wallet object at row.
Entry(type, a, row) ==
  [type |-> type, amount |-> a, balance_after |-> row.balance,
   nonce |-> row.nonce]

CommitMint(c) ==
  LET w == op[c].from
      a == op[c].amount
      row == Post(seen[c].from, a)
  IN /\ pc[c] = "posted"
     /\ op[c].kind = "mint"
     /\ wallet' = [wallet EXCEPT ![w] = Saved(w, row)]
     /\ reserve' = [reserve EXCEPT !.minted = seen[c].reserve.minted + a]
     /\ ledger' = [ledger EXCEPT ![w] = Append(@, Entry("mint", a, row))]
     /\ issued' = issued + a
     /\ Commit(c)
     /\ UNCHANGED <<retired, op, seen>>

CommitBurn(c) ==
  LET w == op[c].from
      a == op[c].amount
      row == Post(seen[c].from, -a)
  IN /\ pc[c] = "posted"
     /\ op[c].kind = "burn"
     /\ wallet' = [wallet EXCEPT ![w] = Saved(w, row)]
     /\ reserve' = [reserve EXCEPT !.burned = seen[c].reserve.burned + a]
     /\ ledger' = [ledger EXCEPT ![w] = Append(@, Entry("burn", -a, row))]
     /\ retired' = retired + a
     /\ Commit(c)
     /\ UNCHANGED <<issued, op, seen>>

\* Two wallet objects are saved one after the other.  When from and to are the
\* same wallet the second save, computed from its own copy, overwrites the first.
CommitTransfer(c) ==
  LET f == op[c].from
      t == op[c].to
      a == op[c].amount
      debit == Post(seen[c].from, -a)
      credit == Post(seen[c].to, a)
      debited == [ledger EXCEPT ![f] = Append(@, Entry("transfer", -a, debit))]
  IN /\ pc[c] = "posted"
     /\ op[c].kind = "transfer"
     /\ wallet' = [wallet EXCEPT ![f] = Saved(f, debit), ![t] = Saved(t, credit)]
     /\ ledger' = [debited EXCEPT ![t] = Append(@, Entry("transfer", a, credit))]
     /\ Commit(c)
     /\ UNCHANGED <<reserve, issued, retired, op, seen>>

-----------------------------------------------------------------------------
(* Wallet.freeze, Wallet.unfreeze and the generic update of the viewset    *)

\* One autocommit UPDATE of the frozen columns; it waits for the row lock.
SetFrozen(c) ==
  LET w == op[c].from
  IN /\ pc[c] = "start"
     /\ op[c].kind \in {"freeze", "unfreeze"}
     /\ rowLock[w] = NoOne
     /\ wallet' = [wallet EXCEPT ![w].frozen = (op[c].kind = "freeze")]
     /\ Goto(c, "done")
     /\ UNCHANGED <<reserve, ledger, issued, retired, op, seen, rowLock,
                    reserveLock>>

\* PATCH /wallets/{id}: get_object() reads the row without a lock ...
PatchRead(c) ==
  /\ pc[c] = "start"
  /\ op[c].kind = "patch"
  /\ seen' = [seen EXCEPT ![c].from = wallet[op[c].from]]
  /\ Goto(c, "patching")
  /\ UNCHANGED <<wallet, reserve, ledger, issued, retired, op, rowLock,
                 reserveLock>>

\* ... and serializer.save() writes every column of that object back, the
\* balance and the nonce included; frozen may come from the request.
PatchWrite(c) ==
  LET w == op[c].from
  IN /\ pc[c] = "patching"
     /\ rowLock[w] = NoOne
     /\ \E b \in BOOLEAN :
          wallet' = [wallet EXCEPT ![w] = [seen[c].from EXCEPT !.frozen = b]]
     /\ Goto(c, "done")
     /\ UNCHANGED <<reserve, ledger, issued, retired, op, seen, rowLock,
                    reserveLock>>

-----------------------------------------------------------------------------
(* Failures, and the specification                                         *)

\* The worker process dies in the middle of a call: its connection closes.
Crash(c) ==
  /\ pc[c] \in {"second", "held", "computed", "posted", "patching"}
  /\ Rollback(c)

\* The next statement of c waits for a row that d has locked.
WaitsFor(c, d) ==
  \/ pc[c] = "start" /\ op[c].kind # "patch" /\ rowLock[op[c].from] = d
  \/ pc[c] = "second" /\ rowLock[op[c].to] = d /\ d # c
  \/ pc[c] = "computed" /\ reserveLock = d
  \/ pc[c] = "patching" /\ rowLock[op[c].from] = d

OnCycle(c) ==
  \E S \in SUBSET Calls :
    /\ c \in S
    /\ \A d \in S : (\E e \in S : WaitsFor(d, e)) /\ (\E e \in S : WaitsFor(e, d))

\* Mutant: the transaction of the victim is tried again.
RetryVictim(c) ==
  /\ OnCycle(c)
  /\ Goto(c, "start")
  /\ Release(c)
  /\ UNCHANGED <<wallet, reserve, ledger, issued, retired, op, seen>>

\* PostgreSQL aborts one of the transactions on a cycle of waits.
DeadlockVictim(c) == OnCycle(c) /\ Rollback(c)

Finished(c) == pc[c] \in {"done", "failed"}

\* Every call has been answered: the system is at rest.
AtRest == (\A c \in Calls : Finished(c)) /\ UNCHANGED vars

Step(c) ==
  \/ LockFirst(c) \/ LockSecond(c) \/ Reject(c)
  \/ ReadReserve(c) \/ SaveReserve(c) \/ PassTransfer(c)
  \/ CommitMint(c) \/ CommitBurn(c) \/ CommitTransfer(c)
  \/ SetFrozen(c) \/ PatchRead(c) \/ PatchWrite(c)
  \/ DeadlockVictim(c)

Next ==
  \/ \E c \in Calls : Step(c)
  \/ \E c \in Calls : Crash(c)
  \/ AtRest

Spec == Init /\ [][Next]_vars

\* A worker thread keeps running its call, the database grants a free row lock
\* to a waiter and breaks a cycle of waits after deadlock_timeout.
FairSpec == Spec /\ \A c \in Calls : WF_vars(Step(c))
-----------------------------------------------------------------------------
(* Properties, and the conditions on the calls that some of them need      *)

NaturalAmounts == Amounts \subseteq Nat
DistinctRoutes == \A r \in Routes : r[1] # r[2]
NoPatch == "patch" \notin Ops

\* Every variable keeps its type (the database columns of models.py).
TypeOK ==
  /\ wallet \in [Wallets -> Row]
  /\ reserve \in ReserveRow
  /\ ledger \in [Wallets -> Seq(LedgerEntry)]
  /\ issued \in Int /\ retired \in Int
  /\ op \in [Calls -> Requests]
  /\ pc \in [Calls -> Stages]
  /\ seen \in [Calls -> [from : Row, to : Row, reserve : ReserveRow]]
  /\ rowLock \in [Wallets -> Calls \cup {NoOne}]
  /\ reserveLock \in Calls \cup {NoOne}

\* No interleaving of checks and saves overdraws a wallet: the balance a burn
\* or a transfer has checked is still there when it is written.
NonNegative == \A w \in Wallets : wallet[w].balance >= 0

\* The state the ledger of w records after its first i entries.
After(w, i) ==
  IF i = 0 THEN [balance |-> Opening[w], nonce |-> 0]
           ELSE [balance |-> ledger[w][i].balance_after,
                 nonce |-> ledger[w][i].nonce]

\* The ledger replays: each row starts from the balance the row before it left,
\* whichever calls raced, the nonces (replay protection) have no gap and no
\* repetition, and the wallet row is the one the last ledger row describes.
LedgerReplays ==
  \A w \in Wallets :
    /\ \A i \in 1..Len(ledger[w]) :
         /\ ledger[w][i].balance_after = After(w, i - 1).balance + ledger[w][i].amount
         /\ ledger[w][i].nonce = After(w, i - 1).nonce + 1
    /\ wallet[w].balance = After(w, Len(ledger[w])).balance
    /\ wallet[w].nonce = After(w, Len(ledger[w])).nonce

\* What the wallets hold together.
TotalBalance == SumFunction([w \in Wallets |-> wallet[w].balance])

\* Transfers move credits and never make or lose any: the wallets hold what they
\* opened with and what committed mints have added, less what burns have taken.
CreditsConserved ==
  TotalBalance = SumFunction(Opening) + (issued - OpeningMinted) - retired

\* The reserve may forget an update, but it never claims that more credits were
\* minted or burned than were, even when calls die half-way.
ReserveNeverOverstates == reserve.minted <= issued /\ reserve.burned <= retired

\* Freezing takes effect at once: from the moment a freeze has been answered no
\* transfer of the wallet commits, not even one that was already under way.
FrozenNeverTransfers ==
  [][\A w \in Wallets :
       /\ Len(ledger'[w]) > Len(ledger[w])
       /\ ledger'[w][Len(ledger'[w])].type = "transfer"
       => ~wallet[w].frozen]_vars

\* Calls none of which goes on before another one of them, or one that has ended
\* without giving back its locks.
Stuck(S) ==
  S # {} /\ \A c \in S : \E d \in Calls : WaitsFor(c, d) /\ (d \in S \/ Finished(d))

\* No lock outlives its call, whether it committed, failed or died, and calls that
\* wait for one another contain a cycle that the database sees and breaks; whom it
\* aborts is a transfer, never a mint, a burn, a freeze or a PATCH.
NobodyHangs ==
  /\ \A S \in SUBSET Calls : Stuck(S) => \E c \in S : OnCycle(c)
  /\ \A c \in Calls : OnCycle(c) => op[c].kind = "transfer"

\* Transfers that lock the same wallets in opposite orders cannot hang the
\* service: every call is answered.
EveryCallAnswered == \A c \in Calls : <>Finished(c)

\* The row-lock design implements the book of atomic transactions.
Book == INSTANCE CreditBook WITH
  balance <- [w \in Wallets |-> wallet[w].balance],
  frozen <- [w \in Wallets |-> wallet[w].frozen],
  entries <- ledger

ImplementsBook == Book!Spec
=============================================================================

----------------------------- MODULE CreditBook -----------------------------
(***************************************************************************)
(* What way_finance promises about credits, with every transaction taken   *)
(* as one indivisible step: a wallet has a balance, a frozen flag and an   *)
(* append-only ledger whose entries carry the balance they leave behind    *)
(* and a gapless nonce.  Module Credits is the row-lock level design that  *)
(* implements this book; module Payments is built on top of it.            *)
(***************************************************************************)
EXTENDS Integers, Sequences

CONSTANTS
  Wallets,   \* wallet ids
  Amounts,   \* credit amounts a call may name
  Backing,   \* reserve.total_reserve * reserve.rate, in credits
  Opening    \* balance of each wallet when the book is opened

VARIABLES
  balance,   \* Wallet.balance
  frozen,    \* Wallet.frozen
  entries    \* CreditLedger rows of each wallet, oldest first

bookVars == <<balance, frozen, entries>>

Init ==
  /\ balance = Opening
  /\ frozen = [w \in Wallets |-> FALSE]
  /\ entries = [w \in Wallets |-> <<>>]

\* The ledger row of a change by a to wallet w.
Entry(w, type, a) ==
  [type |-> type, amount |-> a, balance_after |-> balance[w] + a,
   nonce |-> Len(entries[w]) + 1]

Mint(w, a) ==
  /\ a <= Backing
  /\ balance' = [balance EXCEPT ![w] = @ + a]
  /\ entries' = [entries EXCEPT ![w] = Append(@, Entry(w, "mint", a))]
  /\ UNCHANGED frozen

Burn(w, a) ==
  /\ a <= balance[w]
  /\ balance' = [balance EXCEPT ![w] = @ - a]
  /\ entries' = [entries EXCEPT ![w] = Append(@, Entry(w, "burn", -a))]
  /\ UNCHANGED frozen

\* A transfer moves credits between two different wallets, neither frozen.
Transfer(f, t, a) ==
  /\ f # t
  /\ ~frozen[f] /\ ~frozen[t]
  /\ a <= balance[f]
  /\ balance' = [balance EXCEPT ![f] = @ - a, ![t] = @ + a]
  /\ entries' = [entries EXCEPT ![f] = Append(@, Entry(f, "transfer", -a)),
                                ![t] = Append(@, Entry(t, "transfer", a))]
  /\ UNCHANGED frozen

SetFrozen(w, b) ==
  /\ frozen' = [frozen EXCEPT ![w] = b]
  /\ UNCHANGED <<balance, entries>>

Next ==
  \/ \E w \in Wallets, a \in Amounts : Mint(w, a) \/ Burn(w, a)
  \/ \E f, t \in Wallets, a \in Amounts : Transfer(f, t, a)
  \/ \E w \in Wallets, b \in BOOLEAN : SetFrozen(w, b)

Spec == Init /\ [][Next]_bookVars
=============================================================================

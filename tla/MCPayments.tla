----------------------------- MODULE MCPayments -----------------------------
(***************************************************************************)
(* Small instances of Payments: the drafts and the requests of each run.   *)
(* TLC explores two kinds of initial states together.  In the first every  *)
(* request is about one payment: three deliveries of a deposit, or two and *)
(* an edit of a payment of any kind.  In the second each request is the    *)
(* only delivery of a payment of its own.                                  *)
(***************************************************************************)
EXTENDS Payments, TLC

CONSTANTS w1, p1, p2, p3, c1, c2, c3

Draft(direction, amount) ==
  [wallet |-> w1, direction |-> direction, amount |-> amount, provider |-> "stripe"]

OneDeposit == {Draft("deposit", 1)}
DraftsOfEachKind == {Draft("deposit", 1), Draft("deposit", 2), Draft("deposit", -1),
                     Draft("withdraw", 1), Draft("other", 1)}

Webhooks(success, geo) ==
  [kind : {"webhook"}, payment : Payments, success : success, geo : geo]
Patches(credits) == [kind : {"patch"}, payment : Payments, credits : credits]

Successes == Webhooks({TRUE}, {FALSE})
EveryRequest == Webhooks(BOOLEAN, BOOLEAN) \cup Patches({1})

OneCredit == [w \in Wallets |-> 1]

\* p1 gets as old as the code can tell, the others stay young.
Ages == [p \in Payments |-> IF p = p1 THEN 2 ELSE 0]
NoAges == [p \in Payments |-> 0]

AllAboutOne ==
  /\ \A c, d \in Calls : request[c].kind = "patch" /\ request[d].kind = "patch" => c = d
  /\ \A c \in Calls : About(c) = p1 /\ (request[c].kind = "webhook" => ~request[c].geo)
  /\ payment[p1].draft = Draft("deposit", 1) \/ \E c \in Calls : request[c].kind = "patch"
  /\ \A p \in Payments \ {p1} : payment[p].draft = Draft("deposit", 1)

EachAboutItsOwn ==
  /\ \A p \in Payments : payment[p].draft \in {Draft("deposit", 1), Draft("deposit", 2)}
  /\ \E p, q \in Payments : payment[p].draft # payment[q].draft
  /\ \A c \in Calls : request[c].kind = "webhook" /\ (request[c].geo => request[c].success)
  /\ \A c, d \in Calls :
       About(c) = About(d) \/ (request[c].geo /\ request[d].geo) => c = d

MCInit == Init /\ (AllAboutOne \/ EachAboutItsOwn)
MCSpec == MCInit /\ [][Next]_vars

Symmetry == Permutations(Calls) \cup Permutations({p2, p3})
=============================================================================

---------------------------- MODULE MCExecutions ----------------------------
(***************************************************************************)
(* Small instances of Executions.                                          *)
(***************************************************************************)
EXTENDS Executions

CONSTANTS e1, e2, e3, w1, w2, i1

TwoAndOne == [w \in Wallets |-> IF w = w1 THEN 2 ELSE 1]

\* Two of the executions share a wallet and the third has its own.
MCInit ==
  /\ Init
  /\ work[e1].wallet = w1 /\ work[e2].wallet = w1 /\ work[e3].wallet = w2
  /\ work[e1].allowed /\ work[e2].allowed

MCSpec ==
  MCInit /\ [][Next]_vars /\ \A e \in Executions : WF_vars(Step(e))
=============================================================================

----------------------------- MODULE MCCredits -----------------------------
(***************************************************************************)
(* Small instances of Credits.                                             *)
(***************************************************************************)
EXTENDS Credits, TLC

CONSTANTS w1, w2, w3, c1, c2, c3

OtherRoutes == {r \in Wallets \X Wallets : r[1] # r[2]}
AllRoutes == Wallets \X Wallets
OneEach == [w \in Wallets |-> 1]
TotalOpening == Cardinality(Wallets)

FullSymmetry == Permutations(Calls) \cup Permutations(Wallets)
=============================================================================

------------------------------ MODULE MCClient -----------------------------
(***************************************************************************)
(* Client for TLC: one write, which a repeated call can queue twice, and   *)
(* online events whose runs may overlap and use the same counter.          *)
(***************************************************************************)
EXTENDS Client, TLC

CONSTANTS m1, r1, r2

MCSenders == {m1, r1, r2}

\* The names of the runs do not matter: a run takes the first that is free.
FirstFree(r) == r = r1 \/ (r = r2 /\ Before(r1) # {})

MCNext == Next /\ \A r \in Runs : snapshot'[r] # snapshot[r] /\ Before(r) = {} => FirstFree(r)

MCSpec == Init /\ [][MCNext]_vars /\ Fairness
=============================================================================

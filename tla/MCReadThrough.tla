--------------------------- MODULE MCReadThrough ---------------------------
(***************************************************************************)
(* ReadThrough with views and writes of CachedViews.  A family is a set of *)
(* views that share a row; what different families do is independent, and  *)
(* a behaviour stays within one.  The rows that no write of the family     *)
(* touches are left out, and a tick is a minute, which times to live are   *)
(* rounded up to, and cut off where they exceed the run.                   *)
(***************************************************************************)
EXTENDS ReadThrough, CachedViews, TLC

CONSTANTS c1, c2, u1, u2, t1, LongTtl, LastWrite

Minutes(view) == (ViewOf(view).ttl + 59) \div 60
Ticks(view) == IF Minutes(view) > LongTtl THEN LongTtl ELSE Minutes(view)

MCDirect == [v \in Views |->
  ViewOf(v).rows \cap (IF ViewOf(v).inner = {} THEN Rows ELSE {"wallet"})]
MCInner == [v \in Views |-> ViewOf(v).inner \cap Views]
MCTtl == [v \in Views |-> Ticks(v)]
MCLag == [v \in Views |-> Ticks(v) + 1 + IF MCInner[v] = {} THEN 0 ELSE Ticks("balance") + 1]
MCBroken == Views \cap Raising

MCWrites == {MintCredits, SaveWallet, SetConfig, SaveConfig, Heartbeat, CleanupRegistry,
             Unregister, RegisterEntity, MarkAllRead, MarkRead}

\* Views over the same row, and how many of the writers of that row may die.
Group(row, views, crashes) == [row |-> row, views |-> views, crashes |-> crashes]
Families == {Group("wallet", {"balance", "user_dashboard"}, 0),
             Group("wallet", {"balance", "credits"}, 1),
             Group("config", {"config_value"}, 1),
             Group("registry", {"status"}, 1),
             Group("notification", {"unread"}, 1)}

\* The views of balances and configuration are guarded by every write of their rows.
ASSUME GuardedHere == GuardsAreKept

\* Only one family is in use, and it is written early: the later ticks let
\* entries grow old.
OneFamily ==
  \E f \in Families :
    /\ \A v \in Views : entry[v].stored => v \in f.views
    /\ \A p \in Procs : Computing(p) => asked[p] \in f.views
    /\ \A r \in Rows : Latest(r) > 0 => r = f.row
    /\ \A w \in Writers : Amid(w) => write[w].row = f.row /\ began[w] <= LastWrite
    /\ Cardinality({w \in Writers : stage[w] = "dead"}) <= f.crashes

MCNext == Next /\ OneFamily'
MCSpec == Init /\ [][MCNext]_vars

\* What is shown has no influence on what follows, and each answer is checked at
\* the step that shows it: two states that differ in it only are one.
AllButShown == <<clock, ended, entry, began, disturbed, reading, writing>>

Symmetry == Permutations(Calls) \cup Permutations(Writers)
=============================================================================

--------------------------- MODULE StaleRegister ---------------------------
(***************************************************************************)
(* What the caches of the backend promise.  Rows change at any time; a     *)
(* client that asks for a view is shown one version of each row in it, and *)
(* every version shown is the current one or was until at most Lag[view]   *)
(* ago.  Nothing is said about which of them it is.                        *)
(***************************************************************************)
EXTENDS Integers, Sequences

CONSTANTS
  Rows, Views,
  Lag   \* how old what a view shows may be

VARIABLES
  clock,
  ended,   \* when each version of each row was replaced by the next
  shown    \* what the last step answered: a view and the versions it shows, or <<>>

vars == <<clock, ended, shown>>

\* Version n of a row is the one that n commits have led to.
Latest(row) == Len(ended[row])
Versions == UNION {{row} \X (0..Latest(row)) : row \in Rows}

\* At time t or later each version shown was the current one.
Fresh(content, t) ==
  \A s \in content : s[2] < Latest(s[1]) => ended[s[1]][s[2] + 1] >= t

Init ==
  /\ clock = 0
  /\ ended = [row \in Rows |-> <<>>]
  /\ shown = <<>>

Commit(row) ==
  /\ ended' = [ended EXCEPT ![row] = Append(@, clock)]
  /\ shown' = <<>>
  /\ UNCHANGED clock

Tick == clock' = clock + 1 /\ shown' = <<>> /\ UNCHANGED ended

Reply(view) ==
  /\ \E content \in SUBSET Versions :
       /\ Fresh(content, clock - Lag[view])
       /\ shown' = <<view, content>>
  /\ UNCHANGED <<clock, ended>>

\* Something else happens.
Other == shown' = <<>> /\ UNCHANGED <<clock, ended>>

Next == Tick \/ Other \/ (\E row \in Rows : Commit(row)) \/ (\E view \in Views : Reply(view))

Spec == Init /\ [][Next]_vars
=============================================================================

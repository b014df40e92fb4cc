----------------------------- MODULE MCIdentity -----------------------------
(***************************************************************************)
(* A small instance of Identity.  The three parts of an account share      *)
(* nothing but its lock, so TLC explores initial states of three kinds:    *)
(* passwords only, devices and tokens, and grants.                         *)
(***************************************************************************)
EXTENDS Identity, TLC

CONSTANTS c1, c2, c3, c4, f1, f2, t1

Password == [kind : {"login"}, right : BOOLEAN, print : {NoDevice}]
Profile == [kind : {"profile"}]
OnDevice == [kind : {"login"}, right : {TRUE}, print : {f1}]
Token == [kind : {"wallet_login", "refresh", "logout"}]
AboutDevice == [kind : {"approve", "revoke", "patch", "delete"}]
AboutGrants == [kind : {"grant"}, target : {t1, Everything}, life : {1, Never}]
                 \cup [kind : {"withdraw"}, target : {t1, Everything}]
EveryRequest == Password \cup Profile \cup OnDevice \cup Token \cup AboutDevice \cup AboutGrants

OnceEach == \A c, e \in Calls : c # e /\ Kind(c) = Kind(e) => Kind(c) = "login"

\* The device is unknown, trusted, or one that was revoked long ago.
Trusted == [exists |-> TRUE, approved |-> TRUE, trusted |-> TRUE, idle |-> FALSE, print |-> f1]
Forgotten == [exists |-> TRUE, approved |-> FALSE, trusted |-> FALSE, idle |-> TRUE, print |-> f1]
Before(row) == device = [d \in Rows |-> IF d = Known THEN row ELSE NoRow]

Passwords == request \in [Calls -> Password \cup Profile] /\ Before(NoRow)
DevicesAndTokens ==
  /\ request \in [Calls -> OnDevice \cup Token \cup AboutDevice]
  /\ \E c \in Calls : request[c] \in OnDevice
  /\ \E c \in Calls : Kind(c) = "revoke"
  /\ OnceEach
  /\ Before(NoRow) \/ Before(Trusted) \/ Before(Forgotten)
Grants == request \in [Calls -> AboutGrants] /\ Before(NoRow)

MCInit == (Passwords \/ DevicesAndTokens \/ Grants) /\ Init
MCSpec == MCInit /\ [][Next]_vars

Symmetry == Permutations(Calls)
=============================================================================

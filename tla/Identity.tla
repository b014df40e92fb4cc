------------------------------ MODULE Identity ------------------------------
(***************************************************************************)
(* way_identity, seen from one account: passwords and the lock-out, the    *)
(* devices it trusts, refresh and access tokens, and the grants it has of  *)
(* one permission.  No handler here is a transaction: each reads rows into *)
(* Python objects and saves columns of them in later statements, which is  *)
(* a step each.  Requests are Calls; each is sent once and carries what    *)
(* Requests allows.  The unit of the clock is the lifetime of the shortest *)
(* thing modelled, and no request spans two of its ticks (RequestLimit).   *)
(***************************************************************************)
EXTENDS Integers, FiniteSets

CONSTANTS
  Calls,          \* HTTP requests
  Requests,       \* what they may ask
  Fingerprints,   \* of devices
  Known,          \* the row of a device that the account has from before
  NoDevice,       \* a login that names no device; device_id is null
  Targets,        \* target_id of a permission
  Everything,     \* target_id is null: the grant holds for all targets
  Never,          \* a time that is not set
  LockLimit,      \* wrong passwords that lock the account
  LockTime,       \* how long User.lock locks it
  AccessLife,     \* JWT_ACCESS_LIFETIME
  RefreshLife,    \* JWT_REFRESH_LIFETIME
  MaxClock,       \* bound: ticks of the clock
  MaxCrashes      \* bound: workers that die in a request

ASSUME IdentityAssumption ==
  /\ LockLimit \in Nat \ {0} /\ LockTime \in Nat \ {0}
  /\ AccessLife \in Nat \ {0} /\ RefreshLife \in Nat \ {0}
  /\ MaxClock \in Nat /\ MaxCrashes \in Nat
  /\ Known \notin Calls /\ NoDevice \notin Calls \cup {Known} \cup Fingerprints
  /\ Everything \notin Targets /\ Never \notin Nat
  /\ \A q \in Requests :
       \/ q.kind = "login" /\ q.right \in BOOLEAN /\ q.print \in Fingerprints \cup {NoDevice}
       \/ q.kind \in {"profile", "wallet_login", "refresh", "logout",
                      "approve", "revoke", "patch", "delete"}
       \/ q.kind = "grant" /\ q.target \in Targets \cup {Everything}
                           /\ q.life \in Nat \cup {Never}
       \/ q.kind = "withdraw" /\ q.target \in Targets \cup {Everything}

VARIABLES
  clock,
  attempts,     \* User.failed_login_attempts
  lockedUntil,  \* User.locked_until
  device,       \* Device rows, named by the login that inserted them
  token,        \* RefreshToken rows, named by the login that made them
  access,       \* access tokens in the hands of clients
  permission,   \* Permission rows of one scope and type, named by their grant
  request, pc, began, seen,  \* requests: what, how far, since when, what they hold
  crashes,
  wrong, streak, lastWrong, raced,  \* history of the passwords
  cut,          \* history: logins whose device was revoked, and when
  standing, doubled  \* history of the grants

users == <<attempts, lockedUntil, wrong, streak, lastWrong, raced>>
trust == <<device, token, access, cut>>
grants == <<permission, standing, doubled>>
vars == <<clock, users, trust, grants, request, pc, began, seen, crashes>>

\* Of the levels of trust, the code tells only "untrusted" apart.
Rows == Calls \cup {Known}
DeviceRow == [exists : BOOLEAN, approved : BOOLEAN, trusted : BOOLEAN, idle : BOOLEAN,
              print : Fingerprints \cup {NoDevice}]
NoRow == [exists |-> FALSE, approved |-> FALSE, trusted |-> FALSE, idle |-> FALSE,
          print |-> NoDevice]
TokenRow == [stored : BOOLEAN, device : Rows \cup {NoDevice}, expires : Nat, revoked : BOOLEAN]
AccessToken == [login : Calls, device : Rows \cup {NoDevice}, expires : Nat]
AllTargets == Targets \cup {Everything}
PermissionRow == [stored : BOOLEAN, target : AllTargets, expires : Nat \cup {Never},
                  revoked : BOOLEAN]
Seen == [attempts : Nat, locked : Nat \cup {Never}, device : Rows \cup {NoDevice},
         token : Calls \cup {Never}, live : SUBSET Calls]
Nothing == [attempts |-> 0, locked |-> Never, device |-> NoDevice, token |-> Never,
            live |-> {}]
Stages == {"sent", "read", "locking", "editing", "passed", "registered", "trusted",
           "refreshing", "distrusted", "patching", "granting", "done", "dead"}

\* A device may be known already, and unused for so long that it is stale.
Init ==
  /\ clock = 0
  /\ attempts = 0 /\ lockedUntil = Never
  /\ \E r \in DeviceRow : /\ r.exists \/ r = NoRow
                         /\ device = [d \in Rows |-> IF d = Known THEN r ELSE NoRow]
  /\ token = [c \in Calls |-> [stored |-> FALSE, device |-> NoDevice, expires |-> 0,
                               revoked |-> FALSE]]
  /\ access = {}
  /\ permission = [c \in Calls |-> [stored |-> FALSE, target |-> Everything,
                                    expires |-> Never, revoked |-> FALSE]]
  /\ request \in [Calls -> Requests]
  /\ pc = [c \in Calls |-> "sent"]
  /\ began = [c \in Calls |-> 0]
  /\ seen = [c \in Calls |-> Nothing]
  /\ crashes = 0
  /\ wrong = 0 /\ streak = 0 /\ lastWrong = Never /\ raced = FALSE
  /\ cut = {}
  /\ standing = [t \in AllTargets |-> <<>>]
  /\ doubled = FALSE

-----------------------------------------------------------------------------
(* The life of a request                                                   *)

Kind(c) == request[c].kind
UnderWay(c) == pc[c] \notin {"sent", "done", "dead"}
LoggingIn(c) == Kind(c) = "login" /\ pc[c] \in {"read", "locking"}
Editing(c) == pc[c] = "editing"

Goto(c, stage) ==
  /\ pc' = [pc EXCEPT ![c] = stage]
  /\ began' = [began EXCEPT ![c] = IF pc[c] = "sent" THEN clock ELSE @]
  /\ UNCHANGED <<clock, request, crashes>>

Answer(c) == Goto(c, "done") /\ seen' = [seen EXCEPT ![c] = Nothing]

\* RequestLimit: a request under way at a tick is answered before the next.
Tick ==
  /\ clock < MaxClock
  /\ \A c \in Calls : UnderWay(c) => began[c] = clock
  /\ clock' = clock + 1
  /\ UNCHANGED <<users, trust, grants, request, pc, began, seen, crashes>>

Crash(c) ==
  /\ UnderWay(c)
  /\ crashes < MaxCrashes
  /\ crashes' = crashes + 1
  /\ pc' = [pc EXCEPT ![c] = "dead"]
  /\ seen' = [seen EXCEPT ![c] = Nothing]
  /\ UNCHANGED <<clock, users, trust, grants, request, began>>

-----------------------------------------------------------------------------
(* AuthViewSet.login: the password                                         *)

Locked == lockedUntil # Never /\ lockedUntil > clock

RefuseLocked(c) ==
  /\ pc[c] = "sent" /\ Kind(c) = "login"
  /\ Locked
  /\ Answer(c)
  /\ UNCHANGED <<users, trust, grants>>

\* The user object, and the count in it, are read once.
ReadUser(c) ==
  /\ pc[c] = "sent" /\ Kind(c) = "login"
  /\ ~Locked
  /\ seen' = [seen EXCEPT ![c].attempts = attempts]
  /\ wrong' = IF request[c].right THEN wrong ELSE wrong + 1
  /\ raced' = (raced \/ \E d \in Calls : LoggingIn(d) \/ Editing(d))
  /\ Goto(c, "read")
  /\ UNCHANGED <<attempts, lockedUntil, streak, lastWrong, trust, grants>>

\* Mutant: the limit itself does not lock.
OneMore(c) == seen[c].attempts + 1 > LockLimit

Enough(c) == seen[c].attempts + 1 >= LockLimit

\* user.lock() saves locked_until, and only that.
Lock(c) ==
  /\ pc[c] = "read" /\ Kind(c) = "login" /\ ~request[c].right
  /\ Enough(c)
  /\ lockedUntil' = clock + LockTime
  /\ lastWrong' = clock
  /\ Goto(c, "locking")
  /\ UNCHANGED <<attempts, wrong, streak, raced, trust, grants, seen>>

\* The answer is "Invalid credentials", locked or not.
CountWrong(c) ==
  /\ \/ pc[c] = "read" /\ Kind(c) = "login" /\ ~request[c].right /\ ~Enough(c)
     \/ pc[c] = "locking"
  /\ attempts' = seen[c].attempts + 1
  /\ streak' = streak + 1
  /\ lastWrong' = IF pc[c] = "locking" THEN lastWrong ELSE clock
  /\ Answer(c)
  /\ UNCHANGED <<lockedUntil, wrong, raced, trust, grants>>

ResetAttempts(c) ==
  /\ pc[c] = "read" /\ Kind(c) = "login" /\ request[c].right
  /\ attempts' = 0
  /\ streak' = 0
  /\ Goto(c, "passed")
  /\ UNCHANGED <<lockedUntil, wrong, lastWrong, raced, trust, grants, seen>>

\* The signature decides alone: neither the lock nor the count is looked at.
WalletLogin(c) ==
  /\ pc[c] = "sent" /\ Kind(c) = "wallet_login"
  /\ Goto(c, "passed")
  /\ UNCHANGED <<users, trust, grants, seen>>

\* UserViewSet PATCH, by the user, whom the authentication has read, or by staff ...
ReadProfile(c) ==
  /\ pc[c] = "sent" /\ Kind(c) = "profile"
  /\ seen' = [seen EXCEPT ![c].attempts = attempts, ![c].locked = lockedUntil]
  /\ raced' = (raced \/ \E d \in Calls : LoggingIn(d))
  /\ Goto(c, "editing")
  /\ UNCHANGED <<attempts, lockedUntil, wrong, streak, lastWrong, trust, grants>>

\* ... saves every column of the user, the count and the lock as they were read.
SaveProfile(c) ==
  /\ pc[c] = "editing"
  /\ attempts' = seen[c].attempts
  /\ lockedUntil' = seen[c].locked
  /\ Answer(c)
  /\ UNCHANGED <<wrong, streak, lastWrong, raced, trust, grants>>

-----------------------------------------------------------------------------
(* The device of a login and its tokens                                    *)

NamesDevice(c) == Kind(c) = "login" /\ request[c].print # NoDevice
Bearing(print) == {d \in Rows : device[d].exists /\ device[d].print = print}

\* update_or_create is one transaction; a save of last_used comes with it.
RegisterDevice(c) ==
  /\ pc[c] = "passed" /\ NamesDevice(c)
  /\ LET same == Bearing(request[c].print) IN
     \E d \in IF same = {} THEN {c} ELSE same :
       /\ device' = [device EXCEPT ![d].exists = TRUE, ![d].idle = FALSE,
                                   ![d].print = request[c].print]
       /\ seen' = [seen EXCEPT ![c].device = d]
  /\ Goto(c, "registered")
  /\ UNCHANGED <<users, token, access, cut, grants>>

\* save(update_fields) of a row that is gone raises: the login ends with a 500.
SetTrust(c) ==
  /\ pc[c] = "registered"
  /\ LET d == seen[c].device IN
     IF device[d].exists
     THEN /\ device' = [device EXCEPT ![d].trusted = TRUE]
          /\ Goto(c, "trusted")
          /\ UNCHANGED seen
     ELSE Answer(c) /\ UNCHANGED device
  /\ UNCHANGED <<users, token, access, cut, grants>>

\* generate_tokens: the row and both tokens; the row needs its device to exist.
IssueTokens(c) ==
  /\ pc[c] = IF NamesDevice(c) THEN "trusted" ELSE "passed"
  /\ LET d == seen[c].device IN
     IF d # NoDevice /\ ~device[d].exists
     THEN UNCHANGED <<token, access>>
     ELSE /\ token' = [token EXCEPT ![c] =
                         [stored |-> TRUE, device |-> d,
                          expires |-> clock + RefreshLife, revoked |-> FALSE]]
          /\ access' = access \cup {[login |-> c, device |-> d,
                                     expires |-> clock + AccessLife]}
  /\ Answer(c)
  /\ UNCHANGED <<users, device, cut, grants>>

\* Mutant: the lookup forgets revoked=False.
Unexpired(t) == token[t].stored /\ token[t].expires >= clock

Refreshable(t) == token[t].stored /\ ~token[t].revoked /\ token[t].expires >= clock

ReadToken(c) ==
  /\ pc[c] = "sent" /\ Kind(c) = "refresh"
  /\ \E t \in {u \in Calls : Refreshable(u)} : seen' = [seen EXCEPT ![c].token = t]
  /\ Goto(c, "refreshing")
  /\ UNCHANGED <<users, trust, grants>>

\* The new access token names no device.
IssueAccess(c) ==
  /\ pc[c] = "refreshing"
  /\ access' = access \cup {[login |-> seen[c].token, device |-> NoDevice,
                             expires |-> clock + AccessLife]}
  /\ Answer(c)
  /\ UNCHANGED <<users, device, token, cut, grants>>

\* A logout revokes the token it is sent, and none if it is sent none.
Logout(c) ==
  /\ pc[c] = "sent" /\ Kind(c) = "logout"
  /\ \/ UNCHANGED token
     \/ \E t \in {u \in Calls : token[u].stored} :
          token' = [token EXCEPT ![t].revoked = TRUE]
  /\ Answer(c)
  /\ UNCHANGED <<users, device, access, cut, grants>>

Expired == {t \in Calls : token[t].stored /\ ~token[t].revoked /\ token[t].expires < clock}

CleanupSessions ==
  /\ Expired # {}
  /\ token' = [t \in Calls |-> IF t \in Expired THEN [token[t] EXCEPT !.revoked = TRUE]
                                                 ELSE token[t]]
  /\ UNCHANGED <<clock, users, device, access, cut, grants, request, pc, began, seen, crashes>>

\* What clients may send as a Bearer: authenticate_credentials looks at neither the
\* type of a token nor its row, so that a refresh token does, revoked or not.
Bearers ==
  access \cup {[login |-> t, device |-> NoDevice, expires |-> token[t].expires] :
                 t \in {u \in Calls : token[u].stored}}

\* JWTAuthentication.authenticate_credentials.
Accepts(a) ==
  /\ clock < a.expires
  /\ ~Locked
  /\ a.device # NoDevice => device[a.device].exists /\ device[a.device].approved

-----------------------------------------------------------------------------
(* DeviceViewSet, ProfileService.revoke_device, cleanup_inactive_devices   *)

\* get_object: 404.
NoSuchDevice(c) ==
  /\ pc[c] = "sent" /\ Kind(c) \in {"approve", "revoke", "patch", "delete"}
  /\ \E d \in Rows : ~device[d].exists
  /\ Answer(c)
  /\ UNCHANGED <<users, trust, grants>>

Finds(c, kind, d) == pc[c] = "sent" /\ Kind(c) = kind /\ device[d].exists

\* The request names the level.
ApproveDevice(c) ==
  /\ \E d \in Rows, level \in BOOLEAN :
       /\ Finds(c, "approve", d)
       /\ device' = [device EXCEPT ![d].approved = TRUE, ![d].trusted = level]
  /\ Answer(c)
  /\ UNCHANGED <<users, token, access, cut, grants>>

\* seen.live is history: the tokens of the device when the revocation began.
Distrust(c) ==
  /\ \E d \in Rows :
       /\ Finds(c, "revoke", d)
       /\ device' = [device EXCEPT ![d].approved = FALSE, ![d].trusted = FALSE]
       /\ seen' = [seen EXCEPT ![c].device = d, ![c].live =
                     {t \in Calls : token[t].stored /\ token[t].device = d}]
  /\ Goto(c, "distrusted")
  /\ UNCHANGED <<users, token, access, cut, grants>>

\* The UPDATE finds the tokens by their device column, as it is now; those that a
\* deletion of the device has orphaned meanwhile are out of its reach (and of cut).
RevokeTokens(c) ==
  /\ pc[c] = "distrusted"
  /\ LET reached == {t \in Calls : token[t].device = seen[c].device} IN
       /\ token' = [t \in Calls |-> IF t \in reached THEN [token[t] EXCEPT !.revoked = TRUE]
                                                     ELSE token[t]]
       /\ cut' = cut \cup {[login |-> t, at |-> clock] :
                             t \in {u \in seen[c].live : token[u].device # NoDevice}}
  /\ Answer(c)
  /\ UNCHANGED <<users, device, access, grants>>

PatchRead(c) ==
  /\ \E d \in Rows : Finds(c, "patch", d) /\ seen' = [seen EXCEPT ![c].device = d]
  /\ Goto(c, "patching")
  /\ UNCHANGED <<users, trust, grants>>

\* The generic PATCH writes the approval, the level and the fingerprint it is sent or
\* those it has read, in a new row if that one has been deleted; two rows of one
\* fingerprint are an IntegrityError.
PatchWrite(c) ==
  /\ pc[c] = "patching"
  /\ \E approved \in BOOLEAN, level \in BOOLEAN, print \in Fingerprints :
       IF Bearing(print) \subseteq {seen[c].device}
       THEN device' = [device EXCEPT ![seen[c].device] =
                         [exists |-> TRUE, approved |-> approved, trusted |-> level,
                          idle |-> FALSE, print |-> print]]
       ELSE UNCHANGED device
  /\ Answer(c)
  /\ UNCHANGED <<users, token, access, cut, grants>>

\* on_delete=SET_NULL: the tokens of a deleted device stay, without a device.
Delete(gone) ==
  /\ device' = [d \in Rows |-> IF d \in gone THEN NoRow ELSE device[d]]
  /\ token' = [t \in Calls |-> IF token[t].device \in gone
                               THEN [token[t] EXCEPT !.device = NoDevice] ELSE token[t]]

DeleteDevice(c) ==
  /\ \E d \in Rows : Finds(c, "delete", d) /\ Delete({d})
  /\ Answer(c)
  /\ UNCHANGED <<users, access, cut, grants>>

Stale == {d \in Rows : device[d].exists /\ device[d].idle /\ ~device[d].trusted}

CleanupInactiveDevices ==
  /\ Stale # {}
  /\ Delete(Stale)
  /\ UNCHANGED <<clock, users, access, cut, grants, request, pc, began, seen, crashes>>

-----------------------------------------------------------------------------
(* PermissionService                                                       *)

RowsOf(target) == {p \in Calls : permission[p].stored /\ permission[p].target = target}
Expiry(c) == IF request[c].life = Never THEN Never ELSE clock + request[c].life

\* Mutant: the defaults of update_or_create leave revoked out.
GrantKeepsRevoked(c, rows) ==
  /\ permission' = [p \in Calls |->
       IF p \in rows THEN [stored |-> TRUE, target |-> request[c].target,
                           expires |-> Expiry(c), revoked |-> permission[p].revoked]
                     ELSE permission[p]]
  /\ standing' = [standing EXCEPT ![request[c].target] = <<Expiry(c)>>]

Grant(c, rows) ==
  /\ permission' = [p \in Calls |->
       IF p \in rows THEN [stored |-> TRUE, target |-> request[c].target,
                           expires |-> Expiry(c), revoked |-> FALSE]
                     ELSE permission[p]]
  /\ standing' = [standing EXCEPT ![request[c].target] = <<Expiry(c)>>]

\* update_or_create finds one row, which it updates under its lock, or two,
\* for which it raises MultipleObjectsReturned.
Regrant(c) ==
  /\ pc[c] = "sent" /\ Kind(c) = "grant"
  /\ LET rows == RowsOf(request[c].target) IN
       /\ rows # {}
       /\ IF Cardinality(rows) = 1 THEN Grant(c, rows) ELSE UNCHANGED <<permission, standing>>
  /\ Answer(c)
  /\ UNCHANGED <<users, trust, doubled>>

FindNoGrant(c) ==
  /\ pc[c] = "sent" /\ Kind(c) = "grant"
  /\ RowsOf(request[c].target) = {}
  /\ Goto(c, "granting")
  /\ UNCHANGED <<users, trust, grants, seen>>

\* The unique constraint makes the second of two inserts an update, except that
\* it does not see rows whose target is null as equal.
InsertGrant(c) ==
  /\ pc[c] = "granting"
  /\ LET rows == RowsOf(request[c].target) IN
       /\ Grant(c, IF rows = {} \/ request[c].target = Everything THEN {c} ELSE rows)
       /\ doubled' = (doubled \/ (rows # {} /\ request[c].target = Everything))
  /\ Answer(c)
  /\ UNCHANGED <<users, trust>>

\* Without a target the filter is on scope and type alone.
Revoke(c) ==
  /\ pc[c] = "sent" /\ Kind(c) = "withdraw"
  /\ LET hit == IF request[c].target = Everything THEN AllTargets ELSE {request[c].target} IN
       /\ permission' = [p \in Calls |-> IF permission[p].stored /\ permission[p].target \in hit
                                         THEN [permission[p] EXCEPT !.revoked = TRUE]
                                         ELSE permission[p]]
       /\ standing' = [t \in AllTargets |-> IF t \in hit THEN <<>> ELSE standing[t]]
  /\ Answer(c)
  /\ UNCHANGED <<users, trust, doubled>>

IsValid(p) == ~permission[p].revoked /\ (permission[p].expires = Never
                                         \/ permission[p].expires >= clock)

\* check_permission for somebody who is not a superuser.
CheckPermission(target) ==
  \E p \in Calls : /\ permission[p].stored
                   /\ permission[p].target \in {target, Everything}
                   /\ IsValid(p)

-----------------------------------------------------------------------------
Login(c) ==
  \/ RefuseLocked(c) \/ ReadUser(c) \/ Lock(c) \/ CountWrong(c) \/ ResetAttempts(c)
  \/ ReadProfile(c) \/ SaveProfile(c)
  \/ WalletLogin(c) \/ RegisterDevice(c) \/ SetTrust(c) \/ IssueTokens(c)

Tokens(c) == ReadToken(c) \/ IssueAccess(c) \/ Logout(c)

Trusting(c) ==
  \/ NoSuchDevice(c) \/ ApproveDevice(c) \/ Distrust(c) \/ RevokeTokens(c)
  \/ PatchRead(c) \/ PatchWrite(c) \/ DeleteDevice(c)

Granting(c) == Regrant(c) \/ FindNoGrant(c) \/ InsertGrant(c) \/ Revoke(c)

Next ==
  \/ \E c \in Calls : Login(c) \/ Tokens(c) \/ Trusting(c) \/ Granting(c) \/ Crash(c)
  \/ CleanupSessions \/ CleanupInactiveDevices \/ Tick

Spec == Init /\ [][Next]_vars

-----------------------------------------------------------------------------
(* Properties                                                              *)

\* Rows and locals keep their types.
TypeOK ==
  /\ clock \in Nat /\ attempts \in Nat /\ lockedUntil \in Nat \cup {Never}
  /\ device \in [Rows -> DeviceRow]
  /\ token \in [Calls -> TokenRow]
  /\ access \subseteq AccessToken
  /\ permission \in [Calls -> PermissionRow]
  /\ request \in [Calls -> Requests]
  /\ pc \in [Calls -> Stages]
  /\ began \in [Calls -> Nat]
  /\ seen \in [Calls -> Seen]
  /\ crashes \in Nat
  /\ wrong \in Nat /\ streak \in Nat /\ lastWrong \in Nat \cup {Never} /\ raced \in BOOLEAN
  /\ cut \subseteq [login : Calls, at : Nat]
  /\ doubled \in BOOLEAN

\* The lock-out counts what happened.  However logins overlap or die, the count
\* and a lock are backed by as many wrong passwords; and if no login overlapped
\* another or a PATCH of the user, which write back what they have read, a
\* LockLimit-th wrong answer in a row has locked the account for LockTime.
LockoutCounts ==
  /\ attempts <= wrong
  /\ lockedUntil # Never => wrong >= LockLimit
  /\ ~raced /\ streak >= LockLimit =>
       lockedUntil # Never /\ lockedUntil >= lastWrong + LockTime

\* DeviceViewSet.revoke "Revoke all tokens for this device": one access lifetime and
\* one request later no access token that descends from an earlier login on the
\* device is let in, whatever logins, refreshes, approvals and PATCHes overlap.  The
\* refresh token itself is let in, as a Bearer, until its own lifetime ends.
RevokedDeviceFadesOut ==
  \A x \in cut :
    /\ token[x.login].revoked
    /\ \A b \in Bearers : b.login = x.login /\ Accepts(b) =>
         \/ b \in access /\ clock <= x.at + AccessLife
         \/ b \notin access /\ clock < x.at + RefreshLife

\* check_permission agrees with the grants and revocations as they were
\* committed: a revoked one is refused, in however many rows it was stored,
\* and one that stands is found, unless two first grants for everything
\* overlapped and left two rows.
PermissionsAsGranted ==
  LET Stands(t) == standing[t] # <<>> /\ (standing[t][1] = Never \/ standing[t][1] >= clock)
  IN \A t \in AllTargets :
       /\ standing[t] = <<>> /\ standing[Everything] = <<>> => ~CheckPermission(t)
       /\ ~doubled => (CheckPermission(t) <=> Stands(t) \/ Stands(Everything))
=============================================================================

--------------------------- MODULE IdentityProofs ---------------------------
(***************************************************************************)
(* The properties of Identity, for any requests, devices, targets, limits  *)
(* and lifetimes, and every overlap of handlers.  Passwords, devices and   *)
(* grants have an invariant each; the three share the life of a request.   *)
(***************************************************************************)
EXTENDS Identity, TLAPS

-----------------------------------------------------------------------------
(* The life of a request                                                   *)

\* Requests and what they hold are well typed; one under way began in this tick
\* or in the one before.
Requesting ==
  /\ clock \in Nat /\ crashes \in Nat
  /\ attempts \in Nat /\ lockedUntil \in Nat \cup {Never}
  /\ device \in [Rows -> DeviceRow]
  /\ request \in [Calls -> Requests]
  /\ pc \in [Calls -> Stages]
  /\ began \in [Calls -> Nat]
  /\ seen \in [Calls -> Seen]
  /\ \A c \in Calls : UnderWay(c) => began[c] <= clock /\ clock <= began[c] + 1

LEMMA Asked ==
  ASSUME NEW q \in Requests
  PROVE  /\ q.kind = "login" => q.print \in Fingerprints \cup {NoDevice} /\ q.right \in BOOLEAN
         /\ q.kind \in {"grant", "withdraw"} => q.target \in AllTargets
         /\ q.kind = "grant" => q.life \in Nat \cup {Never}
  BY IdentityAssumption DEF AllTargets

LEMMA Limits ==
  /\ LockLimit \in Nat /\ LockLimit > 0 /\ LockTime \in Nat
  /\ AccessLife \in Nat /\ RefreshLife \in Nat /\ Never \notin Nat
  BY IdentityAssumption

LEMMA Held ==
  ASSUME NEW s \in Seen
  PROVE  /\ s.attempts \in Nat /\ s.locked \in Nat \cup {Never}
         /\ s.device \in Rows \cup {NoDevice}
         /\ \A n \in Nat : [s EXCEPT !.attempts = n] \in Seen
         /\ \A n \in Nat, m \in Nat \cup {Never} :
              [s EXCEPT !.attempts = n, !.locked = m] \in Seen
         /\ \A d \in Rows : [s EXCEPT !.device = d] \in Seen
         /\ \A t \in Calls \cup {Never} : [s EXCEPT !.token = t] \in Seen
         /\ \A d \in Rows, l \in SUBSET Calls :
              [s EXCEPT !.device = d, !.live = l] \in Seen
  BY DEF Seen

LEMMA RowHeld ==
  ASSUME NEW r \in DeviceRow
  PROVE  /\ \A f \in Fingerprints \cup {NoDevice} :
              [r EXCEPT !.exists = TRUE, !.idle = FALSE, !.print = f] \in DeviceRow
         /\ \A l \in BOOLEAN : [r EXCEPT !.trusted = l] \in DeviceRow
         /\ \A l \in BOOLEAN, b \in BOOLEAN :
              [r EXCEPT !.approved = b, !.trusted = l] \in DeviceRow
  BY DEF DeviceRow

LEMMA NothingHeld == Nothing \in Seen /\ NoRow \in DeviceRow
  BY DEF Nothing, Seen, NoRow, DeviceRow

\* A step of a request moves it to a stage, and no other request with it.
Moves(c, stage) ==
  /\ pc[c] \notin {"done", "dead"}
  /\ pc' = [pc EXCEPT ![c] = stage]
  /\ seen' \in [Calls -> Seen]
  /\ \A d \in Calls : d # c => seen'[d] = seen[d] /\ began'[d] = began[d]
  /\ began' \in [Calls -> Nat]
  /\ began'[c] = IF pc[c] = "sent" THEN clock ELSE began[c]
  /\ UNCHANGED <<clock, request>>

LEMMA GotoMoves ==
  ASSUME Requesting, NEW c \in Calls, NEW stage, Goto(c, stage),
         pc[c] \notin {"done", "dead"},
         \/ UNCHANGED seen
         \/ \E s \in Seen : seen' = [seen EXCEPT ![c] = s]
  PROVE  Moves(c, stage)
  BY DEF Moves, Goto, Requesting

LEMMA AnswerMoves ==
  ASSUME Requesting, NEW c \in Calls, Answer(c), pc[c] \notin {"done", "dead"}
  PROVE  Moves(c, "done")
<1>1. Goto(c, "done") /\ seen' = [seen EXCEPT ![c] = Nothing]
  BY DEF Answer
<1>2. QED
  BY <1>1, NothingHeld, GotoMoves

LEMMA CrashMoves ==
  ASSUME Requesting, NEW c \in Calls, Crash(c)
  PROVE  Moves(c, "dead") /\ UNCHANGED <<users, trust, grants>>
  BY NothingHeld DEF Crash, Moves, Requesting, UnderWay

-----------------------------------------------------------------------------
(* What the steps of a request do, by what they are about                  *)

AboutPassword(c) ==
  \/ RefuseLocked(c) \/ ReadUser(c) \/ Lock(c) \/ CountWrong(c) \/ ResetAttempts(c)
  \/ ReadProfile(c) \/ SaveProfile(c)

AboutTrust(c) ==
  WalletLogin(c) \/ RegisterDevice(c) \/ SetTrust(c) \/ IssueTokens(c) \/ Tokens(c) \/ Trusting(c)

PasswordStages == {"done", "read", "locking", "passed", "editing"}
TrustStages == {"done", "passed", "registered", "trusted", "refreshing", "distrusted", "patching"}

LEMMA PasswordMoves ==
  ASSUME Requesting, NEW c \in Calls, AboutPassword(c)
  PROVE  /\ \E stage \in PasswordStages : Moves(c, stage)
         /\ UNCHANGED <<trust, grants, crashes>>
         /\ attempts' \in Nat /\ lockedUntil' \in Nat \cup {Never}
<1> USE DEF PasswordStages
<1>1. CASE RefuseLocked(c)
  BY <1>1, AnswerMoves DEF RefuseLocked, Answer, Goto, users, Requesting
<1>2. CASE ReadUser(c)
  <2>1. /\ Goto(c, "read") /\ pc[c] = "sent" /\ UNCHANGED <<trust, grants, attempts, lockedUntil>>
        /\ seen' = [seen EXCEPT ![c] = [seen[c] EXCEPT !.attempts = attempts]]
    BY <1>2 DEF ReadUser, Requesting
  <2>2. [seen[c] EXCEPT !.attempts = attempts] \in Seen
    BY Held DEF Requesting
  <2>3. QED
    BY <2>1, <2>2, GotoMoves DEF Requesting, Goto
<1>3. CASE Lock(c)
  <2>1. /\ Goto(c, "locking") /\ pc[c] = "read" /\ UNCHANGED <<trust, grants, attempts, seen>>
        /\ lockedUntil' = clock + LockTime
    BY <1>3 DEF Lock
  <2>2. clock + LockTime \in Nat
    BY Limits DEF Requesting
  <2>3. QED
    BY <2>1, <2>2, GotoMoves DEF Requesting, Goto
<1>4. CASE CountWrong(c)
  <2>1. seen[c].attempts \in Nat
    BY Held DEF Requesting
  <2>2. /\ Answer(c) /\ pc[c] \in {"read", "locking"} /\ UNCHANGED <<trust, grants, lockedUntil>>
        /\ attempts' = seen[c].attempts + 1
    BY <1>4 DEF CountWrong
  <2>3. Moves(c, "done")
    BY <2>2, AnswerMoves
  <2>4. UNCHANGED crashes /\ lockedUntil \in Nat \cup {Never}
    BY <2>2 DEF Answer, Goto, Requesting
  <2>5. QED
    BY <2>1, <2>2, <2>3, <2>4
<1>5. CASE ResetAttempts(c)
  BY <1>5, GotoMoves DEF ResetAttempts, Goto, Requesting
<1>6. CASE ReadProfile(c)
  <2>1. /\ Goto(c, "editing") /\ pc[c] = "sent" /\ UNCHANGED <<trust, grants, attempts, lockedUntil>>
        /\ seen' = [seen EXCEPT ![c] = [seen[c] EXCEPT !.attempts = attempts,
                                                       !.locked = lockedUntil]]
    BY <1>6 DEF ReadProfile, Requesting
  <2>2. [seen[c] EXCEPT !.attempts = attempts, !.locked = lockedUntil] \in Seen
    BY Held DEF Requesting
  <2>3. QED
    BY <2>1, <2>2, GotoMoves DEF Requesting, Goto
<1>7. CASE SaveProfile(c)
  <2>1. seen[c].attempts \in Nat /\ seen[c].locked \in Nat \cup {Never}
    BY Held DEF Requesting
  <2>2. QED
    BY <1>7, <2>1, AnswerMoves DEF SaveProfile, Answer, Goto
<1>8. QED
  BY <1>1, <1>2, <1>3, <1>4, <1>5, <1>6, <1>7 DEF AboutPassword

LEMMA GrantMoves ==
  ASSUME Requesting, NEW c \in Calls, Granting(c)
  PROVE  /\ \E stage \in {"done", "granting"} : Moves(c, stage)
         /\ UNCHANGED <<users, trust, crashes>>
<1>1. CASE FindNoGrant(c)
  BY <1>1, GotoMoves DEF FindNoGrant, Goto
<1>2. CASE Regrant(c) \/ InsertGrant(c) \/ Revoke(c)
  <2>1. Answer(c) /\ pc[c] \in {"sent", "granting"} /\ UNCHANGED <<users, trust>>
    BY <1>2 DEF Regrant, InsertGrant, Revoke
  <2>2. QED
    BY <2>1, AnswerMoves DEF Answer, Goto
<1>3. QED
  BY <1>1, <1>2 DEF Granting

\* The steps that change what the request has seen, but for the tokens of a device.
LEMMA TrustMoves ==
  ASSUME Requesting, NEW c \in Calls, AboutTrust(c)
  PROVE  /\ \E stage \in TrustStages : Moves(c, stage)
         /\ UNCHANGED <<users, grants, crashes>>
<1> USE DEF TrustStages
<1>1. UNCHANGED <<users, grants, crashes>>
  BY DEF AboutTrust, Tokens, Trusting, WalletLogin, RegisterDevice, SetTrust, IssueTokens, ReadToken,
         IssueAccess, Logout, NoSuchDevice, ApproveDevice, Distrust, RevokeTokens, PatchRead,
         PatchWrite, DeleteDevice, Answer, Goto
<1>2. CASE WalletLogin(c)
  BY <1>1, <1>2, GotoMoves DEF WalletLogin
<1>3. CASE RegisterDevice(c)
  <2>1. \E d \in Rows : seen' = [seen EXCEPT ![c] = [seen[c] EXCEPT !.device = d]]
    BY <1>3 DEF RegisterDevice, Bearing, Rows, Requesting
  <2>2. \E s \in Seen : seen' = [seen EXCEPT ![c] = s]
    BY <2>1, Held DEF Requesting
  <2>3. QED
    BY <1>1, <1>3, <2>2, GotoMoves DEF RegisterDevice
<1>4. CASE SetTrust(c)
  <2>1. (Goto(c, "trusted") /\ UNCHANGED seen) \/ Answer(c)
    BY <1>4 DEF SetTrust
  <2>2. pc[c] = "registered"
    BY <1>4 DEF SetTrust
  <2>3. QED
    BY <1>1, <2>1, <2>2, GotoMoves, AnswerMoves
<1>5. CASE IssueTokens(c) \/ IssueAccess(c) \/ Logout(c) \/ NoSuchDevice(c) \/ ApproveDevice(c)
             \/ RevokeTokens(c) \/ PatchWrite(c) \/ DeleteDevice(c)
  <2>1. Answer(c) /\ pc[c] \notin {"done", "dead"}
    BY <1>5 DEF IssueTokens, IssueAccess, Logout, NoSuchDevice, ApproveDevice, RevokeTokens,
                PatchWrite, DeleteDevice, Finds
  <2>2. QED
    BY <1>1, <2>1, AnswerMoves
<1>6. CASE ReadToken(c)
  <2>1. \E t \in Calls : seen' = [seen EXCEPT ![c] = [seen[c] EXCEPT !.token = t]]
    BY <1>6 DEF ReadToken, Requesting
  <2>2. \E s \in Seen : seen' = [seen EXCEPT ![c] = s]
    BY <2>1, Held DEF Requesting
  <2>3. QED
    BY <1>1, <1>6, <2>2, GotoMoves DEF ReadToken
<1>7. CASE Distrust(c)
  <2>1. PICK d \in Rows, l \in SUBSET Calls :
          seen' = [seen EXCEPT ![c].device = d, ![c].live = l]
    <3>1. PICK d \in Rows :
            seen' = [seen EXCEPT ![c].device = d, ![c].live =
                       {t \in Calls : token[t].stored /\ token[t].device = d}]
      BY <1>7 DEF Distrust
    <3>2. {t \in Calls : token[t].stored /\ token[t].device = d} \in SUBSET Calls
      OBVIOUS
    <3>3. QED
      BY <3>1, <3>2
  <2>2. \E s \in Seen : seen' = [seen EXCEPT ![c] = s]
    <3>1. [seen[c] EXCEPT !.device = d, !.live = l] \in Seen
      BY <2>1, Held DEF Requesting
    <3>2. seen' = [seen EXCEPT ![c] = [seen[c] EXCEPT !.device = d, !.live = l]]
      BY <2>1 DEF Requesting
    <3>3. QED
      BY <3>1, <3>2
  <2>3. QED
    BY <1>1, <1>7, <2>2, GotoMoves DEF Distrust, Finds
<1>8. CASE PatchRead(c)
  <2>1. pc[c] = "sent" /\ Goto(c, "patching")
    BY <1>8 DEF PatchRead, Finds
  <2>2. \E d \in Rows : seen' = [seen EXCEPT ![c] = [seen[c] EXCEPT !.device = d]]
    BY <1>8 DEF PatchRead, Requesting
  <2>3. \E s \in Seen : seen' = [seen EXCEPT ![c] = s]
    BY <2>1, <2>2, Held DEF Requesting
  <2>4. QED
    BY <1>1, <2>1, <2>3, GotoMoves
<1>9. QED
  BY <1>2, <1>3, <1>4, <1>5, <1>6, <1>7, <1>8 DEF AboutTrust, Tokens, Trusting

LEMMA DeleteRows ==
  ASSUME Requesting, NEW gone, Delete(gone)
  PROVE  device' \in [Rows -> DeviceRow]
  BY NothingHeld DEF Delete, Requesting

LEMMA TrustRows ==
  ASSUME Requesting, NEW c \in Calls, AboutTrust(c)
  PROVE  device' \in [Rows -> DeviceRow]
<1>1. CASE RegisterDevice(c)
  <2>1. request[c].print \in Fingerprints \cup {NoDevice}
    BY <1>1, Asked DEF RegisterDevice, NamesDevice, Kind, Requesting
  <2>2. PICK d : device' = [device EXCEPT ![d] = [device[d] EXCEPT !.exists = TRUE,
                               !.idle = FALSE, !.print = request[c].print]]
    BY <1>1 DEF RegisterDevice, Bearing, Rows, Requesting
  <2>3. QED
    BY <2>1, <2>2, RowHeld DEF Requesting
<1>2. CASE SetTrust(c)
  <2>1. \/ UNCHANGED device
        \/ device' = [device EXCEPT ![seen[c].device].trusted = TRUE]
    BY <1>2 DEF SetTrust
  <2>2. ASSUME NEW d \in Rows PROVE device'[d] \in DeviceRow
    <3>1. device[d] \in DeviceRow
      BY DEF Requesting
    <3>2. device'[d] = device[d] \/ device'[d] = [device[d] EXCEPT !.trusted = TRUE]
      BY <2>1 DEF Requesting
    <3>3. QED
      BY <3>1, <3>2, RowHeld
  <2>3. QED
    BY <2>1, <2>2 DEF Requesting
<1>3. CASE ApproveDevice(c) \/ Distrust(c)
  <2>1. PICK e \in Rows, l \in BOOLEAN, b \in BOOLEAN :
          device' = [device EXCEPT ![e].approved = b, ![e].trusted = l]
    BY <1>3 DEF ApproveDevice, Distrust
  <2>2. ASSUME NEW d \in Rows PROVE device'[d] \in DeviceRow
    <3>1. device[d] \in DeviceRow
      BY DEF Requesting
    <3>2. \/ device'[d] = device[d]
          \/ device'[d] = [device[d] EXCEPT !.approved = b, !.trusted = l]
      BY <2>1 DEF Requesting
    <3>3. QED
      BY <3>1, <3>2, RowHeld
  <2>3. QED
    BY <2>1, <2>2 DEF Requesting
<1>4. CASE PatchWrite(c)
  <2>1. PICK approved \in BOOLEAN, level \in BOOLEAN, print \in Fingerprints :
          \/ device' = [device EXCEPT ![seen[c].device] =
                          [exists |-> TRUE, approved |-> approved, trusted |-> level,
                           idle |-> FALSE, print |-> print]]
          \/ UNCHANGED device
    BY <1>4 DEF PatchWrite
  <2>2. [exists |-> TRUE, approved |-> approved, trusted |-> level, idle |-> FALSE,
         print |-> print] \in DeviceRow
    BY DEF DeviceRow
  <2>3. QED
    BY <2>1, <2>2 DEF Requesting
<1>5. CASE DeleteDevice(c)
  BY <1>5, DeleteRows DEF DeleteDevice
<1>6. CASE WalletLogin(c) \/ IssueTokens(c) \/ Tokens(c) \/ NoSuchDevice(c) \/ RevokeTokens(c)
             \/ PatchRead(c)
  <2>1. UNCHANGED device
    BY <1>6 DEF WalletLogin, IssueTokens, Tokens, ReadToken, IssueAccess, Logout, NoSuchDevice,
                RevokeTokens, PatchRead, trust
  <2>2. QED
    BY <2>1 DEF Requesting
<1>7. QED
  BY <1>1, <1>2, <1>3, <1>4, <1>5, <1>6 DEF AboutTrust, Trusting

LEMMA MovesKeeps ==
  ASSUME Requesting, NEW c \in Calls, NEW stage \in Stages, Moves(c, stage),
         attempts' \in Nat, lockedUntil' \in Nat \cup {Never}, crashes' \in Nat,
         device' \in [Rows -> DeviceRow]
  PROVE  Requesting'
  BY DEF Requesting, Moves, UnderWay

\* The kinds of steps there are; the proofs below go through them.
LEMMA Steps ==
  ASSUME [Next]_vars
  PROVE  \/ \E c \in Calls : AboutPassword(c) \/ AboutTrust(c) \/ Granting(c) \/ Crash(c)
         \/ CleanupSessions \/ CleanupInactiveDevices \/ Tick \/ UNCHANGED vars
  BY DEF Next, Login, AboutPassword, AboutTrust

LEMMA RequestingStep ==
  ASSUME Requesting, [Next]_vars
  PROVE  Requesting'
<1> USE DEF Stages
<1>1. ASSUME NEW c \in Calls, AboutPassword(c) PROVE Requesting'
  <2>1. UNCHANGED <<device, crashes>>
    BY <1>1, PasswordMoves DEF trust
  <2>2. QED
    BY <1>1, <2>1, PasswordMoves, MovesKeeps DEF PasswordStages, Requesting
<1>2. ASSUME NEW c \in Calls, AboutTrust(c) PROVE Requesting'
  <2>1. UNCHANGED <<attempts, lockedUntil, crashes>>
    BY <1>2, TrustMoves DEF users
  <2>2. QED
    BY <1>2, <2>1, TrustMoves, TrustRows, MovesKeeps DEF TrustStages, Requesting
<1>3. ASSUME NEW c \in Calls, Granting(c) PROVE Requesting'
  <2>1. UNCHANGED <<attempts, lockedUntil, device, crashes>>
    BY <1>3, GrantMoves DEF users, trust
  <2>2. QED
    BY <1>3, <2>1, GrantMoves, MovesKeeps DEF Requesting
<1>4. ASSUME NEW c \in Calls, Crash(c) PROVE Requesting'
  <2>1. Moves(c, "dead") /\ UNCHANGED <<attempts, lockedUntil, device>>
    BY <1>4, CrashMoves DEF users, trust
  <2>2. crashes' \in Nat
    BY <1>4 DEF Crash, Requesting
  <2>3. QED
    BY <2>1, <2>2, MovesKeeps DEF Requesting
<1>5. CASE CleanupSessions
  BY <1>5 DEF CleanupSessions, users, Requesting, UnderWay
<1>6. CASE CleanupInactiveDevices
  BY <1>6, DeleteRows DEF CleanupInactiveDevices, users, Requesting, UnderWay
<1>7. CASE Tick
  BY <1>7 DEF Tick, users, trust, Requesting, UnderWay
<1>8. CASE UNCHANGED vars
  BY <1>8 DEF vars, users, trust, Requesting, UnderWay
<1>9. QED
  BY <1>1, <1>2, <1>3, <1>4, <1>5, <1>6, <1>7, <1>8, Steps

LEMMA RequestingInit == Init => Requesting
  BY NothingHeld DEF Init, Requesting, Stages, UnderWay

-----------------------------------------------------------------------------
(* Passwords                                                               *)

Counters ==
  /\ wrong \in Nat /\ streak \in Nat
  /\ lastWrong \in Nat \cup {Never} /\ raced \in BOOLEAN

\* The count of the account, and the one a request has read, are backed by wrong
\* passwords; the one of a login with a wrong password by one more.
Backed ==
  /\ attempts <= wrong
  /\ \A c \in Calls :
       /\ LoggingIn(c) => seen[c].attempts + (IF request[c].right THEN 0 ELSE 1) <= wrong
       /\ Editing(c) => seen[c].attempts <= wrong

\* So is the lock, and the one a PATCH of the user has read.
LockBacked ==
  /\ lockedUntil # Never => wrong >= LockLimit
  /\ \A c \in Calls : Editing(c) /\ seen[c].locked # Never => wrong >= LockLimit

\* Only a login that found the password wrong locks.
Locking ==
  \A c \in Calls : /\ pc[c] \in {"read", "locking"} => Kind(c) = "login"
                   /\ pc[c] = "locking" => ~request[c].right

LockedSince(when) == when # Never /\ lockedUntil # Never /\ lockedUntil >= when + LockTime

\* As long as no login overlaps another or a PATCH of the user, nothing is lost.
Unraced ==
  ~raced =>
    /\ attempts = streak
    /\ \A c, d \in Calls : LoggingIn(c) /\ LoggingIn(d) => c = d
    /\ \A c, d \in Calls : LoggingIn(c) => ~Editing(d)
    /\ \A c \in Calls : LoggingIn(c) \/ Editing(c) => seen[c].attempts = attempts
    /\ \A c \in Calls : Editing(c) => seen[c].locked = lockedUntil
    /\ \A c \in Calls : pc[c] = "locking" => LockedSince(lastWrong)
    /\ streak >= LockLimit => LockedSince(lastWrong)

PasswordInv == Counters /\ Backed /\ LockBacked /\ Locking /\ Unraced

LEMMA PasswordInit == Init => PasswordInv
<1> SUFFICES ASSUME Init PROVE PasswordInv
  OBVIOUS
<1>1. \A c \in Calls : pc[c] = "sent"
  BY DEF Init
<1>2. \A c \in Calls : ~LoggingIn(c) /\ ~Editing(c)
  BY <1>1 DEF LoggingIn, Editing
<1>3. Counters
  BY DEF Init, Counters
<1>4. attempts = 0 /\ wrong = 0 /\ streak = 0 /\ lockedUntil = Never
  BY DEF Init
<1>5. Backed /\ LockBacked
  BY <1>2, <1>4 DEF Backed, LockBacked
<1>6. Locking
  BY <1>1 DEF Locking
<1>7. Unraced
  BY <1>1, <1>2, <1>4, Limits DEF Unraced
<1>8. QED
  BY <1>3, <1>5, <1>6, <1>7 DEF PasswordInv

\* A request that works on something else leaves the counters alone and logs nobody
\* in, and neither do the tasks and time.
LEMMA PasswordsAside ==
  ASSUME Requesting, PasswordInv, UNCHANGED <<users, request>>,
         \A c \in Calls : pc'[c] \in {"read", "locking", "editing"} =>
                            pc'[c] = pc[c] /\ seen'[c] = seen[c]
  PROVE  PasswordInv'
<1>1. UNCHANGED <<attempts, lockedUntil, wrong, streak, lastWrong, raced>>
  BY DEF users
<1>2. \A c \in Calls : /\ Kind(c)' = Kind(c)
                       /\ LoggingIn(c)' => LoggingIn(c) /\ seen'[c] = seen[c]
                       /\ Editing(c)' => Editing(c) /\ seen'[c] = seen[c]
  BY DEF Kind, LoggingIn, Editing
<1>3. Counters'
  BY <1>1 DEF PasswordInv, Counters
<1>4. Backed'
  BY <1>1, <1>2 DEF PasswordInv, Backed
<1>5. LockBacked'
  BY <1>1, <1>2 DEF PasswordInv, LockBacked
<1>6. Locking'
  BY <1>1, <1>2 DEF PasswordInv, Locking
<1>7. Unraced'
  <2>1. \A when : LockedSince(when)' <=> LockedSince(when)
    BY <1>1 DEF LockedSince
  <2>2. QED
    BY <1>1, <1>2, <2>1 DEF PasswordInv, Unraced
<1>8. QED
  BY <1>3, <1>4, <1>5, <1>6, <1>7 DEF PasswordInv

LEMMA MovesAside ==
  ASSUME Requesting, PasswordInv, UNCHANGED users, NEW c \in Calls, NEW stage, Moves(c, stage),
         stage \notin {"read", "locking", "editing"}
  PROVE  PasswordInv'
<1>1. UNCHANGED request
  BY DEF Moves
<1>2. \A d \in Calls : pc'[d] \in {"read", "locking", "editing"} =>
                         pc'[d] = pc[d] /\ seen'[d] = seen[d]
  BY DEF Moves, Requesting
<1>3. QED
  BY <1>1, <1>2, PasswordsAside

LEMMA ReadUserKeeps ==
  ASSUME Requesting, PasswordInv, NEW c \in Calls, ReadUser(c)
  PROVE  PasswordInv'
<1>1. /\ UNCHANGED <<request, attempts, lockedUntil, streak, lastWrong>>
      /\ pc' = [pc EXCEPT ![c] = "read"]
      /\ wrong' = IF request[c].right THEN wrong ELSE wrong + 1
      /\ raced' = (raced \/ \E d \in Calls : LoggingIn(d) \/ Editing(d))
      /\ seen'[c].attempts = attempts
      /\ \A d \in Calls : d # c => seen'[d] = seen[d]
      /\ Kind(c) = "login"
  BY DEF ReadUser, Goto, Requesting, Seen
<1>2. \A d \in Calls : /\ Kind(d)' = Kind(d)
                       /\ d # c => (LoggingIn(d)' <=> LoggingIn(d))
                       /\ Editing(d)' => Editing(d) /\ d # c
                       /\ pc'[d] = "locking" => pc[d] = "locking"
  BY <1>1 DEF Kind, LoggingIn, Editing, Requesting
<1>3. Counters' /\ wrong <= wrong' /\ wrong \in Nat /\ wrong' \in Nat
  BY <1>1 DEF PasswordInv, Counters
<1>4. Backed'
  <2>1. attempts' <= wrong'
    BY <1>1, <1>3 DEF PasswordInv, Backed, Requesting
  <2>2. ASSUME NEW d \in Calls, LoggingIn(d)'
        PROVE  seen'[d].attempts + (IF request'[d].right THEN 0 ELSE 1) <= wrong'
    <3>1. seen[d].attempts \in Nat
      BY Held DEF Requesting
    <3>2. CASE d = c
      BY <1>1, <1>3, <3>2 DEF PasswordInv, Backed, Requesting
    <3>3. CASE d # c
      <4>1. LoggingIn(d) /\ seen'[d] = seen[d] /\ request'[d] = request[d]
        BY <1>1, <1>2, <2>2, <3>3
      <4>2. QED
        BY <1>3, <3>1, <4>1 DEF PasswordInv, Backed
    <3>4. QED
      BY <3>2, <3>3
  <2>3. ASSUME NEW d \in Calls, Editing(d)' PROVE seen'[d].attempts <= wrong'
    <3>1. seen[d].attempts \in Nat /\ seen[d].attempts <= wrong /\ seen'[d] = seen[d]
      BY <1>1, <1>2, <2>3, Held DEF PasswordInv, Backed, Requesting
    <3>2. QED
      BY <1>3, <3>1
  <2>4. QED
    BY <2>1, <2>2, <2>3 DEF Backed
<1>5. LockBacked'
  <2>1. wrong >= LockLimit => wrong' >= LockLimit
    BY <1>3, Limits
  <2>2. QED
    BY <1>1, <1>2, <2>1 DEF PasswordInv, LockBacked
<1>6. Locking'
  BY <1>1, <1>2 DEF PasswordInv, Locking, Requesting
<1>7. Unraced'
  <2> SUFFICES ASSUME ~raced' PROVE Unraced'
    BY DEF Unraced
  <2>1. ~raced /\ \A d \in Calls : ~LoggingIn(d) /\ ~Editing(d)
    BY <1>1
  <2>2. \A d \in Calls : (LoggingIn(d)' => d = c) /\ ~Editing(d)'
    BY <1>2, <2>1
  <2>3. \A when : LockedSince(when)' <=> LockedSince(when)
    BY <1>1 DEF LockedSince
  <2>4. QED
    BY <1>1, <1>2, <2>1, <2>2, <2>3 DEF PasswordInv, Unraced
<1>8. QED
  BY <1>3, <1>4, <1>5, <1>6, <1>7 DEF PasswordInv

LEMMA LockKeeps ==
  ASSUME Requesting, PasswordInv, NEW c \in Calls, Lock(c)
  PROVE  PasswordInv'
<1>1. /\ UNCHANGED <<request, attempts, wrong, streak, raced, seen>>
      /\ lockedUntil' = clock + LockTime /\ lastWrong' = clock
      /\ pc' = [pc EXCEPT ![c] = "locking"]
      /\ pc[c] = "read" /\ Kind(c) = "login" /\ ~request[c].right
      /\ seen[c].attempts + 1 >= LockLimit
  BY DEF Lock, Goto, Enough
<1>2. \A d \in Calls : /\ Kind(d)' = Kind(d) /\ (LoggingIn(d)' <=> LoggingIn(d))
                       /\ Editing(d)' <=> Editing(d)
  BY <1>1 DEF Kind, LoggingIn, Editing, Requesting
<1>3. LoggingIn(c)
  BY <1>1 DEF LoggingIn
<1>4. Counters'
  BY <1>1 DEF PasswordInv, Counters, Requesting
<1>5. Backed'
  BY <1>1, <1>2 DEF PasswordInv, Backed
<1>6. LockBacked'
  <2>1. seen[c].attempts \in Nat /\ wrong \in Nat
    BY Held DEF Requesting, PasswordInv, Counters
  <2>2. seen[c].attempts + 1 <= wrong
    BY <1>1, <1>3 DEF PasswordInv, Backed
  <2>3. QED
    BY <1>1, <2>1, <2>2, Limits DEF LockBacked
<1>7. Locking'
  BY <1>1, <1>2 DEF PasswordInv, Locking, Requesting
<1>8. Unraced'
  <2> SUFFICES ASSUME ~raced PROVE Unraced'
    BY <1>1 DEF Unraced
  <2>1. LockedSince(lastWrong)'
    BY <1>1, Limits DEF LockedSince, Requesting
  <2>2. \A d \in Calls : ~Editing(d)
    BY <1>3 DEF PasswordInv, Unraced
  <2>3. QED
    BY <1>1, <1>2, <2>1, <2>2 DEF PasswordInv, Unraced
<1>9. QED
  BY <1>4, <1>5, <1>6, <1>7, <1>8 DEF PasswordInv

LEMMA CountWrongKeeps ==
  ASSUME Requesting, PasswordInv, NEW c \in Calls, CountWrong(c)
  PROVE  PasswordInv'
<1>1. /\ UNCHANGED <<clock, request, lockedUntil, wrong, raced>>
      /\ pc' = [pc EXCEPT ![c] = "done"]
      /\ attempts' = seen[c].attempts + 1 /\ streak' = streak + 1
      /\ lastWrong' = IF pc[c] = "locking" THEN lastWrong ELSE clock
      /\ \A d \in Calls : d # c => seen'[d] = seen[d]
      /\ pc[c] = "locking" \/ (pc[c] = "read" /\ ~Enough(c))
  BY DEF CountWrong, Answer, Goto, Requesting
<1>2. LoggingIn(c) /\ ~request[c].right
  BY DEF CountWrong, LoggingIn, PasswordInv, Locking
<1>3. \A d \in Calls : /\ Kind(d)' = Kind(d)
                       /\ LoggingIn(d)' => LoggingIn(d) /\ d # c
                       /\ Editing(d)' => Editing(d) /\ d # c
                       /\ pc'[d] = "locking" => pc[d] = "locking"
  BY <1>1 DEF Kind, LoggingIn, Editing, Requesting
<1>4. seen[c].attempts \in Nat /\ wrong \in Nat /\ streak \in Nat /\ clock \in Nat
  BY Held DEF Requesting, PasswordInv, Counters
<1>5. Counters'
  BY <1>1, <1>4 DEF PasswordInv, Counters
<1>6. Backed'
  <2>1. seen[c].attempts + 1 <= wrong
    BY <1>2 DEF PasswordInv, Backed
  <2>2. QED
    BY <1>1, <1>3, <2>1 DEF PasswordInv, Backed
<1>7. LockBacked'
  BY <1>1, <1>3 DEF PasswordInv, LockBacked
<1>8. Locking'
  BY <1>1, <1>3 DEF PasswordInv, Locking, Requesting
<1>9. Unraced'
  <2> SUFFICES ASSUME ~raced PROVE Unraced'
    BY <1>1 DEF Unraced
  <2>1. attempts = streak /\ seen[c].attempts = attempts
    BY <1>2 DEF PasswordInv, Unraced
  <2>2. \A d \in Calls : ~LoggingIn(d)' /\ ~Editing(d)' /\ pc'[d] # "locking"
    <3>1. \A d \in Calls : ~LoggingIn(d)' /\ ~Editing(d)'
      BY <1>2, <1>3 DEF PasswordInv, Unraced
    <3>2. \A d \in Calls : pc'[d] = "locking" => LoggingIn(d)'
      BY <1>8 DEF Locking, LoggingIn
    <3>3. QED
      BY <3>1, <3>2
  <2>3. streak' >= LockLimit => pc[c] = "locking"
    BY <1>1, <1>4, <2>1, Limits DEF Enough
  <2>4. pc[c] = "locking" => LockedSince(lastWrong)
    BY DEF PasswordInv, Unraced
  <2>5. streak' >= LockLimit => LockedSince(lastWrong)'
    BY <1>1, <2>3, <2>4 DEF LockedSince
  <2>6. attempts' = streak'
    BY <1>1, <2>1
  <2>7. QED
    BY <1>1, <2>2, <2>5, <2>6 DEF Unraced
<1>10. QED
  BY <1>5, <1>6, <1>7, <1>8, <1>9 DEF PasswordInv

LEMMA ResetAttemptsKeeps ==
  ASSUME Requesting, PasswordInv, NEW c \in Calls, ResetAttempts(c)
  PROVE  PasswordInv'
<1>1. /\ UNCHANGED <<request, lockedUntil, wrong, lastWrong, raced, seen>>
      /\ pc' = [pc EXCEPT ![c] = "passed"]
      /\ attempts' = 0 /\ streak' = 0
  BY DEF ResetAttempts, Goto
<1>2. LoggingIn(c)
  BY DEF ResetAttempts, LoggingIn
<1>3. \A d \in Calls : /\ Kind(d)' = Kind(d)
                       /\ LoggingIn(d)' => LoggingIn(d) /\ d # c
                       /\ Editing(d)' => Editing(d)
  BY <1>1 DEF Kind, LoggingIn, Editing, Requesting
<1>4. Counters' /\ wrong \in Nat
  BY <1>1 DEF PasswordInv, Counters
<1>5. Backed'
  BY <1>1, <1>3, <1>4 DEF PasswordInv, Backed
<1>6. LockBacked'
  BY <1>1, <1>3 DEF PasswordInv, LockBacked
<1>7. Locking'
  BY <1>1, <1>3 DEF PasswordInv, Locking, Requesting
<1>8. Unraced'
  <2> SUFFICES ASSUME ~raced PROVE Unraced'
    BY <1>1 DEF Unraced
  <2>1. \A d \in Calls : ~LoggingIn(d)' /\ ~Editing(d)'
    BY <1>2, <1>3 DEF PasswordInv, Unraced
  <2>2. \A d \in Calls : pc'[d] = "locking" => LoggingIn(d)'
    BY <1>7 DEF Locking, LoggingIn
  <2>3. QED
    BY <1>1, <2>1, <2>2, Limits DEF Unraced
<1>9. QED
  BY <1>4, <1>5, <1>6, <1>7, <1>8 DEF PasswordInv

\* A PATCH of the user that begins while nobody logs in has read what it will save.
LEMMA ReadProfileKeeps ==
  ASSUME Requesting, PasswordInv, NEW c \in Calls, ReadProfile(c)
  PROVE  PasswordInv'
<1>1. /\ UNCHANGED <<request, attempts, lockedUntil, wrong, streak, lastWrong>>
      /\ pc' = [pc EXCEPT ![c] = "editing"] /\ pc[c] = "sent"
      /\ raced' = (raced \/ \E d \in Calls : LoggingIn(d))
      /\ seen'[c].attempts = attempts /\ seen'[c].locked = lockedUntil
      /\ \A d \in Calls : d # c => seen'[d] = seen[d]
  BY DEF ReadProfile, Goto, Requesting, Seen
<1>2. \A d \in Calls : /\ Kind(d)' = Kind(d)
                       /\ LoggingIn(d)' <=> LoggingIn(d)
                       /\ LoggingIn(d)' => d # c
                       /\ d # c => (Editing(d)' <=> Editing(d))
                       /\ pc'[d] \in {"read", "locking"} => pc'[d] = pc[d]
  BY <1>1 DEF Kind, LoggingIn, Editing, Requesting
<1>3. Counters'
  BY <1>1 DEF PasswordInv, Counters
<1>4. Backed'
  BY <1>1, <1>2 DEF PasswordInv, Backed
<1>5. LockBacked'
  BY <1>1, <1>2 DEF PasswordInv, LockBacked
<1>6. Locking'
  BY <1>1, <1>2 DEF PasswordInv, Locking
<1>7. Unraced'
  <2> SUFFICES ASSUME ~raced' PROVE Unraced'
    BY DEF Unraced
  <2>1. ~raced /\ \A d \in Calls : ~LoggingIn(d)
    BY <1>1
  <2>2. \A when : LockedSince(when)' <=> LockedSince(when)
    BY <1>1 DEF LockedSince
  <2>3. QED
    BY <1>1, <1>2, <2>1, <2>2 DEF PasswordInv, Unraced
<1>8. QED
  BY <1>3, <1>4, <1>5, <1>6, <1>7 DEF PasswordInv

\* What it saves was backed when it was read, and is what is there if nothing raced.
LEMMA SaveProfileKeeps ==
  ASSUME Requesting, PasswordInv, NEW c \in Calls, SaveProfile(c)
  PROVE  PasswordInv'
<1>1. /\ UNCHANGED <<request, wrong, streak, lastWrong, raced>>
      /\ pc' = [pc EXCEPT ![c] = "done"] /\ Editing(c)
      /\ attempts' = seen[c].attempts /\ lockedUntil' = seen[c].locked
      /\ \A d \in Calls : d # c => seen'[d] = seen[d]
  BY DEF SaveProfile, Answer, Goto, Editing, Requesting
<1>2. \A d \in Calls : /\ Kind(d)' = Kind(d)
                       /\ LoggingIn(d)' => LoggingIn(d) /\ d # c
                       /\ Editing(d)' => Editing(d) /\ d # c
                       /\ pc'[d] \in {"read", "locking"} => pc'[d] = pc[d] /\ d # c
  BY <1>1 DEF Kind, LoggingIn, Editing, Requesting
<1>3. Counters'
  BY <1>1 DEF PasswordInv, Counters
<1>4. Backed'
  BY <1>1, <1>2 DEF PasswordInv, Backed
<1>5. LockBacked'
  BY <1>1, <1>2 DEF PasswordInv, LockBacked
<1>6. Locking'
  BY <1>1, <1>2 DEF PasswordInv, Locking
<1>7. Unraced'
  <2> SUFFICES ASSUME ~raced PROVE Unraced'
    BY <1>1 DEF Unraced
  <2>1. attempts' = attempts /\ lockedUntil' = lockedUntil
    BY <1>1 DEF PasswordInv, Unraced
  <2>2. \A when : LockedSince(when)' <=> LockedSince(when)
    BY <2>1 DEF LockedSince
  <2>3. QED
    BY <1>1, <1>2, <2>1, <2>2 DEF PasswordInv, Unraced
<1>8. QED
  BY <1>3, <1>4, <1>5, <1>6, <1>7 DEF PasswordInv

LEMMA PasswordStep ==
  ASSUME Requesting, PasswordInv, [Next]_vars
  PROVE  PasswordInv'
<1>1. ASSUME NEW c \in Calls, AboutPassword(c) PROVE PasswordInv'
  <2>1. CASE RefuseLocked(c)
    <3>1. UNCHANGED users /\ Moves(c, "done")
      BY <2>1, AnswerMoves DEF RefuseLocked
    <3>2. QED
      BY <3>1, MovesAside
  <2>2. QED
    BY <1>1, <2>1, ReadUserKeeps, LockKeeps, CountWrongKeeps, ResetAttemptsKeeps,
       ReadProfileKeeps, SaveProfileKeeps DEF AboutPassword
<1>2. ASSUME NEW c \in Calls, AboutTrust(c) \/ Granting(c) \/ Crash(c) PROVE PasswordInv'
  <2>1. \E stage \in TrustStages \cup {"granting", "dead"} : Moves(c, stage) /\ UNCHANGED users
    BY <1>2, TrustMoves, GrantMoves, CrashMoves DEF TrustStages
  <2>2. QED
    BY <2>1, MovesAside DEF TrustStages
<1>3. CASE CleanupSessions \/ CleanupInactiveDevices \/ Tick \/ UNCHANGED vars
  <2>1. UNCHANGED <<users, request, pc, seen>>
    BY <1>3 DEF CleanupSessions, CleanupInactiveDevices, Tick, vars
  <2>2. QED
    BY <2>1, PasswordsAside
<1>4. QED
  BY <1>1, <1>2, <1>3, Steps

\* The lock-out counts what happened: AuthViewSet.login reads the count, counts in
\* Python and saves it, User.lock saves the lock, and a PATCH of the user saves both as
\* read.  However these overlap, the count and the lock are backed by wrong passwords;
\* if no login overlaps another or a PATCH, the limit locks.
THEOREM LockoutIsBacked == Spec => []LockoutCounts
<1>1. Requesting /\ PasswordInv => LockoutCounts
  BY DEF PasswordInv, Backed, LockBacked, Unraced, LockedSince, LockoutCounts
<1>2. Requesting /\ PasswordInv /\ [Next]_vars => (Requesting /\ PasswordInv)'
  BY RequestingStep, PasswordStep
<1>3. QED
  BY RequestingInit, PasswordInit, <1>1, <1>2, PTL DEF Spec

-----------------------------------------------------------------------------
(* Devices and tokens                                                      *)

Tokened ==
  /\ token \in [Calls -> TokenRow]
  /\ access \subseteq AccessToken
  /\ cut \subseteq [login : Calls, at : Nat]

\* A row of a token is written at the end of its login; access tokens, refreshes and
\* revocations under way are about rows that are there.
Rooted ==
  /\ \A t \in Calls : token[t].stored => pc[t] = "done" /\ token[t].expires <= clock + RefreshLife
  /\ \A a \in access : token[a.login].stored /\ a.expires <= clock + AccessLife
  /\ \A c \in Calls : pc[c] = "refreshing" =>
       seen[c].token \in Calls /\ token[seen[c].token].stored
  /\ \A c \in Calls : pc[c] = "distrusted" =>
       \A t \in seen[c].live :
         token[t].stored /\ token[t].device \in {seen[c].device, NoDevice}

\* Whose device was revoked has a revoked token; what still descends from it was
\* asked for before, and expires in time.
Fading(x) ==
  /\ x.at <= clock
  /\ token[x.login].stored /\ token[x.login].revoked
  /\ token[x.login].expires <= x.at + RefreshLife
  /\ \A a \in access : a.login = x.login => a.expires <= x.at + AccessLife + 1
  /\ \A c \in Calls : pc[c] = "refreshing" /\ seen[c].token = x.login => began[c] <= x.at

TrustInv == Tokened /\ Rooted /\ \A x \in cut : Fading(x)

LEMMA TrustInit == Init => TrustInv
<1> SUFFICES ASSUME Init PROVE TrustInv
  OBVIOUS
<1>1. \A c \in Calls : pc[c] = "sent" /\ ~token[c].stored
  BY DEF Init
<1>2. Tokened
  BY DEF Init, Tokened, TokenRow
<1>3. QED
  BY <1>1, <1>2 DEF Init, TrustInv, Rooted

LEMMA TokenKept ==
  ASSUME NEW r \in TokenRow
  PROVE  /\ [r EXCEPT !.revoked = TRUE] \in TokenRow
         /\ [r EXCEPT !.device = NoDevice] \in TokenRow
  BY DEF TokenRow

\* Rows of tokens may lose their device or be revoked, and time may pass.
LEMMA TrustAside ==
  ASSUME Requesting, TrustInv, UNCHANGED <<access, cut, request>>,
         token' \in [Calls -> TokenRow],
         clock' \in Nat, clock <= clock',
         \A t \in Calls : /\ token'[t].stored = token[t].stored /\ token'[t].expires = token[t].expires
                          /\ token[t].revoked => token'[t].revoked
                          /\ token'[t].device \in {token[t].device, NoDevice},
         \A c \in Calls : pc[c] = "done" => pc'[c] = "done",
         \A c \in Calls : pc'[c] \in {"refreshing", "distrusted"} =>
           pc'[c] = pc[c] /\ seen'[c] = seen[c] /\ began'[c] = began[c]
  PROVE  TrustInv'
<1>1. Tokened'
  BY DEF TrustInv, Tokened
<1>2. Rooted'
  <2>1. \A t \in Calls : token'[t].stored => pc'[t] = "done" /\ token'[t].expires <= clock' + RefreshLife
    <3>1. \A t \in Calls : token[t].expires \in Nat
      BY DEF TrustInv, Tokened, TokenRow
    <3>2. \A t \in Calls : token[t].stored => pc[t] = "done" /\ token[t].expires <= clock + RefreshLife
      BY DEF TrustInv, Rooted
    <3>3. QED
      BY <3>1, <3>2, Limits DEF Requesting
  <2>2. ASSUME NEW a \in access
        PROVE  token'[a.login].stored /\ a.expires <= clock' + AccessLife
    <3>1. a.login \in Calls /\ a.expires \in Nat
      BY DEF TrustInv, Tokened, AccessToken
    <3>2. token[a.login].stored /\ a.expires <= clock + AccessLife
      BY DEF TrustInv, Rooted
    <3>3. QED
      BY <3>1, <3>2, Limits DEF Requesting
  <2>3. ASSUME NEW c \in Calls, pc'[c] = "refreshing"
        PROVE  seen'[c].token \in Calls /\ token'[seen'[c].token].stored
    BY <2>3 DEF TrustInv, Rooted
  <2>4. ASSUME NEW c \in Calls, pc'[c] = "distrusted", NEW t \in seen'[c].live
        PROVE  token'[t].stored /\ token'[t].device \in {seen'[c].device, NoDevice}
    <3>1. pc[c] = "distrusted" /\ t \in seen[c].live
      BY <2>4
    <3>2. t \in Calls /\ seen'[c] = seen[c]
      BY <2>4, <3>1 DEF Requesting, Seen
    <3>3. token[t].stored /\ token[t].device \in {seen[c].device, NoDevice}
      BY <3>1 DEF TrustInv, Rooted
    <3>4. QED
      BY <3>2, <3>3
  <2>5. QED
    BY <2>1, <2>2, <2>3, <2>4 DEF Rooted
<1>3. ASSUME NEW x \in cut PROVE Fading(x)'
  <2>1. x.login \in Calls /\ x.at \in Nat /\ Fading(x)
    BY DEF TrustInv, Tokened
  <2>2. QED
    BY <2>1 DEF Fading, Requesting
<1>4. QED
  BY <1>1, <1>2, <1>3 DEF TrustInv

LEMMA MovesAsideOfTrust ==
  ASSUME Requesting, TrustInv, UNCHANGED <<access, cut>>, NEW c \in Calls, NEW stage,
         Moves(c, stage), stage \notin {"refreshing", "distrusted"},
         token' \in [Calls -> TokenRow],
         \A t \in Calls : /\ token'[t].stored = token[t].stored /\ token'[t].expires = token[t].expires
                          /\ token[t].revoked => token'[t].revoked
                          /\ token'[t].device \in {token[t].device, NoDevice}
  PROVE  TrustInv'
<1>1. UNCHANGED <<clock, request>> /\ clock' \in Nat /\ clock <= clock'
  BY DEF Moves, Requesting
<1>2. \A d \in Calls : pc[d] = "done" => pc'[d] = "done"
  BY DEF Moves, Requesting
<1>3. \A d \in Calls : pc'[d] \in {"refreshing", "distrusted"} =>
        pc'[d] = pc[d] /\ seen'[d] = seen[d] /\ began'[d] = began[d]
  BY DEF Moves, Requesting
<1>4. QED
  BY <1>1, <1>2, <1>3, TrustAside

LEMMA IssueTokensKeeps ==
  ASSUME Requesting, TrustInv, NEW c \in Calls, IssueTokens(c)
  PROVE  TrustInv'
<1>1. Moves(c, "done") /\ UNCHANGED cut
  BY AnswerMoves DEF IssueTokens
<1>2. CASE UNCHANGED <<token, access>>
  BY <1>1, <1>2, MovesAsideOfTrust DEF TrustInv, Tokened
<1>3. CASE ~UNCHANGED <<token, access>>
  <2> DEFINE row == [stored |-> TRUE, device |-> seen[c].device, expires |-> clock + RefreshLife,
                     revoked |-> FALSE]
             new == [login |-> c, device |-> seen[c].device, expires |-> clock + AccessLife]
  <2>1. token' = [token EXCEPT ![c] = row] /\ access' = access \cup {new}
    BY <1>3 DEF IssueTokens
  <2>2. /\ row \in TokenRow /\ row.stored /\ row.expires = clock + RefreshLife
        /\ new \in AccessToken /\ new.login = c /\ new.expires = clock + AccessLife
    <3>1. seen[c].device \in Rows \cup {NoDevice} /\ clock \in Nat
      BY Held DEF Requesting
    <3>2. QED
      BY <3>1, Limits DEF TokenRow, AccessToken
  <2>3. ~token[c].stored /\ token'[c].stored
    BY <1>1, <2>1, <2>2 DEF TrustInv, Tokened, Rooted, Moves
  <2>4. \A t \in Calls : t # c => token'[t] = token[t]
    BY <2>1 DEF TrustInv, Tokened
  <2>5. /\ UNCHANGED <<clock, request>> /\ clock \in Nat
        /\ \A d \in Calls : d # c => /\ pc'[d] = pc[d] /\ seen'[d] = seen[d]
                                     /\ began'[d] = began[d]
        /\ pc'[c] = "done"
    BY <1>1 DEF Moves, Requesting
  <2>6. Tokened'
    <3> HIDE DEF row, new
    <3>1. QED
      BY <1>1, <2>1, <2>2 DEF TrustInv, Tokened
  <2> HIDE DEF row, new
  <2>7. Rooted'
    <3>1. \A t \in Calls : token'[t].stored => pc'[t] = "done" /\ token'[t].expires <= clock' + RefreshLife
      <4>1. token'[c].expires = clock + RefreshLife
        BY <2>1, <2>2 DEF TrustInv, Tokened
      <4>2. QED
        BY <2>4, <2>5, <4>1, Limits DEF TrustInv, Rooted
    <3>2. ASSUME NEW a \in access'
          PROVE  token'[a.login].stored /\ a.expires <= clock' + AccessLife
      <4>1. CASE a = new
        BY <2>2, <2>3, <2>5, <4>1, Limits
      <4>2. CASE a \in access
        <5>1. a.login \in Calls /\ token[a.login].stored /\ a.expires <= clock + AccessLife
          BY <4>2 DEF TrustInv, Tokened, Rooted, AccessToken
        <5>2. QED
          BY <2>3, <2>4, <2>5, <5>1
      <4>3. QED
        BY <2>1, <4>1, <4>2
    <3>3. ASSUME NEW d \in Calls, pc'[d] = "refreshing"
          PROVE  seen'[d].token \in Calls /\ token'[seen'[d].token].stored
      <4>1. d # c
        BY <2>5, <3>3
      <4>2. QED
        BY <2>3, <2>4, <2>5, <3>3, <4>1 DEF TrustInv, Rooted
    <3>4. ASSUME NEW d \in Calls, pc'[d] = "distrusted", NEW t \in seen'[d].live
          PROVE  token'[t].stored /\ token'[t].device \in {seen'[d].device, NoDevice}
      <4>1. d # c /\ pc[d] = "distrusted" /\ t \in seen[d].live
        BY <2>5, <3>4
      <4>2. t \in Calls /\ token[t].stored /\ token[t].device \in {seen[d].device, NoDevice}
        BY <4>1 DEF TrustInv, Rooted, Requesting, Seen
      <4>3. token'[t] = token[t] /\ seen'[d] = seen[d]
        BY <2>3, <2>4, <2>5, <4>1, <4>2
      <4>4. QED
        BY <4>2, <4>3
    <3>5. QED
      BY <3>1, <3>2, <3>3, <3>4 DEF Rooted
  <2>8. ASSUME NEW x \in cut PROVE Fading(x)'
    <3>1. x.login \in Calls /\ x.login # c /\ Fading(x)
      BY <2>3 DEF TrustInv, Tokened, Fading
    <3>2. \A a \in access' : a.login = x.login => a.expires <= x.at + AccessLife + 1
      BY <2>1, <2>2, <3>1 DEF Fading
    <3>3. \A d \in Calls : pc'[d] = "refreshing" /\ seen'[d].token = x.login => began'[d] <= x.at
      BY <2>5, <3>1 DEF Fading
    <3>4. QED
      BY <2>4, <2>5, <3>1, <3>2, <3>3 DEF Fading
  <2>9. QED
    BY <1>1, <2>6, <2>7, <2>8 DEF TrustInv
<1>4. QED
  BY <1>2, <1>3

\* A revoked token is not read; a refresh that has read it before knows it.
LEMMA ReadTokenKeeps ==
  ASSUME Requesting, TrustInv, NEW c \in Calls, ReadToken(c)
  PROVE  TrustInv'
<1>1. PICK t \in Calls : Refreshable(t) /\ seen' = [seen EXCEPT ![c].token = t]
  BY DEF ReadToken
<1>2. /\ UNCHANGED <<clock, request, token, access, cut>>
      /\ pc' = [pc EXCEPT ![c] = "refreshing"] /\ pc[c] = "sent"
      /\ \A d \in Calls : d # c => seen'[d] = seen[d] /\ began'[d] = began[d]
  BY <1>1 DEF ReadToken, Goto, trust, Requesting
<1>3. seen'[c].token = t /\ token[t].stored /\ ~token[t].revoked
  BY <1>1 DEF Refreshable, Requesting, Seen
<1>4. Tokened'
  BY <1>2 DEF TrustInv, Tokened
<1>5. \A d \in Calls : d # c => pc'[d] = pc[d]
  BY <1>2 DEF Requesting
<1>6. pc'[c] = "refreshing"
  BY <1>2 DEF Requesting
<1>7. Rooted'
  <2>1. \A u \in Calls : token'[u].stored => pc'[u] = "done" /\ token'[u].expires <= clock' + RefreshLife
    BY <1>2, <1>5 DEF TrustInv, Rooted
  <2>2. \A a \in access' : token'[a.login].stored /\ a.expires <= clock' + AccessLife
    BY <1>2 DEF TrustInv, Rooted
  <2>3. \A d \in Calls : pc'[d] = "refreshing" =>
          seen'[d].token \in Calls /\ token'[seen'[d].token].stored
    BY <1>2, <1>3, <1>5 DEF TrustInv, Rooted
  <2>4. \A d \in Calls : pc'[d] = "distrusted" =>
          \A u \in seen'[d].live :
            token'[u].stored /\ token'[u].device \in {seen'[d].device, NoDevice}
    BY <1>2, <1>5, <1>6 DEF TrustInv, Rooted
  <2>5. QED
    BY <2>1, <2>2, <2>3, <2>4 DEF Rooted
<1>8. ASSUME NEW x \in cut PROVE Fading(x)'
  <2>1. Fading(x) /\ x.login # t
    BY <1>3 DEF TrustInv, Fading
  <2>2. \A d \in Calls : pc'[d] = "refreshing" /\ seen'[d].token = x.login => began'[d] <= x.at
    BY <1>2, <1>3, <1>5, <2>1 DEF Fading
  <2>3. QED
    BY <1>2, <2>1, <2>2 DEF Fading
<1>9. QED
  BY <1>2, <1>4, <1>7, <1>8 DEF TrustInv

\* It began before the revocation, and a request does not span two ticks.
LEMMA IssueAccessKeeps ==
  ASSUME Requesting, TrustInv, NEW c \in Calls, IssueAccess(c)
  PROVE  TrustInv'
<1> DEFINE t == seen[c].token
           new == [login |-> t, device |-> NoDevice, expires |-> clock + AccessLife]
<1>1. pc[c] = "refreshing" /\ Moves(c, "done") /\ UNCHANGED <<token, cut>>
      /\ access' = access \cup {new}
  BY AnswerMoves DEF IssueAccess
<1>2. t \in Calls /\ token[t].stored
  BY <1>1 DEF TrustInv, Rooted
<1>3. new \in AccessToken /\ new.login = t /\ new.expires = clock + AccessLife
  BY <1>2, Limits DEF AccessToken, Requesting
<1>4. began[c] \in Nat /\ clock \in Nat /\ clock <= began[c] + 1
  BY <1>1 DEF Requesting, UnderWay
<1>5. /\ UNCHANGED <<clock, request>>
      /\ \A d \in Calls : d # c => pc'[d] = pc[d] /\ seen'[d] = seen[d] /\ began'[d] = began[d]
      /\ pc'[c] = "done"
  BY <1>1 DEF Moves, Requesting
<1> HIDE DEF t, new
<1>6. Tokened'
  BY <1>1, <1>3 DEF TrustInv, Tokened
<1>7. Rooted'
  <2>1. \A u \in Calls : token'[u].stored => pc'[u] = "done" /\ token'[u].expires <= clock' + RefreshLife
    BY <1>1, <1>5 DEF TrustInv, Rooted
  <2>2. \A a \in access' : token'[a.login].stored /\ a.expires <= clock' + AccessLife
    BY <1>1, <1>2, <1>3, <1>4, <1>5, Limits DEF TrustInv, Rooted
  <2>3. \A d \in Calls : pc'[d] = "refreshing" =>
          seen'[d].token \in Calls /\ token'[seen'[d].token].stored
    BY <1>1, <1>5 DEF TrustInv, Rooted
  <2>4. \A d \in Calls : pc'[d] = "distrusted" =>
          \A u \in seen'[d].live :
            token'[u].stored /\ token'[u].device \in {seen'[d].device, NoDevice}
    BY <1>1, <1>5 DEF TrustInv, Rooted
  <2>5. QED
    BY <2>1, <2>2, <2>3, <2>4 DEF Rooted
<1>8. ASSUME NEW x \in cut PROVE Fading(x)'
  <2>1. Fading(x) /\ x.at \in Nat
    BY DEF TrustInv, Tokened
  <2>2. new.login = x.login => new.expires <= x.at + AccessLife + 1
    <3>1. t = x.login => began[c] <= x.at
      BY <1>1, <2>1 DEF Fading, t
    <3>2. QED
      BY <1>3, <1>4, <2>1, <3>1, Limits
  <2>3. \A a \in access' : a.login = x.login => a.expires <= x.at + AccessLife + 1
    BY <1>1, <2>1, <2>2 DEF Fading
  <2>4. \A d \in Calls : pc'[d] = "refreshing" /\ seen'[d].token = x.login => began'[d] <= x.at
    BY <1>5, <2>1 DEF Fading
  <2>5. QED
    BY <1>1, <1>5, <2>1, <2>3, <2>4 DEF Fading
<1>9. QED
  BY <1>1, <1>6, <1>7, <1>8 DEF TrustInv

LEMMA DistrustKeeps ==
  ASSUME Requesting, TrustInv, NEW c \in Calls, Distrust(c)
  PROVE  TrustInv'
<1>1. /\ UNCHANGED <<clock, request, token, access, cut>>
      /\ pc' = [pc EXCEPT ![c] = "distrusted"] /\ pc[c] = "sent"
      /\ \A d \in Calls : d # c => seen'[d] = seen[d] /\ began'[d] = began[d]
  BY DEF Distrust, Finds, Goto, trust, Requesting
<1>2. \A u \in seen'[c].live : token[u].stored /\ token[u].device = seen'[c].device
  <2>1. PICK d \in Rows :
          seen' = [seen EXCEPT ![c].device = d, ![c].live =
                     {t \in Calls : token[t].stored /\ token[t].device = d}]
    BY DEF Distrust
  <2>2. QED
    BY <2>1 DEF Requesting, Seen
<1>3. pc'[c] = "distrusted" /\ \A d \in Calls : d # c => pc'[d] = pc[d]
  BY <1>1 DEF Requesting
<1>4. Tokened'
  BY <1>1 DEF TrustInv, Tokened
<1>5. Rooted'
  <2>1. \A u \in Calls : token'[u].stored => pc'[u] = "done" /\ token'[u].expires <= clock' + RefreshLife
    BY <1>1, <1>3 DEF TrustInv, Rooted
  <2>2. \A a \in access' : token'[a.login].stored /\ a.expires <= clock' + AccessLife
    BY <1>1 DEF TrustInv, Rooted
  <2>3. \A d \in Calls : pc'[d] = "refreshing" =>
          seen'[d].token \in Calls /\ token'[seen'[d].token].stored
    BY <1>1, <1>3 DEF TrustInv, Rooted
  <2>4. \A d \in Calls : pc'[d] = "distrusted" =>
          \A u \in seen'[d].live :
            token'[u].stored /\ token'[u].device \in {seen'[d].device, NoDevice}
    BY <1>1, <1>2, <1>3 DEF TrustInv, Rooted
  <2>5. QED
    BY <2>1, <2>2, <2>3, <2>4 DEF Rooted
<1>6. ASSUME NEW x \in cut PROVE Fading(x)'
  BY <1>1, <1>3 DEF TrustInv, Fading
<1>7. QED
  BY <1>1, <1>4, <1>5, <1>6 DEF TrustInv

LEMMA RevokeTokensKeeps ==
  ASSUME Requesting, TrustInv, NEW c \in Calls, RevokeTokens(c)
  PROVE  TrustInv'
<1> DEFINE gone == {u \in seen[c].live : token[u].device # NoDevice}
           fresh == {[login |-> u, at |-> clock] : u \in gone}
<1>1. /\ pc[c] = "distrusted" /\ Moves(c, "done") /\ UNCHANGED access
      /\ token' = [u \in Calls |-> IF token[u].device = seen[c].device
                                   THEN [token[u] EXCEPT !.revoked = TRUE] ELSE token[u]]
      /\ cut' = cut \cup fresh
  BY AnswerMoves DEF RevokeTokens
<1>2. \A u \in gone : u \in Calls /\ token[u].stored /\ token[u].device = seen[c].device
  BY <1>1 DEF TrustInv, Rooted, Requesting, Seen
<1>3. \A u \in Calls : token[u] \in TokenRow /\ [token[u] EXCEPT !.revoked = TRUE] \in TokenRow
  BY TokenKept DEF TrustInv, Tokened
<1>4. token' \in [Calls -> TokenRow]
  BY <1>1, <1>3
<1>5. \A u \in Calls : /\ token'[u].stored = token[u].stored /\ token'[u].expires = token[u].expires
                       /\ token'[u].device = token[u].device
                       /\ token[u].revoked \/ token[u].device = seen[c].device
                            => token'[u].revoked
  BY <1>1, <1>3 DEF TokenRow
<1>6. /\ UNCHANGED <<clock, request>> /\ clock \in Nat
      /\ \A d \in Calls : d # c => pc'[d] = pc[d] /\ seen'[d] = seen[d] /\ began'[d] = began[d]
      /\ pc'[c] = "done"
  BY <1>1 DEF Moves, Requesting
<1> HIDE DEF gone
<1>7. \A x \in fresh : x.login \in gone /\ x.at = clock
  OBVIOUS
<1>8. fresh \subseteq [login : Calls, at : Nat]
  BY <1>2, <1>6
<1> HIDE DEF fresh
<1>9. Tokened'
  BY <1>1, <1>4, <1>8 DEF TrustInv, Tokened
<1>10. Rooted'
  <2>1. \A u \in Calls : token'[u].stored => pc'[u] = "done" /\ token'[u].expires <= clock' + RefreshLife
    BY <1>5, <1>6 DEF TrustInv, Rooted
  <2>2. ASSUME NEW a \in access
        PROVE  token'[a.login].stored /\ a.expires <= clock' + AccessLife
    BY <1>5, <1>6 DEF TrustInv, Tokened, AccessToken, Rooted
  <2>3. \A d \in Calls : pc'[d] = "refreshing" =>
          seen'[d].token \in Calls /\ token'[seen'[d].token].stored
    BY <1>5, <1>6 DEF TrustInv, Rooted
  <2>4. ASSUME NEW d \in Calls, pc'[d] = "distrusted", NEW u \in seen'[d].live
        PROVE  token'[u].stored /\ token'[u].device \in {seen'[d].device, NoDevice}
    <3>1. pc[d] = "distrusted" /\ u \in seen[d].live /\ u \in Calls /\ seen'[d] = seen[d]
      BY <1>6, <2>4 DEF Requesting, Seen
    <3>2. token[u].stored /\ token[u].device \in {seen[d].device, NoDevice}
      BY <3>1 DEF TrustInv, Rooted
    <3>3. QED
      BY <1>5, <3>1, <3>2
  <2>5. QED
    BY <1>1, <2>1, <2>2, <2>3, <2>4 DEF Rooted
<1>11. ASSUME NEW x \in cut' PROVE Fading(x)'
  <2>1. CASE x \in cut
    <3>1. Fading(x) /\ x.login \in Calls
      BY <2>1 DEF TrustInv, Tokened
    <3>2. QED
      BY <1>1, <1>5, <1>6, <3>1 DEF Fading
  <2>2. CASE x \in fresh
    <3>1. x.login \in gone /\ x.at = clock /\ x.login \in Calls
      BY <1>2, <1>7, <2>2
    <3>2. /\ token'[x.login].stored /\ token'[x.login].revoked
          /\ token'[x.login].expires <= x.at + RefreshLife
      BY <1>2, <1>5, <3>1 DEF TrustInv, Rooted
    <3>3. ASSUME NEW a \in access PROVE a.expires <= x.at + AccessLife + 1
      <4>1. a.expires \in Nat /\ a.expires <= clock + AccessLife
        BY DEF TrustInv, Tokened, Rooted, AccessToken
      <4>2. QED
        BY <1>6, <3>1, <4>1, Limits
    <3>4. ASSUME NEW d \in Calls, pc'[d] = "refreshing" PROVE began'[d] <= x.at
      BY <1>6, <3>1, <3>4 DEF Requesting, UnderWay
    <3>5. QED
      BY <1>1, <1>6, <3>1, <3>2, <3>3, <3>4 DEF Fading
  <2>3. QED
    BY <1>1, <2>1, <2>2
<1>12. QED
  BY <1>9, <1>10, <1>11 DEF TrustInv

LEMMA DeleteTokens ==
  ASSUME TrustInv, NEW gone, Delete(gone)
  PROVE  /\ token' \in [Calls -> TokenRow]
         /\ \A t \in Calls : /\ token'[t].stored = token[t].stored /\ token'[t].expires = token[t].expires
                             /\ token[t].revoked => token'[t].revoked
                             /\ token'[t].device \in {token[t].device, NoDevice}
<1>1. \A t \in Calls : token[t] \in TokenRow /\ [token[t] EXCEPT !.device = NoDevice] \in TokenRow
  BY TokenKept DEF TrustInv, Tokened
<1>2. QED
  BY <1>1 DEF Delete, TokenRow

LEMMA TrustStep ==
  ASSUME Requesting, TrustInv, [Next]_vars
  PROVE  TrustInv'
<1> USE DEF TrustStages, PasswordStages
<1>1. token \in [Calls -> TokenRow]
  BY DEF TrustInv, Tokened
<1>2. ASSUME NEW c \in Calls, AboutPassword(c) \/ Granting(c) \/ Crash(c) PROVE TrustInv'
  <2>1. UNCHANGED <<token, access, cut>>
    BY <1>2, PasswordMoves, GrantMoves, CrashMoves DEF trust
  <2>2. \E stage \in PasswordStages \cup {"granting", "dead"} : Moves(c, stage)
    BY <1>2, PasswordMoves, GrantMoves, CrashMoves
  <2>3. QED
    BY <1>1, <2>1, <2>2, MovesAsideOfTrust
<1>3. ASSUME NEW c \in Calls, AboutTrust(c) PROVE TrustInv'
  <2>1. PICK stage \in TrustStages : Moves(c, stage)
    BY <1>3, TrustMoves
  <2>2. CASE WalletLogin(c) \/ RegisterDevice(c) \/ SetTrust(c) \/ NoSuchDevice(c)
               \/ ApproveDevice(c) \/ PatchRead(c) \/ PatchWrite(c)
    <3>1. UNCHANGED <<token, access, cut>>
      BY <2>2 DEF WalletLogin, RegisterDevice, SetTrust, NoSuchDevice, ApproveDevice, PatchRead,
                  PatchWrite, trust
    <3>2. pc'[c] \notin {"refreshing", "distrusted"}
      BY <2>2 DEF WalletLogin, RegisterDevice, SetTrust, NoSuchDevice, ApproveDevice, PatchRead,
                  PatchWrite, Answer, Goto, Requesting
    <3>3. pc'[c] = stage
      BY <2>1 DEF Moves, Requesting
    <3>4. QED
      BY <1>1, <2>1, <3>1, <3>2, <3>3, MovesAsideOfTrust
  <2>3. CASE Logout(c)
    <3>1. Moves(c, "done") /\ UNCHANGED <<access, cut>>
      BY <2>3, AnswerMoves DEF Logout
    <3>2. \A t \in Calls : \/ token'[t] = token[t]
                           \/ token'[t] = [token[t] EXCEPT !.revoked = TRUE]
      BY <1>1, <2>3 DEF Logout
    <3>3. \A t \in Calls : token[t] \in TokenRow /\ [token[t] EXCEPT !.revoked = TRUE] \in TokenRow
      BY <1>1, TokenKept
    <3>4. token' \in [Calls -> TokenRow]
      <4>1. \/ token' = token
            \/ \E u \in Calls : token' = [token EXCEPT ![u] = [token[u] EXCEPT !.revoked = TRUE]]
        BY <1>1, <2>3 DEF Logout
      <4>2. QED
        BY <1>1, <3>3, <4>1
    <3>5. \A t \in Calls : /\ token'[t].stored = token[t].stored /\ token'[t].expires = token[t].expires
                           /\ token[t].revoked => token'[t].revoked
                           /\ token'[t].device = token[t].device
      BY <3>2, <3>3 DEF TokenRow
    <3>6. QED
      BY <3>1, <3>4, <3>5, MovesAsideOfTrust
  <2>4. CASE DeleteDevice(c)
    <3>1. Moves(c, "done") /\ UNCHANGED <<access, cut>> /\ \E gone : Delete(gone)
      BY <2>4, AnswerMoves DEF DeleteDevice, Finds
    <3>2. QED
      BY <3>1, DeleteTokens, MovesAsideOfTrust
  <2>5. QED
    BY <1>3, <2>2, <2>3, <2>4, IssueTokensKeeps, ReadTokenKeeps, IssueAccessKeeps, DistrustKeeps,
       RevokeTokensKeeps DEF AboutTrust, Tokens, Trusting
<1>4. CASE CleanupSessions
  <2>1. UNCHANGED <<clock, access, cut, request, pc, began, seen>>
    BY <1>4 DEF CleanupSessions
  <2>2. \A t \in Calls : token[t] \in TokenRow /\ [token[t] EXCEPT !.revoked = TRUE] \in TokenRow
    BY <1>1, TokenKept
  <2>3. token' \in [Calls -> TokenRow]
    BY <1>4, <2>2 DEF CleanupSessions
  <2>4. \A t \in Calls : /\ token'[t].stored = token[t].stored /\ token'[t].expires = token[t].expires
                         /\ token[t].revoked => token'[t].revoked
                         /\ token'[t].device = token[t].device
    BY <1>4, <2>2 DEF CleanupSessions, TokenRow
  <2>5. QED
    BY <2>1, <2>3, <2>4, TrustAside DEF Requesting
<1>5. CASE CleanupInactiveDevices
  <2>1. UNCHANGED <<clock, access, cut, request, pc, began, seen>> /\ Delete(Stale)
    BY <1>5 DEF CleanupInactiveDevices
  <2>2. QED
    BY <2>1, DeleteTokens, TrustAside DEF Requesting
<1>6. CASE Tick \/ UNCHANGED vars
  <2>1. UNCHANGED <<token, access, cut, request, pc, began, seen>> /\ clock' \in {clock, clock + 1}
    BY <1>6 DEF Tick, vars, trust
  <2>2. clock' \in Nat /\ clock <= clock'
    BY <2>1 DEF Requesting
  <2>3. QED
    BY <1>1, <2>1, <2>2, TrustAside
<1>7. QED
  BY <1>2, <1>3, <1>4, <1>5, <1>6, Steps

\* DeviceViewSet.revoke revokes the tokens of the device: one access lifetime and one
\* request later no access token that descends from an earlier login on it is let in,
\* whatever logins, refreshes, approvals, edits, deletions and cleanups overlap.  The
\* refresh token, which is let in as a Bearer though revoked, is until its own end.
THEOREM RevokedDevicesFadeOut == Spec => []RevokedDeviceFadesOut
<1>1. Requesting /\ TrustInv => RevokedDeviceFadesOut
  <2> SUFFICES ASSUME Requesting, TrustInv, NEW x \in cut PROVE
        /\ token[x.login].revoked
        /\ \A b \in Bearers : b.login = x.login /\ Accepts(b) =>
             \/ b \in access /\ clock <= x.at + AccessLife
             \/ b \notin access /\ clock < x.at + RefreshLife
    BY DEF RevokedDeviceFadesOut
  <2>1. x.login \in Calls /\ x.at \in Nat /\ clock \in Nat /\ Fading(x)
    BY DEF TrustInv, Tokened, Requesting
  <2>2. ASSUME NEW b \in access, b.login = x.login, Accepts(b)
        PROVE  clock <= x.at + AccessLife
    <3>1. b.expires \in Nat /\ b.expires <= x.at + AccessLife + 1
      BY <2>1, <2>2 DEF TrustInv, Tokened, AccessToken, Fading
    <3>2. QED
      BY <2>1, <2>2, <3>1, Limits DEF Accepts
  <2>3. ASSUME NEW t \in Calls, t = x.login, clock < token[t].expires
        PROVE  clock < x.at + RefreshLife
    <3>1. token[t].expires \in Nat /\ token[t].expires <= x.at + RefreshLife
      BY <2>1, <2>3 DEF TrustInv, Tokened, TokenRow, Fading
    <3>2. QED
      BY <2>1, <2>3, <3>1, Limits
  <2>4. ASSUME NEW b \in Bearers, b \notin access, b.login = x.login, Accepts(b)
        PROVE  clock < x.at + RefreshLife
    <3>1. PICK t \in Calls :
            b = [login |-> t, device |-> NoDevice, expires |-> token[t].expires]
      BY <2>4 DEF Bearers
    <3>2. t = x.login /\ clock < token[t].expires
      BY <2>4, <3>1 DEF Accepts
    <3>3. QED
      BY <2>3, <3>2
  <2>5. token[x.login].revoked
    BY <2>1 DEF Fading
  <2>6. QED
    BY <2>2, <2>4, <2>5
<1>2. Requesting /\ TrustInv /\ [Next]_vars => (Requesting /\ TrustInv)'
  BY RequestingStep, TrustStep
<1>3. QED
  BY RequestingInit, TrustInit, <1>1, <1>2, PTL DEF Spec

-----------------------------------------------------------------------------
(* Grants                                                                  *)

Times == Nat \cup {Never}
Standing == {<<>>} \cup {<<e>> : e \in Times}

Granted ==
  /\ permission \in [Calls -> PermissionRow]
  /\ standing \in [AllTargets -> Standing]
  /\ doubled \in BOOLEAN

\* A row is named by the grant that has inserted it.
Inserted ==
  /\ \A p \in Calls : permission[p].stored => pc[p] = "done"
  /\ \A c \in Calls : pc[c] = "granting" => Kind(c) = "grant"

\* What no longer stands is revoked in every row there is of it.
Withdrawn ==
  \A t \in AllTargets : standing[t] = <<>> => \A p \in RowsOf(t) : permission[p].revoked

\* What stands has one row that says so.
Upheld ==
  ~doubled =>
    /\ \A t \in AllTargets : \A p, q \in RowsOf(t) : p = q
    /\ \A t \in AllTargets : standing[t] # <<>> =>
         \E p \in RowsOf(t) : ~permission[p].revoked /\ permission[p].expires = standing[t][1]

GrantInv == Granted /\ Inserted /\ Withdrawn /\ Upheld

LEMMA Single ==
  ASSUME NEW e
  PROVE  <<e>> # <<>> /\ <<e>>[1] = e
  OBVIOUS

LEMMA GrantInit == Init => GrantInv
<1> SUFFICES ASSUME Init PROVE GrantInv
  OBVIOUS
<1>1. \A c \in Calls : pc[c] = "sent" /\ ~permission[c].stored
  BY DEF Init
<1>2. Granted
  <2>1. permission \in [Calls -> PermissionRow]
    BY DEF Init, PermissionRow, AllTargets
  <2>2. standing \in [AllTargets -> Standing] /\ doubled \in BOOLEAN
    BY DEF Init, Standing
  <2>3. QED
    BY <2>1, <2>2 DEF Granted
<1>3. \A t \in AllTargets : RowsOf(t) = {} /\ standing[t] = <<>>
  BY <1>1 DEF Init, RowsOf
<1>4. QED
  BY <1>1, <1>2, <1>3 DEF GrantInv, Inserted, Withdrawn, Upheld

LEMMA GrantsAside ==
  ASSUME Requesting, GrantInv, UNCHANGED <<grants, request>>,
         \A c \in Calls : pc[c] = "done" => pc'[c] = "done",
         \A c \in Calls : pc'[c] = "granting" => pc[c] = "granting"
  PROVE  GrantInv'
<1>1. UNCHANGED <<permission, standing, doubled>>
  BY DEF grants
<1>2. \A t \in AllTargets : RowsOf(t)' = RowsOf(t)
  BY <1>1 DEF RowsOf
<1>3. Granted' /\ Inserted'
  BY <1>1 DEF GrantInv, Granted, Inserted, Kind
<1>4. Withdrawn' /\ Upheld'
  BY <1>1, <1>2 DEF GrantInv, Withdrawn, Upheld
<1>5. QED
  BY <1>3, <1>4 DEF GrantInv

\* The rows a grant writes are those there are of its target, or a new one.
LEMMA GrantKeeps ==
  ASSUME Requesting, GrantInv, NEW c \in Calls, Moves(c, "done"), Kind(c) = "grant",
         NEW target, target = request[c].target,
         NEW rows \in SUBSET Calls, Grant(c, rows), doubled' \in BOOLEAN,
         \/ rows = RowsOf(target) /\ rows # {} /\ doubled' = doubled
         \/ rows = {c} /\ ~permission[c].stored /\ doubled' = (doubled \/ RowsOf(target) # {})
  PROVE  GrantInv'
<1> DEFINE row(p) == [stored |-> TRUE, target |-> target, expires |-> Expiry(c),
                      revoked |-> FALSE]
<1>1. target \in AllTargets /\ Expiry(c) \in Times
  <2>1. request[c] \in Requests /\ request[c].kind = "grant"
    BY DEF Requesting, Kind
  <2>2. target \in AllTargets /\ request[c].life \in Nat \cup {Never}
    BY <2>1, Asked
  <2>3. QED
    BY <2>2 DEF Expiry, Times, Requesting
<1>2. /\ permission' = [p \in Calls |-> IF p \in rows THEN row(p) ELSE permission[p]]
      /\ standing' = [standing EXCEPT ![target] = <<Expiry(c)>>]
  BY DEF Grant
<1>3. \A p \in Calls : row(p) \in PermissionRow /\ row(p).stored /\ row(p).target = target
                       /\ row(p).expires = Expiry(c) /\ ~row(p).revoked
  BY <1>1 DEF PermissionRow, Times
<1> HIDE DEF row
<1>4. Granted'
  <2>1. <<Expiry(c)>> \in Standing
    BY <1>1 DEF Standing
  <2>2. QED
    BY <1>2, <1>3, <2>1 DEF GrantInv, Granted
<1>5. standing'[target] = <<Expiry(c)>> /\ standing'[target] # <<>>
      /\ standing'[target][1] = Expiry(c)
  BY <1>1, <1>2, Single DEF GrantInv, Granted
<1>6. \A t \in AllTargets : t # target => standing'[t] = standing[t]
  BY <1>2 DEF GrantInv, Granted
<1>7. \A p \in Calls : permission'[p] = IF p \in rows THEN row(p) ELSE permission[p]
  BY <1>2
<1>8. \A t \in AllTargets : t # target => RowsOf(t)' = RowsOf(t)
  BY <1>3, <1>7 DEF RowsOf
<1>9. \A t \in AllTargets : t # target => \A p \in RowsOf(t) : permission'[p] = permission[p]
  BY <1>3, <1>7 DEF RowsOf
<1>10. RowsOf(target)' = RowsOf(target) \cup rows
  <2>1. \A p \in Calls : p \in RowsOf(target)' <=> p \in RowsOf(target) \cup rows
    BY <1>3, <1>7 DEF RowsOf
  <2>2. QED
    BY <2>1 DEF RowsOf
<1>11. Inserted'
  <2>1. \A p \in rows : permission[p].stored \/ p = c
    BY DEF RowsOf
  <2>2. \A p \in Calls : permission'[p].stored => pc'[p] = "done"
    BY <1>7, <2>1 DEF GrantInv, Inserted, Moves, Requesting
  <2>3. \A d \in Calls : pc'[d] = "granting" => Kind(d)' = "grant"
    BY DEF GrantInv, Inserted, Moves, Requesting, Kind
  <2>4. QED
    BY <2>2, <2>3 DEF Inserted
<1>12. Withdrawn'
  BY <1>5, <1>6, <1>8, <1>9 DEF GrantInv, Withdrawn
<1>13. Upheld'
  <2> SUFFICES ASSUME ~doubled' PROVE Upheld'
    BY DEF Upheld
  <2>1. ~doubled /\ rows # {} /\ (rows = RowsOf(target) \/ RowsOf(target) = {})
    OBVIOUS
  <2>2. \A p, q \in RowsOf(target)' : p = q
    BY <1>1, <1>10, <2>1 DEF GrantInv, Upheld
  <2>3. \A t \in AllTargets : \A p, q \in RowsOf(t)' : p = q
    BY <1>8, <2>1, <2>2 DEF GrantInv, Upheld
  <2>4. \E p \in RowsOf(target)' : ~permission'[p].revoked
                                /\ permission'[p].expires = standing'[target][1]
    BY <1>3, <1>5, <1>7, <1>10, <2>1
  <2>5. ASSUME NEW t \in AllTargets, t # target, standing'[t] # <<>>
        PROVE  \E p \in RowsOf(t)' : ~permission'[p].revoked
                                   /\ permission'[p].expires = standing'[t][1]
    BY <1>6, <1>8, <1>9, <2>1, <2>5 DEF GrantInv, Upheld
  <2>6. QED
    BY <2>3, <2>4, <2>5 DEF Upheld
<1>14. QED
  BY <1>4, <1>11, <1>12, <1>13 DEF GrantInv

LEMMA RevokeKeeps ==
  ASSUME Requesting, GrantInv, NEW c \in Calls, Revoke(c)
  PROVE  GrantInv'
<1>1. PICK hit : /\ permission' = [p \in Calls |->
                      IF permission[p].stored /\ permission[p].target \in hit
                      THEN [permission[p] EXCEPT !.revoked = TRUE] ELSE permission[p]]
                 /\ standing' = [t \in AllTargets |-> IF t \in hit THEN <<>> ELSE standing[t]]
  BY DEF Revoke
<1>2. Moves(c, "done") /\ UNCHANGED doubled
  BY AnswerMoves DEF Revoke
<1>3. \A p \in Calls : /\ permission[p] \in PermissionRow
                       /\ [permission[p] EXCEPT !.revoked = TRUE] \in PermissionRow
  BY DEF GrantInv, Granted, PermissionRow
<1>4. Granted'
  BY <1>1, <1>2, <1>3 DEF GrantInv, Granted, Standing
<1>5. \A p \in Calls : /\ permission'[p].stored = permission[p].stored
                       /\ permission'[p].target = permission[p].target
                       /\ permission'[p].expires = permission[p].expires
                       /\ permission[p].revoked => permission'[p].revoked
                       /\ permission[p].stored /\ permission[p].target \in hit
                            => permission'[p].revoked
                       /\ permission[p].target \notin hit => permission'[p] = permission[p]
  BY <1>1, <1>3 DEF PermissionRow
<1>6. \A t \in AllTargets : RowsOf(t)' = RowsOf(t)
  BY <1>5 DEF RowsOf
<1>7. \A t \in AllTargets : standing'[t] = IF t \in hit THEN <<>> ELSE standing[t]
  BY <1>1
<1>8. Inserted'
  BY <1>2, <1>5 DEF GrantInv, Inserted, Moves, Requesting, Kind
<1>9. Withdrawn'
  BY <1>5, <1>6, <1>7 DEF GrantInv, Withdrawn, RowsOf
<1>10. Upheld'
  <2> SUFFICES ASSUME ~doubled PROVE Upheld'
    BY <1>2 DEF Upheld
  <2>1. ASSUME NEW t \in AllTargets, standing'[t] # <<>>
        PROVE  \E p \in RowsOf(t)' : ~permission'[p].revoked
                                   /\ permission'[p].expires = standing'[t][1]
    <3>1. t \notin hit /\ standing'[t] = standing[t]
      BY <1>7, <2>1
    <3>2. PICK p \in RowsOf(t) : ~permission[p].revoked /\ permission[p].expires = standing[t][1]
      BY <2>1, <3>1 DEF GrantInv, Upheld
    <3>3. permission'[p] = permission[p]
      BY <1>5, <3>1 DEF RowsOf
    <3>4. QED
      BY <1>6, <3>1, <3>2, <3>3
  <2>2. QED
    BY <1>6, <2>1 DEF GrantInv, Upheld
<1>11. QED
  BY <1>4, <1>8, <1>9, <1>10 DEF GrantInv

LEMMA GrantStep ==
  ASSUME Requesting, GrantInv, [Next]_vars
  PROVE  GrantInv'
<1>1. ASSUME NEW c \in Calls, Regrant(c) PROVE GrantInv'
  <2>1. Moves(c, "done") /\ Kind(c) = "grant" /\ UNCHANGED doubled
    BY <1>1, AnswerMoves DEF Regrant
  <2>2. CASE UNCHANGED <<permission, standing>>
    BY <2>1, <2>2, GrantsAside DEF grants, Moves, Requesting
  <2>3. CASE Grant(c, RowsOf(request[c].target))
    <3>1. RowsOf(request[c].target) \in SUBSET Calls /\ RowsOf(request[c].target) # {}
          /\ doubled' \in BOOLEAN
      BY <1>1, <2>1 DEF Regrant, RowsOf, GrantInv, Granted
    <3>2. QED
      BY <2>1, <2>3, <3>1, GrantKeeps
  <2>4. QED
    BY <1>1, <2>2, <2>3 DEF Regrant
<1>2. ASSUME NEW c \in Calls, InsertGrant(c) PROVE GrantInv'
  <2> DEFINE rows == RowsOf(request[c].target)
  <2>1. Moves(c, "done") /\ pc[c] = "granting"
    BY <1>2, AnswerMoves DEF InsertGrant
  <2>2. /\ Grant(c, IF rows = {} \/ request[c].target = Everything THEN {c} ELSE rows)
        /\ doubled' = (doubled \/ (rows # {} /\ request[c].target = Everything))
    BY <1>2 DEF InsertGrant
  <2>3. Kind(c) = "grant" /\ ~permission[c].stored
    BY <2>1 DEF GrantInv, Inserted
  <2>4. doubled \in BOOLEAN /\ doubled' \in BOOLEAN
    BY <2>2 DEF GrantInv, Granted
  <2>5. rows \in SUBSET Calls
    BY DEF RowsOf
  <2>6. CASE rows = {} \/ request[c].target = Everything
    <3>1. Grant(c, {c}) /\ doubled' = (doubled \/ rows # {})
      BY <2>2, <2>6
    <3>2. QED
      BY <2>1, <2>3, <2>4, <3>1, GrantKeeps
  <2>7. CASE ~(rows = {} \/ request[c].target = Everything)
    <3>1. Grant(c, rows) /\ doubled' = doubled /\ rows # {}
      BY <2>2, <2>4, <2>7
    <3>2. QED
      BY <2>1, <2>3, <2>4, <2>5, <3>1, GrantKeeps
  <2>8. QED
    BY <2>6, <2>7
<1>3. ASSUME NEW c \in Calls, FindNoGrant(c) PROVE GrantInv'
  <2>1. /\ UNCHANGED <<permission, standing, doubled, request>>
        /\ pc' = [pc EXCEPT ![c] = "granting"] /\ pc[c] = "sent" /\ Kind(c) = "grant"
    BY <1>3 DEF FindNoGrant, Goto, grants
  <2>2. \A t \in AllTargets : RowsOf(t)' = RowsOf(t)
    BY <2>1 DEF RowsOf
  <2>3. Granted' /\ Inserted'
    BY <2>1 DEF GrantInv, Granted, Inserted, Requesting, Kind
  <2>4. Withdrawn' /\ Upheld'
    BY <2>1, <2>2 DEF GrantInv, Withdrawn, Upheld
  <2>5. QED
    BY <2>3, <2>4 DEF GrantInv
<1>4. ASSUME NEW c \in Calls, AboutPassword(c) \/ AboutTrust(c) \/ Crash(c) PROVE GrantInv'
  <2>1. PICK stage \in PasswordStages \cup TrustStages \cup {"dead"} : Moves(c, stage)
    BY <1>4, PasswordMoves, TrustMoves, CrashMoves
  <2>2. UNCHANGED <<grants, request>>
    BY <1>4, <2>1, PasswordMoves, TrustMoves, CrashMoves DEF Moves
  <2>3. stage # "granting"
    BY <2>1 DEF PasswordStages, TrustStages
  <2>4. QED
    BY <2>1, <2>2, <2>3, GrantsAside DEF Moves, Requesting
<1>5. CASE CleanupSessions \/ CleanupInactiveDevices \/ Tick \/ UNCHANGED vars
  <2>1. UNCHANGED <<grants, request, pc>>
    BY <1>5 DEF CleanupSessions, CleanupInactiveDevices, Tick, vars
  <2>2. QED
    BY <2>1, GrantsAside
<1>6. QED
  BY <1>1, <1>2, <1>3, <1>4, <1>5, RevokeKeeps, Steps DEF Granting

\* PermissionService.check_permission agrees with the grants and revocations as they
\* were committed: a revoked one is refused in every row, and one that stands is found,
\* unless two first grants for everything left two rows.
THEOREM GrantsAreKept == Spec => []PermissionsAsGranted
<1>1. Requesting /\ GrantInv => PermissionsAsGranted
  <2> SUFFICES ASSUME Requesting, GrantInv PROVE PermissionsAsGranted
    OBVIOUS
  <2> DEFINE Stands(t) == standing[t] # <<>> /\ (standing[t][1] = Never \/ standing[t][1] >= clock)
             Valid(t) == \E p \in RowsOf(t) : IsValid(p)
  <2>1. Everything \in AllTargets
    BY DEF AllTargets
  <2>2. ASSUME NEW t \in AllTargets
        PROVE  CheckPermission(t) <=> Valid(t) \/ Valid(Everything)
    BY DEF CheckPermission, RowsOf
  <2>3. ASSUME NEW t \in AllTargets, standing[t] = <<>> PROVE ~Valid(t)
    BY <2>3 DEF GrantInv, Withdrawn, IsValid
  <2>4. ASSUME ~doubled, NEW t \in AllTargets PROVE Valid(t) <=> Stands(t)
    <3>1. ASSUME NEW p \in RowsOf(t), IsValid(p) PROVE Stands(t)
      <4>1. standing[t] # <<>>
        BY <2>3, <3>1
      <4>2. permission[p].expires = standing[t][1]
        BY <2>4, <4>1 DEF GrantInv, Upheld
      <4>3. QED
        BY <3>1, <4>1, <4>2 DEF IsValid
    <3>2. ASSUME Stands(t) PROVE Valid(t)
      BY <2>4, <3>2 DEF GrantInv, Upheld, IsValid
    <3>3. QED
      BY <3>1, <3>2
  <2> HIDE DEF Valid
  <2>5. ASSUME NEW t \in AllTargets
        PROVE  /\ standing[t] = <<>> /\ standing[Everything] = <<>> => ~CheckPermission(t)
               /\ ~doubled => (CheckPermission(t) <=> Stands(t) \/ Stands(Everything))
    BY <2>1, <2>2, <2>3, <2>4
  <2>6. QED
    BY <2>5 DEF PermissionsAsGranted
<1>2. Requesting /\ GrantInv /\ [Next]_vars => (Requesting /\ GrantInv)'
  BY RequestingStep, GrantStep
<1>3. QED
  BY RequestingInit, GrantInit, <1>1, <1>2, PTL DEF Spec

\* Rows, tokens and what requests hold keep their types through every overlap.
THEOREM TypeCorrect == Spec => []TypeOK
<1>1. Requesting /\ PasswordInv /\ TrustInv /\ GrantInv => TypeOK
  BY DEF Requesting, PasswordInv, Counters, TrustInv, Tokened, GrantInv, Granted, TypeOK
<1>2. Init => Requesting /\ PasswordInv /\ TrustInv /\ GrantInv
  BY RequestingInit, PasswordInit, TrustInit, GrantInit
<1>3. Requesting /\ PasswordInv /\ TrustInv /\ GrantInv /\ [Next]_vars
        => (Requesting /\ PasswordInv /\ TrustInv /\ GrantInv)'
  BY RequestingStep, PasswordStep, TrustStep, GrantStep
<1>4. QED
  BY <1>1, <1>2, <1>3, PTL DEF Spec
=============================================================================

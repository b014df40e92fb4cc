--------------------------- MODULE PaymentsProofs ---------------------------
(***************************************************************************)
(* The safety properties of Payments, for all wallets, payments, drafts    *)
(* and requests, any number of overlapping requests, and any limits.       *)
(***************************************************************************)
EXTENDS Payments, FiniteSetTheorems, TLAPS

\* Stages that only webhooks reach.
Webhook == {"received", "averaged", "counted", "scored", "rejected", "accepted",
            "settled", "declined"}

\* The draft of a payment never changes, and a stage fits what the call asks.
Base ==
  /\ TypeOK
  /\ \A c \in Calls :
       /\ obj[c].draft = payment[About(c)].draft
       /\ pc[c] \in Webhook => request[c].kind = "webhook"
       /\ pc[c] = "patching" => request[c].kind = "patch"
       /\ pc[c] \in {"accepted", "settled"} => request[c].success

-----------------------------------------------------------------------------
(* Types                                                                   *)

LEMMA Constants ==
  /\ \A d \in Drafts : d.wallet \in Wallets /\ d.amount \in Int
                       /\ d.direction \in {"deposit", "withdraw", "other"}
  /\ \A q \in Requests :
       /\ q.payment \in Payments
       /\ q.kind \in {"webhook", "patch"}
       /\ q.kind = "patch" => q.credits \in Int \cup {NoCredits}
  BY PaymentsAssumption

LEMMA InitType == Init => TypeOK
<1> SUFFICES ASSUME Init PROVE TypeOK
  OBVIOUS
<1>1. PICK d \in [Payments -> Drafts] : payment = [p \in Payments |-> NewRow(d[p])]
  BY DEF Init
<1>2. \A x \in Drafts : NewRow(x) \in PaymentRow
  <2> SUFFICES ASSUME NEW x \in Drafts PROVE NewRow(x) \in PaymentRow
    OBVIOUS
  <2>1. x.amount * Rate \in Int
    BY Constants, PaymentsAssumption
  <2>2. QED
    BY <2>1 DEF NewRow, PaymentRow, Statuses
<1>3. payment \in [Payments -> PaymentRow]
  BY <1>1, <1>2
<1>4. request \in [Calls -> Requests] /\ obj \in [Calls -> PaymentRow]
  BY <1>3, Constants DEF Init
<1>5. /\ balance \in [Wallets -> Int] /\ frozen \in [Wallets -> BOOLEAN]
  BY PaymentsAssumption DEF Init, Book!Init
<1>6. /\ age \in [Payments -> 0..2] /\ settled \in [Payments -> Nat]
      /\ pc \in [Calls -> Stages] /\ crashes \in 0..MaxCrashes
  BY PaymentsAssumption DEF Init, Stages
<1>7. QED
  BY <1>3, <1>4, <1>5, <1>6 DEF TypeOK

\* What a save of a status does to the row, and to no other.
LEMMA Saved ==
  ASSUME TypeOK, NEW c \in Calls, NEW status \in Statuses, SaveStatus(c, status)
  PROVE  /\ payment' \in [Payments -> PaymentRow]
         /\ \A p \in Payments : p # About(c) => payment'[p] = payment[p]
         /\ payment'[About(c)].status = status
         /\ payment'[About(c)].flags = obj[c].flags
         /\ payment'[About(c)].draft = payment[About(c)].draft
         /\ payment'[About(c)].credits = payment[About(c)].credits
<1>1. About(c) \in Payments
  BY Constants DEF TypeOK, About
<1>2. /\ payment \in [Payments -> PaymentRow] /\ obj[c] \in PaymentRow
  BY DEF TypeOK
<1>3. payment' = [payment EXCEPT ![About(c)] =
                    [[@ EXCEPT !.status = status] EXCEPT !.flags = obj[c].flags]]
  BY <1>1, <1>2 DEF SaveStatus
<1>4. QED
  BY <1>1, <1>2, <1>3 DEF PaymentRow

\* A request goes to a stage that it has not ended in, and leaves the others alone.
LEMMA Went ==
  ASSUME TypeOK, NEW c \in Calls, NEW stage \in Stages, Goto(c, stage)
  PROVE  /\ pc' \in [Calls -> Stages] /\ pc'[c] = stage
         /\ \A d \in Calls : d # c => pc'[d] = pc[d]
  BY DEF TypeOK, Goto

\* The three queries add to the flags of the object.
LEMMA Checked ==
  ASSUME TypeOK, NEW c \in Calls, NEW from, NEW to \in Stages, NEW found \in SUBSET Flags,
         Check(c, from, to, found)
  PROVE  /\ obj' \in [Calls -> PaymentRow]
         /\ \A d \in Calls : d # c => obj'[d] = obj[d]
         /\ obj'[c].draft = obj[c].draft /\ obj'[c].credits = obj[c].credits
         /\ obj'[c].flags = obj[c].flags \cup found
<1>1. obj \in [Calls -> PaymentRow]
  BY DEF TypeOK
<1>2. obj' = [obj EXCEPT ![c] = [obj[c] EXCEPT !.flags = obj[c].flags \cup found]]
  BY <1>1 DEF Check
<1>3. QED
  BY <1>1, <1>2 DEF PaymentRow

LEMMA Checks ==
  ASSUME NEW c \in Calls, CheckAmount(c) \/ CheckVelocity(c) \/ CheckDuplicate(c)
  PROVE  \E from \in {"received", "averaged", "counted"}, to \in {"averaged", "counted", "scored"},
            found \in SUBSET Flags : Check(c, from, to, found)
<1>1. CASE CheckAmount(c)
  <2> DEFINE found == IF Anomalous(c) THEN {"amount_anomaly"} ELSE {}
  <2>1. found \in SUBSET Flags /\ Check(c, "received", "averaged", found)
    BY <1>1 DEF CheckAmount, Flags
  <2>2. QED
    BY <2>1
<1>2. CASE CheckVelocity(c)
  <2> DEFINE found == IF Hurried(c) THEN {"velocity"} ELSE {}
  <2>1. found \in SUBSET Flags /\ Check(c, "averaged", "counted", found)
    BY <1>2 DEF CheckVelocity, Flags
  <2>2. QED
    BY <2>1
<1>3. CASE CheckDuplicate(c)
  <2> DEFINE found == (IF request[c].geo THEN {"geo_mismatch"} ELSE {})
                        \cup (IF Repeated(c) THEN {"possible_duplicate"} ELSE {})
  <2>1. found \in SUBSET Flags /\ Check(c, "counted", "scored", found)
    BY <1>3 DEF CheckDuplicate, Flags
  <2>2. QED
    BY <2>1
<1>4. QED
  BY <1>1, <1>2, <1>3

\* What the object is after the first SELECT of a webhook and of a PATCH.
LEMMA Got ==
  ASSUME TypeOK, NEW c \in Calls, Receive(c) \/ PatchRead(c)
  PROVE  /\ obj' \in [Calls -> PaymentRow]
         /\ \A d \in Calls : d # c => obj'[d] = obj[d]
         /\ obj'[c].draft = payment[About(c)].draft
         /\ obj'[c].status = payment[About(c)].status
         /\ Receive(c) => obj'[c].flags = {} /\ obj'[c].credits = payment[About(c)].credits
         /\ PatchRead(c) => obj'[c].flags = payment[About(c)].flags
<1>1. /\ About(c) \in Payments /\ payment[About(c)] \in PaymentRow
      /\ obj \in [Calls -> PaymentRow] /\ request[c] \in Requests
  BY Constants DEF TypeOK, About
<1>2. CASE Receive(c)
  <2>1. /\ obj' = [obj EXCEPT ![c] = [payment[About(c)] EXCEPT !.flags = {}]]
        /\ request[c].kind = "webhook"
    BY <1>2 DEF Receive
  <2>2. ~PatchRead(c)
    BY <2>1 DEF PatchRead
  <2>3. QED
    BY <1>1, <2>1, <2>2 DEF PaymentRow
<1>3. CASE PatchRead(c)
  <2>1. /\ obj' = [obj EXCEPT ![c] = [payment[About(c)] EXCEPT !.credits = request[c].credits]]
        /\ request[c].kind = "patch"
    BY <1>3 DEF PatchRead
  <2>2. ~Receive(c) /\ request[c].credits \in Int \cup {NoCredits}
    BY <1>1, <2>1, Constants DEF Receive
  <2>3. QED
    BY <1>1, <2>1, <2>2 DEF PaymentRow
<1>4. QED
  BY <1>2, <1>3

-----------------------------------------------------------------------------
(* The common part of all invariants                                       *)

LEMMA InitBase == Init => Base
<1> SUFFICES ASSUME Init PROVE Base
  OBVIOUS
<1>1. TypeOK
  BY InitType
<1>2. \A c \in Calls : obj[c] = payment[About(c)] /\ pc[c] = "sent"
  BY DEF Init, About
<1>3. QED
  BY <1>1, <1>2 DEF Base, Webhook

\* Base survives a step that leaves the book and the types in order.
LEMMA BaseKept ==
  ASSUME Base, TypeOK', UNCHANGED request,
         \A p \in Payments : payment'[p].draft = payment[p].draft,
         \A c \in Calls :
           /\ obj'[c].draft = obj[c].draft \/ obj'[c].draft = payment[About(c)].draft
           /\ \/ pc'[c] = pc[c] \/ Ended(c)'
              \/ pc'[c] \in Webhook /\ request[c].kind = "webhook"
                 /\ (pc'[c] \in {"accepted", "settled"} => request[c].success)
              \/ pc'[c] = "patching" /\ request[c].kind = "patch"
  PROVE  Base'
<1> SUFFICES ASSUME NEW c \in Calls
             PROVE  /\ obj'[c].draft = payment'[About(c)].draft
                    /\ pc'[c] \in Webhook => request[c].kind = "webhook"
                    /\ pc'[c] = "patching" => request[c].kind = "patch"
                    /\ pc'[c] \in {"accepted", "settled"} => request[c].success
  BY DEF Base, About
<1>1. About(c) \in Payments
  BY Constants DEF Base, TypeOK, About
<1>2. obj'[c].draft = payment'[About(c)].draft
  BY <1>1 DEF Base
<1>3. QED
  BY <1>2 DEF Base, Webhook, Ended

LEMMA EnvironmentBase ==
  ASSUME Base, (\E p \in Payments : CreatePayment(p) \/ Ageing(p)) \/ ExpirePending
  PROVE  Base'
<1>1. ASSUME NEW p \in Payments, CreatePayment(p) PROVE Base'
  <2>1. /\ payment' = [payment EXCEPT ![p] = [payment[p] EXCEPT !.status = "pending"]]
        /\ UNCHANGED <<age, settled, request, pc, obj, crashes, book>>
    BY <1>1 DEF CreatePayment, Base, TypeOK
  <2>2. payment[p] \in PaymentRow /\ payment \in [Payments -> PaymentRow]
    BY DEF Base, TypeOK
  <2>3. LET row == [payment[p] EXCEPT !.status = "pending"]
        IN  row \in PaymentRow /\ row.draft = payment[p].draft
    BY <2>2 DEF PaymentRow, Statuses
  <2>4. /\ payment' \in [Payments -> PaymentRow]
        /\ \A q \in Payments : payment'[q].draft = payment[q].draft
    BY <2>1, <2>2, <2>3
  <2>5. TypeOK'
    BY <2>1, <2>4 DEF Base, TypeOK, book
  <2>6. QED
    BY <2>1, <2>4, <2>5, BaseKept
<1>2. ASSUME NEW p \in Payments, Ageing(p) PROVE Base'
  <2>1. /\ age' = [age EXCEPT ![p] = @ + 1] /\ age[p] < MaxAge[p]
        /\ UNCHANGED <<payment, settled, request, pc, obj, crashes, book>>
    BY <1>2 DEF Ageing
  <2>2. MaxAge[p] \in 0..2 /\ age \in [Payments -> 0..2]
    BY PaymentsAssumption DEF Base, TypeOK
  <2>3. age' \in [Payments -> 0..2]
    BY <2>1, <2>2
  <2>4. TypeOK'
    BY <2>1, <2>3 DEF Base, TypeOK, book
  <2>5. QED
    BY <2>1, <2>4, BaseKept
<1>3. ASSUME ExpirePending PROVE Base'
  <2>1. /\ \A q \in Payments :
             payment'[q] = IF q \in Expired THEN [payment[q] EXCEPT !.status = "failed"]
                                            ELSE payment[q]
        /\ payment' = [q \in Payments |-> payment'[q]]
        /\ UNCHANGED <<age, settled, request, pc, obj, crashes, book>>
    BY <1>3 DEF ExpirePending
  <2>2. ASSUME NEW q \in Payments
        PROVE  payment'[q] \in PaymentRow /\ payment'[q].draft = payment[q].draft
    <3>1. payment[q] \in PaymentRow
      BY DEF Base, TypeOK
    <3>2. LET row == [payment[q] EXCEPT !.status = "failed"]
          IN  row \in PaymentRow /\ row.draft = payment[q].draft
      BY <3>1 DEF PaymentRow, Statuses
    <3>3. payment'[q] = payment[q] \/ payment'[q] = [payment[q] EXCEPT !.status = "failed"]
      BY <2>1
    <3>4. QED
      BY <3>1, <3>2, <3>3
  <2>3. TypeOK'
    BY <2>1, <2>2 DEF Base, TypeOK, book
  <2>4. QED
    BY <2>1, <2>2, <2>3, BaseKept
<1>4. QED
  BY <1>1, <1>2, <1>3

LEMMA SettleBook ==
  ASSUME Base, NEW c \in Calls, Settle(c)
  PROVE  balance' \in [Wallets -> Int] /\ UNCHANGED frozen
<1>1. /\ WalletOf(c) \in Wallets
      /\ obj[c].credits # NoCredits => obj[c].credits \in Int
  BY Constants DEF Base, TypeOK, PaymentRow, WalletOf
<1>2. CASE Credit(c)
  BY <1>1, <1>2 DEF Credit, Book!Mint, Base, TypeOK
<1>3. CASE Debit(c)
  BY <1>1, <1>3 DEF Debit, Book!Burn, Base, TypeOK
<1>4. QED
  BY <1>2, <1>3 DEF Settle

\* The steps of a webhook that change nothing but its stage, and where they lead.
Quiet(c) ==
  RefuseUnknown(c) \/ FailToSettle(c) \/ SettleNothing(c) \/ Answer(c) \/ FailToAnswer(c)

LEMMA Quietly ==
  ASSUME Base, NEW c \in Calls, Quiet(c)
  PROVE  /\ UNCHANGED <<payment, age, settled, request, obj, crashes, book>>
         /\ \/ pc[c] \in {"sent", "declined"} /\ Goto(c, "refused")
            \/ pc[c] \in {"accepted", "settled", "declined"} /\ Goto(c, "error")
            \/ /\ pc[c] = "accepted" /\ Goto(c, "settled") /\ SettleNothing(c)
               /\ payment[About(c)].draft.direction = "other"
            \/ pc[c] = "settled" /\ Goto(c, "done")
<1>1. obj[c].draft = payment[About(c)].draft
  BY DEF Base
<1>2. QED
  BY <1>1 DEF Quiet, RefuseUnknown, FailToSettle, SettleNothing, Answer, FailToAnswer

LEMMA CallBase ==
  ASSUME Base, NEW c \in Calls, Step(c) \/ Crash(c)
  PROVE  /\ Base' /\ UNCHANGED <<age, request>> /\ ~Ended(c) /\ About(c) \in Payments
         /\ \A d \in Calls : d # c => pc'[d] = pc[d] /\ obj'[d] = obj[d]
         /\ \A p \in Payments : /\ p # About(c) => payment'[p] = payment[p]
                                /\ payment'[p].draft = payment[p].draft
<1> USE DEF Ended
<1>0. /\ TypeOK /\ About(c) \in Payments /\ request[c].kind \in {"webhook", "patch"}
  BY Constants DEF Base, TypeOK, About
<1>1. CASE Quiet(c)
  <2>1. PICK stage \in {"refused", "error", "settled", "done"} : Goto(c, stage)
    BY <1>1, Quietly
  <2>2. /\ pc[c] \in {"sent", "accepted", "settled", "declined"}
        /\ UNCHANGED <<payment, age, settled, request, obj, crashes, book>>
    BY <1>1, Quietly
  <2>3. /\ pc' \in [Calls -> Stages] /\ pc'[c] = stage
        /\ \A d \in Calls : d # c => pc'[d] = pc[d]
    BY <1>0, <2>1, Went DEF Stages
  <2>4. TypeOK'
    BY <2>2, <2>3 DEF Base, TypeOK, book
  <2>5. stage = "settled" => request[c].kind = "webhook" /\ request[c].success
    <3>1. stage = "settled" => pc[c] = "accepted"
      BY <1>0, <1>1, <2>3, Quietly, Went DEF Stages
    <3>2. QED
      BY <3>1 DEF Base, Webhook
  <2>6. QED
    BY <1>0, <2>2, <2>3, <2>4, <2>5, BaseKept DEF Webhook
<1>2. CASE Crash(c)
  <2>1. /\ Goto(c, "crashed") /\ ~Ended(c) /\ crashes < MaxCrashes /\ crashes' = crashes + 1
        /\ UNCHANGED <<payment, age, settled, request, obj, book>>
    BY <1>2 DEF Crash
  <2>2. /\ pc' \in [Calls -> Stages] /\ pc'[c] = "crashed"
        /\ \A d \in Calls : d # c => pc'[d] = pc[d]
    BY <1>0, <2>1, Went DEF Stages
  <2>3. TypeOK'
    BY <2>1, <2>2, PaymentsAssumption DEF Base, TypeOK, book
  <2>4. QED
    BY <1>0, <2>1, <2>2, <2>3, BaseKept
<1>3. CASE Receive(c) \/ PatchRead(c)
  <2>1. PICK stage \in {"received", "patching"} : Goto(c, stage)
                /\ (stage = "received" => request[c].kind = "webhook")
                /\ (stage = "patching" => request[c].kind = "patch")
    BY <1>3 DEF Receive, PatchRead
  <2>2. pc[c] = "sent" /\ UNCHANGED <<payment, age, settled, request, crashes, book>>
    BY <1>3 DEF Receive, PatchRead
  <2>3. /\ pc' \in [Calls -> Stages] /\ pc'[c] = stage
        /\ \A d \in Calls : d # c => pc'[d] = pc[d]
    BY <1>0, <2>1, Went DEF Stages
  <2>4. /\ obj' \in [Calls -> PaymentRow] /\ obj'[c].draft = payment[About(c)].draft
        /\ \A d \in Calls : d # c => obj'[d] = obj[d]
    BY <1>0, <1>3, Got
  <2>5. TypeOK'
    BY <2>2, <2>3, <2>4 DEF Base, TypeOK, book
  <2>6. QED
    BY <1>0, <2>1, <2>2, <2>3, <2>4, <2>5, BaseKept DEF Webhook
<1>4. CASE CheckAmount(c) \/ CheckVelocity(c) \/ CheckDuplicate(c)
  <2>1. PICK from \in {"received", "averaged", "counted"}, to \in {"averaged", "counted", "scored"},
             found \in SUBSET Flags : Check(c, from, to, found)
    BY <1>4, Checks
  <2>2. /\ pc[c] = from /\ Goto(c, to)
        /\ UNCHANGED <<payment, age, settled, request, crashes, book>>
    BY <2>1 DEF Check
  <2>3. /\ pc' \in [Calls -> Stages] /\ pc'[c] = to
        /\ \A d \in Calls : d # c => pc'[d] = pc[d]
    BY <1>0, <2>2, Went DEF Stages
  <2>4. /\ obj' \in [Calls -> PaymentRow] /\ obj'[c].draft = obj[c].draft
        /\ \A d \in Calls : d # c => obj'[d] = obj[d]
    <3>1. to \in Stages
      BY DEF Stages
    <3>2. QED
      BY <1>0, <2>1, <3>1, Checked
  <2>5. TypeOK'
    BY <2>2, <2>3, <2>4 DEF Base, TypeOK, book
  <2>6. request[c].kind = "webhook"
    BY <2>2 DEF Base, Webhook
  <2>7. QED
    BY <1>0, <2>2, <2>3, <2>4, <2>5, <2>6, BaseKept DEF Webhook
<1>5. CASE RejectFraud(c) \/ Accept(c) \/ Decline(c)
  <2>1. PICK status \in {"failed", "completed"} : SaveStatus(c, status)
    BY <1>5 DEF RejectFraud, Accept, Decline
  <2>2. PICK stage \in {"rejected", "accepted", "declined"} :
          Goto(c, stage) /\ (stage = "accepted" => request[c].success)
    BY <1>5 DEF RejectFraud, Accept, Decline
  <2>3. pc[c] = "scored" /\ UNCHANGED <<age, settled, request, obj, crashes, book>>
    BY <1>5 DEF RejectFraud, Accept, Decline
  <2>4. /\ pc' \in [Calls -> Stages] /\ pc'[c] = stage
        /\ \A d \in Calls : d # c => pc'[d] = pc[d]
    BY <1>0, <2>2, Went DEF Stages
  <2>5. /\ payment' \in [Payments -> PaymentRow]
        /\ \A p \in Payments : p # About(c) => payment'[p] = payment[p]
        /\ payment'[About(c)].draft = payment[About(c)].draft
    BY <1>0, <2>1, Saved DEF Statuses
  <2>6. TypeOK'
    BY <2>3, <2>4, <2>5 DEF Base, TypeOK, book
  <2>7. request[c].kind = "webhook"
    BY <2>3 DEF Base, Webhook
  <2>8. \A p \in Payments : payment'[p].draft = payment[p].draft
    BY <2>5
  <2>9. QED
    BY <1>0, <2>2, <2>3, <2>4, <2>5, <2>6, <2>7, <2>8, BaseKept DEF Webhook
<1>6. CASE FreezeWallet(c)
  <2>1. /\ pc[c] = "rejected" /\ Goto(c, "declined") /\ UNCHANGED balance
        /\ frozen' = [frozen EXCEPT ![WalletOf(c)] = TRUE]
        /\ UNCHANGED <<payment, age, settled, request, obj, crashes>>
    BY <1>6 DEF FreezeWallet, Book!SetFrozen
  <2>2. /\ pc' \in [Calls -> Stages] /\ pc'[c] = "declined"
        /\ \A d \in Calls : d # c => pc'[d] = pc[d]
    BY <1>0, <2>1, Went DEF Stages
  <2>3. frozen' \in [Wallets -> BOOLEAN]
    BY <1>0, <2>1 DEF TypeOK
  <2>4. TypeOK'
    BY <2>1, <2>2, <2>3 DEF Base, TypeOK
  <2>5. request[c].kind = "webhook"
    BY <2>1 DEF Base, Webhook
  <2>6. QED
    BY <1>0, <2>1, <2>2, <2>4, <2>5, BaseKept DEF Webhook
<1>7. CASE Settle(c)
  <2>1. /\ pc[c] = "accepted" /\ Goto(c, "settled")
        /\ settled' = [settled EXCEPT ![About(c)] = @ + 1]
        /\ UNCHANGED <<payment, age, request, obj, crashes>>
    BY <1>7 DEF Settle
  <2>2. /\ pc' \in [Calls -> Stages] /\ pc'[c] = "settled"
        /\ \A d \in Calls : d # c => pc'[d] = pc[d]
    BY <1>0, <2>1, Went DEF Stages
  <2>3. settled' \in [Payments -> Nat]
    BY <1>0, <2>1 DEF TypeOK
  <2>4. TypeOK'
    BY <1>7, <2>1, <2>2, <2>3, SettleBook DEF Base, TypeOK
  <2>5. request[c].kind = "webhook" /\ request[c].success
    BY <2>1 DEF Base, Webhook
  <2>6. QED
    BY <1>0, <2>1, <2>2, <2>4, <2>5, BaseKept DEF Webhook
<1>8. CASE PatchWrite(c)
  <2>1. /\ pc[c] = "patching" /\ Goto(c, "done")
        /\ payment' = [payment EXCEPT ![About(c)] = obj[c]]
        /\ UNCHANGED <<age, settled, request, obj, crashes, book>>
    BY <1>8 DEF PatchWrite
  <2>2. /\ pc' \in [Calls -> Stages] /\ pc'[c] = "done"
        /\ \A d \in Calls : d # c => pc'[d] = pc[d]
    BY <1>0, <2>1, Went DEF Stages
  <2>3. /\ payment' \in [Payments -> PaymentRow]
        /\ \A p \in Payments : p # About(c) => payment'[p] = payment[p]
        /\ payment'[About(c)] = obj[c]
    BY <1>0, <2>1 DEF TypeOK
  <2>4. TypeOK'
    BY <2>1, <2>2, <2>3 DEF Base, TypeOK, book
  <2>5. \A p \in Payments : payment'[p].draft = payment[p].draft
    BY <2>3 DEF Base
  <2>6. QED
    BY <1>0, <2>1, <2>2, <2>3, <2>4, <2>5, BaseKept
<1>9. QED
  BY <1>1, <1>2, <1>3, <1>4, <1>5, <1>6, <1>7, <1>8 DEF Step, Quiet

LEMMA NextBase ==
  ASSUME Base, [Next]_vars
  PROVE  Base'
<1>1. CASE UNCHANGED vars
  <2>1. UNCHANGED <<payment, age, settled, request, pc, obj, crashes, balance, frozen>>
    BY <1>1 DEF vars
  <2>2. TypeOK'
    BY <2>1 DEF Base, TypeOK
  <2>3. QED
    BY <2>1, <2>2, BaseKept
<1>2. QED
  BY <1>1, EnvironmentBase, CallBase DEF Next

\* Every reachable state is well typed.
THEOREM TypeCorrect == Spec => []TypeOK
<1>1. Base => TypeOK
  BY DEF Base
<1>2. QED
  BY InitBase, NextBase, <1>1, PTL DEF Spec

-----------------------------------------------------------------------------
(* Settlements                                                             *)

\* The deliveries that have settled for sure, and those that may have.
Held(p) == {c \in Successful(p) : pc[c] \in {"settled", "done"}}
Past(p) == {c \in Successful(p) : pc[c] \in {"settled", "done", "error", "crashed"}}

SettledInv ==
  \A p \in Payments :
    /\ payment[p].draft.direction # "other" => Cardinality(Held(p)) <= settled[p]
    /\ settled[p] <= Cardinality(Past(p))

\* An environment step changes nothing of the calls and of the book.
LEMMA EnvironmentFrame ==
  ASSUME TypeOK, (\E p \in Payments : CreatePayment(p) \/ Ageing(p)) \/ ExpirePending
  PROVE  /\ UNCHANGED <<settled, request, pc, obj, crashes, balance, frozen>>
         /\ \A p \in Payments :
              \/ payment'[p] = payment[p]
              \/ /\ payment[p].status \in {"absent", "pending"}
                 /\ payment'[p].status \in {"pending", "failed"}
                 /\ payment'[p].draft = payment[p].draft
                 /\ payment'[p].credits = payment[p].credits
                 /\ payment'[p].flags = payment[p].flags
<1>1. \A p \in Payments : payment[p] \in PaymentRow
  BY DEF TypeOK
<1>2. ASSUME NEW p \in Payments, CreatePayment(p)
      PROVE  /\ UNCHANGED <<settled, request, pc, obj, crashes, balance, frozen>>
             /\ payment[p].status = "absent"
             /\ payment' = [payment EXCEPT ![p] = [payment[p] EXCEPT !.status = "pending"]]
  BY <1>2 DEF CreatePayment, TypeOK, book
<1>3. ASSUME NEW p \in Payments, Ageing(p)
      PROVE  UNCHANGED <<payment, settled, request, pc, obj, crashes, balance, frozen>>
  BY <1>3 DEF Ageing, book
<1>4. ASSUME ExpirePending
      PROVE  /\ UNCHANGED <<settled, request, pc, obj, crashes, balance, frozen>>
             /\ \A p \in Payments :
                  payment'[p] = IF p \in Expired THEN [payment[p] EXCEPT !.status = "failed"]
                                                 ELSE payment[p]
  BY <1>4 DEF ExpirePending, book
<1>5. CASE \E p \in Payments : CreatePayment(p)
  <2>1. PICK p \in Payments : CreatePayment(p)
    BY <1>5
  <2>2. payment'[p] = [payment[p] EXCEPT !.status = "pending"]
        /\ \A q \in Payments : q # p => payment'[q] = payment[q]
    BY <1>2, <2>1 DEF TypeOK
  <2>3. QED
    BY <1>1, <1>2, <2>1, <2>2 DEF PaymentRow
<1>6. CASE ExpirePending
  BY <1>1, <1>4, <1>6 DEF Expired, PaymentRow
<1>7. QED
  BY <1>3, <1>5, <1>6

LEMMA FinitelyMany ==
  ASSUME NEW p
  PROVE  /\ IsFiniteSet(Held(p)) /\ Cardinality(Held(p)) \in Nat
         /\ IsFiniteSet(Past(p)) /\ Cardinality(Past(p)) \in Nat
<1>1. /\ IsFiniteSet(Calls)
      /\ Held(p) \in SUBSET Calls /\ Past(p) \in SUBSET Calls
  BY PaymentsAssumption DEF Held, Past, Successful, Deliveries
<1>2. QED
  BY <1>1, FS_Subset, FS_CardinalityType

LEMMA SettledInit == Init => SettledInv
<1> SUFFICES ASSUME Init, NEW p \in Payments
             PROVE  /\ Cardinality(Held(p)) <= settled[p]
                    /\ settled[p] <= Cardinality(Past(p))
  BY DEF SettledInv
<1>1. Held(p) = {} /\ settled[p] = 0
  BY DEF Init, Held, Successful, Deliveries
<1>2. QED
  BY <1>1, FS_EmptySet, FinitelyMany

\* A settlement adds its call to both sets; every other step keeps who is past the
\* commit and takes nobody new for settled, but where there is nothing to settle.
LEMMA SettledStep ==
  ASSUME Base, SettledInv, [Next]_vars
  PROVE  SettledInv'
<1> SUFFICES ASSUME NEW p \in Payments
             PROVE  /\ payment'[p].draft.direction # "other" => Cardinality(Held(p)') <= settled'[p]
                    /\ settled'[p] <= Cardinality(Past(p)')
  BY DEF SettledInv
<1>1. /\ payment[p].draft.direction # "other" => Cardinality(Held(p)) <= settled[p]
      /\ settled[p] <= Cardinality(Past(p)) /\ settled[p] \in Nat
  BY DEF SettledInv, Base, TypeOK
<1>2. /\ IsFiniteSet(Held(p)) /\ Cardinality(Held(p)) \in Nat
      /\ IsFiniteSet(Past(p)) /\ Cardinality(Past(p)) \in Nat
  BY FinitelyMany
<1>3. /\ IsFiniteSet(Held(p)') /\ Cardinality(Held(p)') \in Nat
      /\ IsFiniteSet(Past(p)') /\ Cardinality(Past(p)') \in Nat
  <2>1. /\ IsFiniteSet(Calls)
        /\ Held(p)' \in SUBSET Calls /\ Past(p)' \in SUBSET Calls
    BY PaymentsAssumption DEF Held, Past, Successful, Deliveries
  <2>2. QED
    BY <2>1, FS_Subset, FS_CardinalityType
<1>4. CASE /\ settled'[p] = settled[p] /\ payment'[p].draft = payment[p].draft
           /\ payment[p].draft.direction # "other" => Held(p)' \subseteq Held(p)
           /\ Past(p) \subseteq Past(p)'
  <2>1. Cardinality(Past(p)) <= Cardinality(Past(p)')
    BY <1>3, <1>4, FS_Subset
  <2>2. Held(p)' \subseteq Held(p) => Cardinality(Held(p)') <= Cardinality(Held(p))
    BY <1>2, FS_Subset
  <2>3. QED
    BY <1>1, <1>2, <1>3, <1>4, <2>1, <2>2
<1>5. ASSUME NEW c \in Calls, Step(c) \/ Crash(c)
      PROVE  /\ payment'[p].draft.direction # "other" => Cardinality(Held(p)') <= settled'[p]
             /\ settled'[p] <= Cardinality(Past(p)')
  <2>1. /\ UNCHANGED request /\ ~Ended(c) /\ payment'[p].draft = payment[p].draft
        /\ \A d \in Calls : d # c => pc'[d] = pc[d]
    <3>1. request' = request /\ \A d \in Calls : d # c => pc'[d] = pc[d]
      BY <1>5, CallBase
    <3>2. ~Ended(c)
      BY <1>5, CallBase
    <3>3. payment'[p].draft = payment[p].draft
      BY <1>5, CallBase
    <3>4. QED
      BY <3>1, <3>2, <3>3
  <2>2. Successful(p)' = Successful(p)
    BY <2>1 DEF Successful, Deliveries, About
  <2>3. CASE Settle(c) /\ p = About(c)
    <3>1. settled'[p] = settled[p] + 1 /\ pc[c] = "accepted" /\ Goto(c, "settled")
      BY <2>3 DEF Settle, Base, TypeOK
    <3>2. pc'[c] = "settled" /\ c \in Successful(p)
      BY <2>3, <3>1, Went DEF Base, Webhook, Stages, Successful, Deliveries
    <3>3. /\ Held(p)' = Held(p) \cup {c} /\ c \notin Held(p)
          /\ Past(p)' = Past(p) \cup {c} /\ c \notin Past(p)
      BY <2>1, <2>2, <3>1, <3>2 DEF Held, Past, Successful, Deliveries
    <3>4. /\ Cardinality(Held(p)') = Cardinality(Held(p)) + 1
          /\ Cardinality(Past(p)') = Cardinality(Past(p)) + 1
      BY <1>2, <3>3, FS_AddElement
    <3>5. QED
      BY <1>1, <1>2, <2>1, <3>1, <3>4
  <2>4. CASE Settle(c) /\ p # About(c)
    <3>1. settled'[p] = settled[p] /\ c \notin Successful(p)
      BY <2>4 DEF Settle, Base, TypeOK, Successful, Deliveries
    <3>2. Held(p)' = Held(p) /\ Past(p)' = Past(p)
      BY <2>1, <2>2, <3>1 DEF Held, Past, Successful, Deliveries
    <3>3. QED
      BY <1>4, <2>1, <3>1, <3>2
  <2>5. CASE Quiet(c) \/ Crash(c)
    <3>1. settled' = settled
      BY <2>5, Quietly DEF Crash
    <3>2. \/ pc[c] \notin {"settled", "accepted"} /\ pc'[c] = "refused"
          \/ pc'[c] \in {"error", "crashed"}
          \/ pc[c] = "settled" /\ pc'[c] = "done"
          \/ pc'[c] = "settled" /\ payment[About(c)].draft.direction = "other"
      BY <2>5, Quietly, Went DEF Base, Crash, Stages
    <3>3. Past(p) \subseteq Past(p)'
      <4>1. pc[c] \in {"settled", "done", "error", "crashed"}
              => pc'[c] \in {"settled", "done", "error", "crashed"}
        BY <2>1, <3>2 DEF Ended
      <4>2. \A d \in Successful(p) : d \in Calls
        BY DEF Successful, Deliveries
      <4>3. QED
        BY <2>1, <2>2, <4>1, <4>2 DEF Past
    <3>4. c \in Successful(p) => p = About(c)
      BY DEF Successful, Deliveries
    <3>5. payment[p].draft.direction # "other" => Held(p)' \subseteq Held(p)
      BY <2>1, <2>2, <3>2, <3>4 DEF Held, Successful, Deliveries
    <3>6. QED
      BY <1>4, <2>1, <3>1, <3>3, <3>5
  <2>6. CASE \/ Receive(c) \/ CheckAmount(c) \/ CheckVelocity(c) \/ CheckDuplicate(c)
             \/ RejectFraud(c) \/ FreezeWallet(c) \/ Accept(c) \/ Decline(c)
    <3>1. PICK stage \in {"received", "averaged", "counted", "scored", "rejected", "accepted",
                          "declined"} : Goto(c, stage)
      BY <2>6 DEF Receive, CheckAmount, CheckVelocity, CheckDuplicate, Check, RejectFraud,
         FreezeWallet, Accept, Decline
    <3>2. settled' = settled /\ pc[c] \notin {"settled", "done"}
      BY <2>6 DEF Receive, CheckAmount, CheckVelocity, CheckDuplicate, Check, RejectFraud,
         FreezeWallet, Accept, Decline
    <3>3. pc'[c] = stage
      BY <3>1, Went DEF Base, Stages
    <3>4. Held(p)' = Held(p) /\ Past(p) \subseteq Past(p)'
      BY <2>1, <2>2, <3>2, <3>3 DEF Held, Past, Successful, Deliveries, Ended
    <3>5. QED
      BY <1>4, <2>1, <3>2, <3>4
  <2>7. CASE PatchRead(c) \/ PatchWrite(c)
    <3>1. settled' = settled /\ c \notin Successful(p)
      BY <2>7 DEF PatchRead, PatchWrite, Base, Successful, Deliveries
    <3>2. Held(p)' = Held(p) /\ Past(p)' = Past(p)
      BY <2>1, <2>2, <3>1 DEF Held, Past, Successful, Deliveries
    <3>3. QED
      BY <1>4, <2>1, <3>1, <3>2
  <2>8. QED
    BY <1>5, <2>3, <2>4, <2>5, <2>6, <2>7 DEF Step, Quiet
<1>6. CASE (\E q \in Payments : CreatePayment(q) \/ Ageing(q)) \/ ExpirePending
  <2>1. /\ UNCHANGED <<settled, request, pc>>
        /\ payment'[p].draft = payment[p].draft
    BY <1>6, EnvironmentFrame DEF Base
  <2>2. Held(p)' = Held(p) /\ Past(p)' = Past(p)
    BY <2>1 DEF Held, Past, Successful, Deliveries, About
  <2>3. QED
    BY <1>4, <2>1, <2>2
<1>7. CASE UNCHANGED vars
  <2>1. UNCHANGED <<settled, request, pc, payment>>
    BY <1>7 DEF vars
  <2>2. Held(p)' = Held(p) /\ Past(p)' = Past(p)
    BY <2>1 DEF Held, Past, Successful, Deliveries, About
  <2>3. QED
    BY <1>4, <2>1, <2>2
<1>8. QED
  BY <1>5, <1>6, <1>7 DEF Next

\* However often a webhook is delivered, whatever overlaps it and wherever its tail
\* fails, each True answer has a settlement of its own behind it, and each settlement
\* a successful delivery of its own that got past the commit.
THEOREM SettlementsAreDelivered == Spec => []SettledByDeliveries
<1>1. Base /\ SettledInv => SettledByDeliveries
  <2> SUFFICES ASSUME Base, SettledInv, NEW p \in Payments
               PROVE  /\ payment[p].draft.direction # "other" =>
                           Cardinality({c \in Successful(p) : pc[c] = "done"}) <= settled[p]
                      /\ settled[p] <= Cardinality(Past(p))
    BY DEF SettledByDeliveries, Past
  <2> DEFINE answered == {c \in Successful(p) : pc[c] = "done"}
  <2>1. answered \in SUBSET Held(p)
    BY DEF Held
  <2>2. Cardinality(answered) \in Nat /\ Cardinality(answered) <= Cardinality(Held(p))
    BY <2>1, FinitelyMany, FS_Subset, FS_CardinalityType
  <2>3. settled[p] \in Nat
    BY DEF Base, TypeOK
  <2>4. QED
    BY <2>2, <2>3, FinitelyMany DEF SettledInv
<1>2. Base /\ SettledInv /\ [Next]_vars => Base' /\ SettledInv'
  BY NextBase, SettledStep
<1>3. QED
  BY InitBase, SettledInit, <1>1, <1>2, PTL DEF Spec

-----------------------------------------------------------------------------
(* Fraud                                                                   *)

\* Three signs do not score more than 80, nor does none at all.
LEMMA AllFourSigns ==
  ASSUME NEW row, row.flags \in SUBSET Flags
  PROVE  /\ Fraudulent(row) => row.flags = Flags
         /\ row.flags = {} => ~Fraudulent(row)
<1> DEFINE points(f) == IF f \in row.flags THEN Weight[f] ELSE 0
<1>1. /\ Weight["amount_anomaly"] = 30 /\ Weight["velocity"] = 25
      /\ Weight["geo_mismatch"] = 20 /\ Weight["possible_duplicate"] = 15
  BY DEF Weight
<1>2. Fraudulent(row) => \A f \in Flags : f \in row.flags
  BY <1>1 DEF Fraudulent, Score, Flags
<1>3. row.flags = {} => ~Fraudulent(row)
  BY DEF Fraudulent, Score
<1>4. QED
  BY <1>2, <1>3

\* The wallet is frozen, or a call is about to freeze it.
Covered(w) == frozen[w] \/ \E c \in Calls : pc[c] = "rejected" /\ WalletOf(c) = w

\* A row that shows fraud has failed, and its wallet is taken care of.
Handled(row) == Fraudulent(row) => row.status = "failed" /\ Covered(row.draft.wallet)

FraudInv ==
  crashes = 0 =>
    /\ \A p \in Payments : Handled(payment[p])
    /\ \A c \in Calls : pc[c] = "patching" => Handled(obj[c])

LEMMA FraudInit == Init => FraudInv
<1> SUFFICES ASSUME Init PROVE FraudInv
  OBVIOUS
<1>1. \A p \in Payments : payment[p].flags = {}
  BY DEF Init, NewRow
<1>2. \A p \in Payments : Handled(payment[p])
  BY <1>1, AllFourSigns DEF Handled
<1>3. QED
  BY <1>2 DEF Init, FraudInv

\* Care for a wallet is handed over, never dropped, but by a crash.
LEMMA StaysCovered ==
  ASSUME Base, NEW c \in Calls, Step(c), NEW w \in Wallets, Covered(w)
  PROVE  Covered(w)'
<1>1. /\ \A d \in Calls : d # c => pc'[d] = pc[d] /\ obj'[d] = obj[d]
      /\ WalletOf(c) \in Wallets
  BY CallBase, Constants DEF Base, TypeOK, PaymentRow, WalletOf
<1>2. CASE FreezeWallet(c)
  BY <1>1, <1>2 DEF FreezeWallet, Book!SetFrozen, Covered, Base, TypeOK, WalletOf
<1>3. CASE ~FreezeWallet(c)
  <2>1. UNCHANGED frozen /\ pc[c] # "rejected"
    BY <1>3, SettleBook DEF Step, RefuseUnknown, Receive, CheckAmount, CheckVelocity,
       CheckDuplicate, Check, RejectFraud, Accept, Decline, Settle, SettleNothing,
       FailToSettle, Answer, FailToAnswer, PatchRead, PatchWrite, book
  <2>2. QED
    BY <1>1, <2>1 DEF Covered, WalletOf
<1>4. QED
  BY <1>2, <1>3

LEMMA FraudStep ==
  ASSUME Base, FraudInv, [Next]_vars
  PROVE  FraudInv'
<1>1. Base'
  BY NextBase
<1>2. ASSUME NEW c \in Calls, Step(c)
      PROVE  FraudInv'
  <2> SUFFICES ASSUME crashes' = 0
               PROVE  /\ \A p \in Payments : Handled(payment[p])'
                      /\ \A d \in Calls : pc'[d] = "patching" => Handled(obj[d])'
    BY DEF FraudInv
  <2>1. /\ About(c) \in Payments /\ About(c)' = About(c)
        /\ \A d \in Calls : d # c => pc'[d] = pc[d] /\ obj'[d] = obj[d]
        /\ \A p \in Payments : p # About(c) => payment'[p] = payment[p]
    <3>1. /\ About(c) \in Payments /\ request' = request
          /\ \A d \in Calls : d # c => pc'[d] = pc[d] /\ obj'[d] = obj[d]
          /\ \A p \in Payments : p # About(c) => payment'[p] = payment[p]
      BY <1>2, CallBase
    <3>2. QED
      BY <3>1 DEF About
  <2>2. crashes = 0
    BY <1>2 DEF Step, RefuseUnknown, Receive, CheckAmount, CheckVelocity,
       CheckDuplicate, Check, RejectFraud, FreezeWallet, Accept, Decline, Settle,
       SettleNothing, FailToSettle, Answer, FailToAnswer, PatchRead, PatchWrite
  <2>3. ASSUME NEW row \in PaymentRow, Handled(row)
        PROVE  Fraudulent(row) => row.status = "failed" /\ Covered(row.draft.wallet)'
    BY <1>2, <2>3, StaysCovered, Constants DEF Handled, PaymentRow
  <2>4. /\ \A p \in Payments : payment[p] \in PaymentRow /\ Handled(payment[p])
        /\ \A d \in Calls : obj[d] \in PaymentRow /\ (pc[d] = "patching" => Handled(obj[d]))
    BY <2>2 DEF FraudInv, Base, TypeOK
  <2>5. \A d \in Calls : d # c /\ pc'[d] = "patching" => Handled(obj[d])'
    BY <2>1, <2>3, <2>4 DEF Handled
  <2>6. \A p \in Payments : payment'[p] = payment[p] => Handled(payment[p])'
    BY <2>3, <2>4 DEF Handled
  <2>7. CASE UNCHANGED payment /\ pc'[c] # "patching"
    BY <2>5, <2>6, <2>7
  <2>8. CASE PatchRead(c)
    <3>1. UNCHANGED payment
      BY <2>8 DEF PatchRead
    <3>2. /\ obj'[c].draft = payment[About(c)].draft
          /\ obj'[c].status = payment[About(c)].status
          /\ obj'[c].flags = payment[About(c)].flags
      BY <2>8, Got DEF Base
    <3>3. Fraudulent(obj'[c]) => Fraudulent(payment[About(c)])
      BY <3>2 DEF Fraudulent
    <3>4. Handled(obj[c])'
      BY <2>1, <2>3, <2>4, <3>2, <3>3 DEF Handled
    <3>5. QED
      BY <2>5, <2>6, <3>1, <3>4
  <2>9. CASE PatchWrite(c)
    <3>1. /\ pc[c] = "patching" /\ payment'[About(c)] = obj[c] /\ Goto(c, "done")
      BY <2>1, <2>9 DEF PatchWrite, Base, TypeOK
    <3>2. pc'[c] = "done"
      BY <3>1, Went DEF Base, Stages
    <3>3. Handled(payment[About(c)])'
      BY <2>1, <2>3, <2>4, <3>1 DEF Handled
    <3>4. QED
      BY <2>1, <2>5, <2>6, <3>2, <3>3
  <2>10. CASE RejectFraud(c)
    <3>1. SaveStatus(c, "failed") /\ Goto(c, "rejected") /\ UNCHANGED obj
      BY <2>10 DEF RejectFraud
    <3>2. pc'[c] = "rejected"
      BY <3>1, Went DEF Base, Stages
    <3>3. /\ payment'[About(c)].status = "failed"
          /\ payment'[About(c)].draft = payment[About(c)].draft
      BY <3>1, Saved DEF Base, Statuses
    <3>4. Covered(payment[About(c)].draft.wallet)'
      BY <2>1, <3>1, <3>2, <3>3 DEF Covered, WalletOf, Base
    <3>5. Handled(payment[About(c)])'
      BY <2>1, <3>3, <3>4 DEF Handled
    <3>6. QED
      BY <2>1, <2>5, <2>6, <3>2, <3>5
  <2>11. CASE Accept(c) \/ Decline(c)
    <3>1. PICK status \in {"completed", "failed"} : SaveStatus(c, status)
      BY <2>11 DEF Accept, Decline
    <3>2. PICK stage \in {"accepted", "declined"} : Goto(c, stage)
      BY <2>11 DEF Accept, Decline
    <3>3. pc'[c] # "patching"
      BY <3>2, Went DEF Base, Stages
    <3>4. payment'[About(c)].flags = obj[c].flags /\ ~Fraudulent(obj[c])
      BY <2>11, <3>1, Saved DEF Base, Statuses, Accept, Decline
    <3>5. Handled(payment[About(c)])'
      BY <2>1, <3>4 DEF Handled, Fraudulent
    <3>6. QED
      BY <2>1, <2>5, <2>6, <3>3, <3>5
  <2>12. ASSUME \/ Quiet(c) \/ Receive(c) \/ CheckAmount(c) \/ CheckVelocity(c)
                \/ CheckDuplicate(c) \/ FreezeWallet(c) \/ Settle(c)
         PROVE  UNCHANGED payment /\ pc'[c] # "patching"
    <3>1. UNCHANGED payment
      BY <2>12, Quietly DEF Receive, CheckAmount, CheckVelocity, CheckDuplicate, Check,
         FreezeWallet, Settle
    <3>2. PICK stage \in {"received", "averaged", "counted", "scored", "settled", "declined",
                          "done", "refused", "error"} : Goto(c, stage)
      BY <2>12, Quietly DEF Receive, CheckAmount, CheckVelocity, CheckDuplicate, Check,
         FreezeWallet, Settle
    <3>3. QED
      BY <3>1, <3>2, Went DEF Base, Stages
  <2>13. QED
    BY <1>2, <2>7, <2>8, <2>9, <2>10, <2>11, <2>12 DEF Step, Quiet
<1>3. ASSUME NEW c \in Calls, Crash(c)
      PROVE  FraudInv'
  BY <1>3 DEF Crash, FraudInv, Base, TypeOK
<1>4. ASSUME (\E p \in Payments : CreatePayment(p) \/ Ageing(p)) \/ ExpirePending
      PROVE  FraudInv'
  <2>1. /\ UNCHANGED <<pc, obj, crashes, frozen>>
        /\ \A p \in Payments :
             \/ payment'[p] = payment[p]
             \/ payment[p].status \in {"absent", "pending"}
                /\ payment'[p].flags = payment[p].flags
    BY <1>4, EnvironmentFrame DEF Base
  <2>2. \A w : Covered(w)' <=> Covered(w)
    BY <2>1 DEF Covered, WalletOf
  <2>3. \A p \in Payments : Handled(payment[p]) => Handled(payment[p])'
    BY <2>1, <2>2 DEF Handled, Fraudulent
  <2>4. \A c \in Calls : Handled(obj[c]) => Handled(obj[c])'
    BY <2>1, <2>2 DEF Handled
  <2>5. QED
    BY <2>1, <2>3, <2>4 DEF FraudInv
<1>5. CASE UNCHANGED vars
  BY <1>5 DEF vars, FraudInv, Handled, Covered, WalletOf
<1>6. QED
  BY <1>2, <1>3, <1>4, <1>5 DEF Next

\* Whichever requests race, a payment that failed as fraudulent leaves its wallet
\* frozen, unless a worker died.
THEOREM FraudIsFrozen == Spec => []FraudFreezes
<1>1. Base /\ FraudInv => FraudFreezes
  BY DEF Base, FraudInv, FraudFreezes, Handled, Covered, AtRest, Ended
<1>2. Base /\ FraudInv /\ [Next]_vars => Base' /\ FraudInv'
  BY NextBase, FraudStep
<1>3. QED
  BY InitBase, FraudInit, <1>1, <1>2, PTL DEF Spec

-----------------------------------------------------------------------------
(* Freezes                                                                 *)

Single(p) == Cardinality(Deliveries(p)) <= 1

LEMMA OnlyDelivery ==
  ASSUME NEW p, Single(p), NEW c \in Deliveries(p), NEW d \in Deliveries(p)
  PROVE  c = d
<1> SUFFICES ASSUME c # d PROVE FALSE
  OBVIOUS
<1>1. IsFiniteSet(Deliveries(p))
  <2>1. IsFiniteSet(Calls) /\ Deliveries(p) \in SUBSET Calls
    BY PaymentsAssumption DEF Deliveries
  <2>2. QED
    BY <2>1, FS_Subset
<1>2. IsFiniteSet({c}) /\ Cardinality({c}) = 1
  BY FS_Singleton
<1>3. IsFiniteSet({c} \cup {d}) /\ Cardinality({c} \cup {d}) = 2
  BY <1>2, FS_AddElement
<1>4. ({c} \cup {d}) \in SUBSET Deliveries(p)
  OBVIOUS
<1>5. Cardinality({c} \cup {d}) <= Cardinality(Deliveries(p))
  BY <1>1, <1>4, FS_Subset
<1>6. Cardinality(Deliveries(p)) \in Nat
  BY <1>1, FS_CardinalityType
<1>7. QED
  BY <1>3, <1>5, <1>6 DEF Single

\* No payment is delivered twice, and no request edits one.
Orderly == ~Patched /\ \A p \in Payments : Single(p)

LEMMA OrderlyCalls ==
  ASSUME TypeOK, Orderly, NEW c \in Calls, NEW d \in Calls, About(c) = About(d)
  PROVE  c = d
<1>1. c \in Deliveries(About(c)) /\ d \in Deliveries(About(c)) /\ About(c) \in Payments
  BY Constants DEF TypeOK, Orderly, Patched, Deliveries, About
<1>2. QED
  BY <1>1, OnlyDelivery DEF Orderly

Marked(p) == payment[p].status = "failed" /\ payment[p].flags = Flags

\* Where a call is that has frozen its wallet.
Frozen == {"declined", "refused", "error", "crashed"}

FreezeInv ==
  Orderly =>
    /\ \A c \in Calls : pc[c] = "rejected" => Marked(About(c))
    /\ \A w \in Wallets :
         frozen[w] => \E c \in Calls : /\ pc[c] \in Frozen /\ Marked(About(c))
                                       /\ payment[About(c)].draft.wallet = w

LEMMA FreezeInit == Init => FreezeInv
  BY DEF Init, Book!Init, FreezeInv

LEMMA FreezeStep ==
  ASSUME Base, FreezeInv, [Next]_vars
  PROVE  FreezeInv'
<1>1. CASE UNCHANGED vars
  BY <1>1 DEF vars, FreezeInv, Orderly, Patched, Single, Deliveries, About, Marked
<1>2. ASSUME (\E p \in Payments : CreatePayment(p) \/ Ageing(p)) \/ ExpirePending
      PROVE  FreezeInv'
  <2>1. /\ UNCHANGED <<request, pc, frozen>>
        /\ \A p \in Payments :
             \/ payment'[p] = payment[p]
             \/ payment[p].status \in {"absent", "pending"}
    BY <1>2, EnvironmentFrame DEF Base
  <2>2. /\ Orderly' <=> Orderly
        /\ \A c \in Calls : About(c)' = About(c) /\ About(c) \in Payments
    BY <2>1, Constants DEF Orderly, Patched, Single, Deliveries, About, Base, TypeOK
  <2>3. \A p \in Payments : Marked(p) => payment'[p] = payment[p] /\ Marked(p)'
    BY <2>1 DEF Marked
  <2>4. QED
    BY <2>1, <2>2, <2>3 DEF FreezeInv
<1>3. ASSUME NEW c \in Calls, Step(c) \/ Crash(c)
      PROVE  FreezeInv'
  <2>1. /\ About(c) \in Payments /\ UNCHANGED request /\ ~Ended(c)
        /\ \A d \in Calls : d # c => pc'[d] = pc[d] /\ obj'[d] = obj[d]
        /\ \A p \in Payments : p # About(c) => payment'[p] = payment[p]
    BY <1>3, CallBase
  <2>2. /\ Orderly' <=> Orderly
        /\ \A d \in Calls : About(d)' = About(d) /\ About(d) \in Payments
    BY <2>1, Constants DEF Orderly, Patched, Single, Deliveries, About, Base, TypeOK
  <2> SUFFICES ASSUME Orderly PROVE FreezeInv'
    BY <2>2 DEF FreezeInv
  <2>3. \A d \in Calls : d # c => About(d) # About(c)
    BY OrderlyCalls DEF Base
  <2>4. \A d \in Calls : d # c /\ Marked(About(d)) =>
          /\ Marked(About(d))'
          /\ payment'[About(d)'] = payment[About(d)]
    BY <2>1, <2>2, <2>3 DEF Marked
  <2>5. \A d \in Calls : d # c /\ pc'[d] = "rejected" => Marked(About(d))'
    BY <2>1, <2>4 DEF FreezeInv
  <2>6. pc[c] = "declined" => pc'[c] \in Frozen /\ UNCHANGED payment
    <3> SUFFICES ASSUME pc[c] = "declined" PROVE pc'[c] \in Frozen /\ UNCHANGED payment
      OBVIOUS
    <3>1. Quiet(c) \/ Crash(c)
      BY <1>3 DEF Step, Quiet, Receive, CheckAmount, CheckVelocity, CheckDuplicate, Check,
         RejectFraud, FreezeWallet, Accept, Decline, Settle, PatchRead, PatchWrite
    <3>2. CASE Quiet(c)
      BY <3>2, Quietly, Went DEF Base, Stages, Frozen
    <3>3. CASE Crash(c)
      BY <3>3, Went DEF Crash, Base, Stages, Frozen
    <3>4. QED
      BY <3>1, <3>2, <3>3
  <2>7. \A w \in Wallets :
          frozen[w] => \E d \in Calls : /\ pc'[d] \in Frozen /\ Marked(About(d))'
                                        /\ payment'[About(d)'].draft.wallet = w
    <3> SUFFICES ASSUME NEW w \in Wallets, frozen[w]
                 PROVE  \E d \in Calls : /\ pc'[d] \in Frozen /\ Marked(About(d))'
                                         /\ payment'[About(d)'].draft.wallet = w
      OBVIOUS
    <3>1. PICK d \in Calls : /\ pc[d] \in Frozen /\ Marked(About(d))
                             /\ payment[About(d)].draft.wallet = w
      BY DEF FreezeInv
    <3>2. CASE d # c
      BY <2>1, <2>4, <3>1, <3>2
    <3>3. CASE d = c
      <4>1. pc[c] = "declined"
        BY <2>1, <3>1, <3>3 DEF Ended, Frozen
      <4>2. QED
        BY <2>2, <2>6, <3>1, <3>3, <4>1 DEF Marked
    <3>4. QED
      BY <3>2, <3>3
  <2>8. CASE FreezeWallet(c)
    <3>1. /\ pc[c] = "rejected" /\ Goto(c, "declined") /\ UNCHANGED payment
          /\ frozen' = [frozen EXCEPT ![WalletOf(c)] = TRUE]
      BY <2>8 DEF FreezeWallet, Book!SetFrozen
    <3>2. pc'[c] \in Frozen /\ WalletOf(c) = payment[About(c)].draft.wallet
      BY <3>1, Went DEF Base, Stages, WalletOf, Frozen
    <3>3. Marked(About(c))' /\ payment'[About(c)'] = payment[About(c)]
      BY <2>2, <3>1 DEF FreezeInv, Marked
    <3>4. \A w \in Wallets : frozen'[w] => frozen[w] \/ w = WalletOf(c)
      BY <3>1 DEF Base, TypeOK
    <3>5. QED
      BY <2>5, <2>7, <3>2, <3>3, <3>4 DEF FreezeInv
  <2>9. CASE RejectFraud(c)
    <3>1. /\ SaveStatus(c, "failed") /\ Goto(c, "rejected") /\ Fraudulent(obj[c])
          /\ UNCHANGED frozen
      BY <2>9 DEF RejectFraud, book
    <3>2. obj[c].flags \in SUBSET Flags
      BY DEF Base, TypeOK, PaymentRow
    <3>3. /\ payment'[About(c)].status = "failed"
          /\ payment'[About(c)].flags = obj[c].flags
      BY <3>1, Saved DEF Base, Statuses
    <3>4. Marked(About(c))'
      BY <2>2, <3>1, <3>2, <3>3, AllFourSigns DEF Marked
    <3>5. QED
      BY <2>5, <2>7, <3>1, <3>4 DEF FreezeInv
  <2>10. CASE ~FreezeWallet(c) /\ ~RejectFraud(c)
    <3>1. UNCHANGED frozen
      BY <1>3, <2>10, SettleBook, Quietly DEF Step, Quiet, Receive, CheckAmount, CheckVelocity,
         CheckDuplicate, Check, Accept, Decline, PatchRead, PatchWrite, Crash, book
    <3>2. PICK stage \in {"received", "averaged", "counted", "scored", "accepted", "declined", "patching",
                          "settled", "done", "refused", "error", "crashed"} : Goto(c, stage)
      BY <1>3, <2>10, Quietly DEF Step, Quiet, Receive, CheckAmount, CheckVelocity,
         CheckDuplicate, Check, Accept, Decline, Settle, PatchRead, PatchWrite, Crash
    <3>3. pc'[c] # "rejected"
      BY <3>2, Went DEF Base, Stages
    <3>4. QED
      BY <2>5, <2>7, <3>1, <3>3 DEF FreezeInv
  <2>11. QED
    BY <2>8, <2>9, <2>10
<1>4. QED
  BY <1>1, <1>2, <1>3 DEF Next

\* If no payment is delivered twice or edited, every frozen wallet has a failed
\* payment with all four signs of fraud.
THEOREM FreezesAreExplained == Spec => []FreezeIsExplained
<1>1. Base /\ FreezeInv => FreezeIsExplained
  BY Constants DEF Base, TypeOK, FreezeInv, FreezeIsExplained, Orderly, Single, Marked, About
<1>2. Base /\ FreezeInv /\ [Next]_vars => Base' /\ FreezeInv'
  BY NextBase, FreezeStep
<1>3. QED
  BY InitBase, FreezeInit, <1>1, <1>2, PTL DEF Spec

-----------------------------------------------------------------------------
(* Status and book                                                         *)

\* What mint_credits accepts of a payment that nobody edits.
Backed(p) == Deposit(p) /\ payment[p].credits <= Backing

\* How the only delivery of a payment, its status and the book may stand.
Stand(c, p) ==
  \/ pc[c] = "accepted" /\ payment[p].status = "completed" /\ settled[p] = 0
  \/ /\ pc[c] \in {"settled", "done", "error"} /\ payment[p].status = "completed"
     /\ settled[p] = IF Backed(p) THEN 1 ELSE 0
  \/ pc[c] \notin {"accepted", "settled", "done"} /\ payment[p].status # "completed"
     /\ settled[p] = 0

Agrees(p) ==
  /\ Deliveries(p) = {} => payment[p].status # "completed" /\ settled[p] = 0
  /\ \A c \in Deliveries(p) : Stand(c, p)

AgreeInv ==
  crashes = 0 /\ ~Patched =>
    /\ \A c \in Calls : pc[c] # "crashed" /\ obj[c].credits = payment[About(c)].credits
    /\ \A p \in Payments : IF Deposit(p) THEN payment[p].credits \in Int
                                         ELSE payment[p].credits = NoCredits
    /\ \A p \in Payments : Single(p) => Agrees(p)

LEMMA AgreeInit == Init => AgreeInv
<1> SUFFICES ASSUME Init PROVE AgreeInv
  OBVIOUS
<1>1. TypeOK
  BY InitType
<1>2. \A c \in Calls : pc[c] = "sent" /\ obj[c] = payment[About(c)]
  BY DEF Init, About
<1>3. \A p \in Payments : payment[p].status = "absent" /\ settled[p] = 0
  BY DEF Init, NewRow
<1>4. ASSUME NEW p \in Payments
      PROVE  IF Deposit(p) THEN payment[p].credits \in Int ELSE payment[p].credits = NoCredits
  <2>1. PICK d \in [Payments -> Drafts] : payment = [q \in Payments |-> NewRow(d[q])]
    BY DEF Init
  <2>2. payment[p] = NewRow(d[p]) /\ d[p] \in Drafts
    BY <2>1
  <2>3. payment[p].draft = d[p]
    BY <2>2 DEF NewRow
  <2>4. IF Deposit(p) THEN payment[p].credits = d[p].amount * Rate
                      ELSE payment[p].credits = NoCredits
    BY <2>2, <2>3 DEF NewRow, Deposit
  <2>5. QED
    BY <2>2, <2>4, Constants, PaymentsAssumption
<1>5. \A p \in Payments : Agrees(p)
  BY <1>2, <1>3 DEF Agrees, Stand, Deliveries
<1>6. QED
  BY <1>2, <1>4, <1>5 DEF AgreeInv

LEMMA AgreeStep ==
  ASSUME Base, AgreeInv, [Next]_vars
  PROVE  AgreeInv'
<1>1. CASE UNCHANGED vars
  BY <1>1 DEF vars, AgreeInv, Agrees, Stand, Backed, Patched, Deposit, Single, Deliveries, About
<1>2. ASSUME (\E p \in Payments : CreatePayment(p) \/ Ageing(p)) \/ ExpirePending
      PROVE  AgreeInv'
  <2>1. /\ UNCHANGED <<settled, request, pc, obj, crashes>>
        /\ \A p \in Payments :
             /\ payment'[p].draft = payment[p].draft
             /\ payment'[p].credits = payment[p].credits
             /\ \/ payment'[p] = payment[p]
                \/ payment[p].status # "completed" /\ payment'[p].status # "completed"
    BY <1>2, EnvironmentFrame DEF Base
  <2>2. /\ Patched' <=> Patched
        /\ \A c \in Calls : About(c)' = About(c) /\ About(c) \in Payments
        /\ \A p \in Payments : Deliveries(p)' = Deliveries(p)
    BY <2>1, Constants DEF Patched, Deliveries, About, Base, TypeOK
  <2>3. \A p \in Payments : /\ Single(p)' <=> Single(p)
                            /\ Deposit(p)' <=> Deposit(p)
    BY <2>1, <2>2 DEF Single, Deposit
  <2>4. \A p \in Payments : Agrees(p) => Agrees(p)'
    BY <2>1, <2>2, <2>3 DEF Agrees, Stand, Backed
  <2>5. QED
    BY <2>1, <2>2, <2>3, <2>4 DEF AgreeInv
<1>3. ASSUME NEW c \in Calls, Crash(c)
      PROVE  AgreeInv'
  BY <1>3 DEF Crash, AgreeInv, Base, TypeOK
<1>4. ASSUME NEW c \in Calls, Step(c)
      PROVE  AgreeInv'
  <2>1. /\ About(c) \in Payments /\ UNCHANGED request /\ ~Ended(c)
        /\ \A d \in Calls : d # c => pc'[d] = pc[d] /\ obj'[d] = obj[d]
        /\ \A p \in Payments : p # About(c) => payment'[p] = payment[p]
    BY <1>4, CallBase
  <2>2. UNCHANGED crashes
    BY <1>4 DEF Step, RefuseUnknown, Receive, CheckAmount, CheckVelocity, CheckDuplicate,
       Check, RejectFraud, FreezeWallet, Accept, Decline, Settle, SettleNothing, FailToSettle,
       Answer, FailToAnswer, PatchRead, PatchWrite
  <2>3. /\ Patched' <=> Patched
        /\ \A d \in Calls : About(d)' = About(d) /\ About(d) \in Payments
        /\ \A p \in Payments : Deliveries(p)' = Deliveries(p) /\ (Single(p)' <=> Single(p))
    BY <2>1, Constants DEF Patched, Deliveries, About, Base, TypeOK, Single
  <2> SUFFICES ASSUME crashes = 0, ~Patched PROVE AgreeInv'
    BY <2>2, <2>3 DEF AgreeInv
  <2>4. /\ \A d \in Calls : pc[d] # "crashed" /\ obj[d].credits = payment[About(d)].credits
        /\ \A p \in Payments : IF Deposit(p) THEN payment[p].credits \in Int
                                             ELSE payment[p].credits = NoCredits
        /\ \A p \in Payments : Single(p) => Agrees(p)
    BY DEF AgreeInv
  <2>5. request[c].kind = "webhook" /\ c \in Deliveries(About(c))
    BY Constants DEF Patched, Base, TypeOK, Deliveries
  <2>6. /\ payment'[About(c)].credits = payment[About(c)].credits
        /\ payment'[About(c)].draft = payment[About(c)].draft
        /\ obj'[c].credits = payment[About(c)].credits
        /\ pc'[c] # "crashed"
        /\ \A p \in Payments : p # About(c) => settled'[p] = settled[p]
    <3>1. CASE Receive(c)
      <4>1. UNCHANGED <<payment, settled>> /\ Goto(c, "received")
        BY <3>1 DEF Receive
      <4>2. QED
        BY <3>1, <4>1, Got, Went DEF Base, Stages
    <3>2. CASE CheckAmount(c) \/ CheckVelocity(c) \/ CheckDuplicate(c)
      <4>1. PICK from \in {"received", "averaged", "counted"},
                 to \in {"averaged", "counted", "scored"}, found \in SUBSET Flags :
              Check(c, from, to, found)
        BY <3>2, Checks
      <4>2. to \in Stages /\ Goto(c, to) /\ UNCHANGED <<payment, settled>>
        BY <4>1 DEF Check, Stages
      <4>3. obj'[c].credits = obj[c].credits
        BY <4>1, <4>2, Checked DEF Base
      <4>4. QED
        BY <2>4, <4>2, <4>3, Went DEF Base
    <3>3. CASE RejectFraud(c) \/ Accept(c) \/ Decline(c)
      <4>1. PICK status \in {"failed", "completed"}, stage \in {"rejected", "accepted", "declined"} :
              SaveStatus(c, status) /\ Goto(c, stage) /\ UNCHANGED <<settled, obj>>
        BY <3>3 DEF RejectFraud, Accept, Decline
      <4>2. stage \in Stages /\ status \in Statuses
        BY DEF Stages, Statuses
      <4>3. QED
        BY <2>4, <4>1, <4>2, Saved, Went DEF Base
    <3>4. CASE Quiet(c) \/ FreezeWallet(c) \/ Settle(c)
      <4>1. PICK stage \in {"settled", "declined", "done", "refused", "error"} :
              Goto(c, stage) /\ UNCHANGED <<payment, obj>>
        BY <3>4, Quietly DEF FreezeWallet, Settle
      <4>2. \A p \in Payments : p # About(c) => settled'[p] = settled[p]
        BY <3>4, Quietly DEF FreezeWallet, Settle, Base, TypeOK
      <4>3. pc'[c] # "crashed"
        BY <4>1, Went DEF Base, Stages
      <4>4. QED
        BY <2>4, <4>1, <4>2, <4>3
    <3>5. ~PatchRead(c) /\ ~PatchWrite(c)
      BY <2>5 DEF PatchRead, PatchWrite, Base
    <3>6. QED
      BY <1>4, <3>1, <3>2, <3>3, <3>4, <3>5 DEF Step, Quiet
  <2>7. ASSUME NEW p \in Payments, p # About(c), Agrees(p)
        PROVE  Agrees(p)'
    <3>1. \A d \in Deliveries(p) : d # c
      BY <2>7 DEF Deliveries
    <3>2. payment'[p] = payment[p] /\ settled'[p] = settled[p]
      BY <2>1, <2>6, <2>7
    <3>3. \A d \in Deliveries(p) : pc'[d] = pc[d]
      BY <2>1, <3>1 DEF Deliveries
    <3>4. QED
      BY <2>3, <2>7, <3>2, <3>3 DEF Agrees, Stand, Backed, Deposit
  <2>8. ASSUME NEW p \in Payments, p = About(c), Single(p), Agrees(p)
        PROVE  Agrees(p)'
    <3>1. \A d \in Deliveries(p) : d = c
      BY <2>5, <2>8, OnlyDelivery
    <3>2. Stand(c, p)
      BY <2>5, <2>8 DEF Agrees
    <3>0. /\ Backed(p)' <=> Backed(p)
          /\ Backed(p) <=> /\ obj[c].draft.direction = "deposit"
                           /\ obj[c].credits <= Backing
          /\ IF obj[c].draft.direction = "deposit" THEN obj[c].credits \in Int
                                                   ELSE obj[c].credits = NoCredits
      BY <2>4, <2>6, <2>8 DEF Backed, Deposit, Base
    <3> SUFFICES Stand(c, p)'
      BY <2>3, <2>5, <2>8, <3>1 DEF Agrees
    <3>3. CASE \/ Receive(c) \/ CheckAmount(c) \/ CheckVelocity(c) \/ CheckDuplicate(c)
               \/ FreezeWallet(c)
      <4>1. /\ pc[c] \in {"sent", "received", "averaged", "counted", "rejected"}
            /\ UNCHANGED settled /\ UNCHANGED payment
        BY <3>3 DEF Receive, CheckAmount, CheckVelocity, CheckDuplicate, Check, FreezeWallet
      <4>2. PICK stage \in {"received", "averaged", "counted", "scored", "declined"} :
              Goto(c, stage)
        BY <3>3 DEF Receive, CheckAmount, CheckVelocity, CheckDuplicate, Check, FreezeWallet
      <4>3. pc'[c] = stage
        BY <4>2, Went DEF Base, Stages
      <4>4. QED
        BY <3>2, <4>1, <4>3 DEF Stand
    <3>4. CASE RejectFraud(c) \/ Decline(c)
      <4>1. PICK stage \in {"rejected", "declined"} :
              /\ Goto(c, stage) /\ SaveStatus(c, "failed")
              /\ pc[c] = "scored" /\ UNCHANGED settled
        BY <3>4 DEF RejectFraud, Decline
      <4>2. pc'[c] = stage
        BY <4>1, Went DEF Base, Stages
      <4>3. payment'[p].status = "failed"
        BY <2>8, <4>1, Saved DEF Base, Statuses
      <4>4. QED
        BY <3>2, <4>1, <4>2, <4>3 DEF Stand
    <3>5. CASE Accept(c)
      <4>1. /\ Goto(c, "accepted") /\ SaveStatus(c, "completed")
            /\ pc[c] = "scored" /\ UNCHANGED settled
        BY <3>5 DEF Accept
      <4>2. pc'[c] = "accepted"
        BY <4>1, Went DEF Base, Stages
      <4>3. payment'[p].status = "completed"
        BY <2>8, <4>1, Saved DEF Base, Statuses
      <4>4. QED
        BY <3>2, <4>1, <4>2, <4>3 DEF Stand
    <3>6. CASE Settle(c)
      <4>1. /\ Goto(c, "settled") /\ pc[c] = "accepted" /\ UNCHANGED payment
            /\ settled'[p] = settled[p] + 1 /\ (Credit(c) \/ Debit(c))
        BY <2>8, <3>6 DEF Settle, Base, TypeOK
      <4>2. pc'[c] = "settled"
        BY <4>1, Went DEF Base, Stages
      <4>3. Backed(p)
        BY <3>0, <4>1 DEF Credit, Debit, Book!Mint
      <4>4. QED
        BY <3>0, <3>2, <4>1, <4>2, <4>3 DEF Stand
    <3>7. CASE Quiet(c)
      <4>1. /\ UNCHANGED payment /\ UNCHANGED settled
            /\ \/ pc[c] \in {"sent", "declined"} /\ pc'[c] = "refused"
               \/ /\ pc[c] \in {"accepted", "settled", "declined"} /\ pc'[c] = "error"
                  /\ pc[c] = "accepted" => FailToSettle(c)
               \/ pc[c] = "accepted" /\ pc'[c] = "settled" /\ SettleNothing(c)
               \/ pc[c] = "settled" /\ pc'[c] = "done"
        <5>1. pc[c] = "accepted" => FailToSettle(c) \/ SettleNothing(c)
          BY <3>7 DEF Quiet, RefuseUnknown, Answer, FailToAnswer
        <5>2. SettleNothing(c) => Goto(c, "settled")
          BY DEF SettleNothing
        <5>3. QED
          BY <3>7, <5>1, <5>2, Quietly, Went DEF Base, Stages
      <4>2. FailToSettle(c) \/ SettleNothing(c) => ~Backed(p)
        BY <3>0, PaymentsAssumption DEF FailToSettle, CannotSettle, SettleNothing
      <4>3. QED
        BY <3>0, <3>2, <4>1, <4>2 DEF Stand
    <3>8. ~PatchRead(c) /\ ~PatchWrite(c)
      BY <2>5 DEF PatchRead, PatchWrite, Base
    <3>9. QED
      BY <1>4, <3>3, <3>4, <3>5, <3>6, <3>7, <3>8 DEF Step, Quiet
  <2>9. \A p \in Payments : /\ payment'[p].credits = payment[p].credits
                            /\ Deposit(p)' <=> Deposit(p)
    BY <2>1, <2>6 DEF Deposit
  <2>10. \A d \in Calls : pc'[d] # "crashed" /\ obj'[d].credits = payment'[About(d)'].credits
    BY <2>1, <2>3, <2>4, <2>6, <2>9
  <2>11. \A p \in Payments : Single(p)' => Agrees(p)'
    BY <2>3, <2>4, <2>7, <2>8, <2>9
  <2>12. QED
    BY <2>4, <2>9, <2>10, <2>11 DEF AgreeInv
<1>5. QED
  BY <1>1, <1>2, <1>3, <1>4 DEF Next

\* A payment delivered at most once and never edited ends booked once if it is a
\* completed deposit that the reserve backs, and not at all otherwise, even if it
\* expires while its webhook is being processed.
THEOREM BackedDepositsAreBooked == Spec => []BookedIfBacked
<1>1. Base /\ AgreeInv => BookedIfBacked
  <2> SUFFICES ASSUME Base, AgreeInv, AtRest, crashes = 0, ~Patched, NEW p \in Payments,
                      Single(p)
               PROVE  settled[p] = IF Backed(p) /\ payment[p].status = "completed"
                                   THEN 1 ELSE 0
    BY DEF BookedIfBacked, Single, Backed
  <2>1. Agrees(p) /\ \A c \in Calls : pc[c] # "crashed"
    BY DEF AgreeInv
  <2>2. \A c \in Deliveries(p) : Stand(c, p) /\ pc[c] \in {"done", "refused", "error"}
    BY <2>1 DEF Agrees, Deliveries, AtRest, Ended
  <2>3. QED
    BY <2>1, <2>2 DEF Agrees, Stand
<1>2. Base /\ AgreeInv /\ [Next]_vars => Base' /\ AgreeInv'
  BY NextBase, AgreeStep
<1>3. QED
  BY InitBase, AgreeInit, <1>1, <1>2, PTL DEF Spec
=============================================================================

------------------------------ MODULE Payments ------------------------------
(***************************************************************************)
(* PaymentService of way_finance: payments are created, the provider calls *)
(* the webhook once or more for each, a periodic task expires those that   *)
(* stay pending, and a client may PATCH a payment.  process_webhook is not *)
(* a transaction: each SELECT and each save is a step of its own, and only *)
(* the mint or burn at its end is atomic.  That last step is an action of  *)
(* CreditBook, which Credits implements; the event and the answer come     *)
(* after its commit.  Nothing keeps an amount from being negative, or the  *)
(* direction from being another text than the two that process_webhook     *)
(* knows.                                                                  *)
(***************************************************************************)
EXTENDS Integers, Sequences, FiniteSets, FiniteSetsExt

CONSTANTS
  Wallets,        \* wallet ids
  Payments,       \* payment ids
  Drafts,         \* what a payment may be created with
  Calls,          \* HTTP requests about payments, each sent once
  Requests,       \* what such a request may ask
  Rate,           \* CREDIT_RATE: credits for a unit of money
  Backing,        \* reserve.total_reserve * reserve.rate, in credits
  Opening,        \* balance of each wallet at the start
  VelocityLimit,  \* payments in an hour that are not suspect
  AnomalyFactor,  \* multiple of the average that is not suspect
  NoCredits,      \* credits_amount is null
  MaxAge,         \* bound: how old each payment gets (2 is all the code tells apart)
  MaxCrashes      \* bound: worker processes that die in a request

ASSUME PaymentsAssumption ==
  /\ IsFiniteSet(Payments) /\ IsFiniteSet(Calls)
  /\ Drafts \subseteq [wallet : Wallets, direction : {"deposit", "withdraw", "other"},
                       amount : Int, provider : {"stripe", "mpesa"}]
  /\ \A q \in Requests :
       /\ q.payment \in Payments
       /\ \/ q.kind = "webhook" /\ q.success \in BOOLEAN /\ q.geo \in BOOLEAN
          \/ q.kind = "patch" /\ q.credits \in Int \cup {NoCredits}
  /\ Rate \in Nat /\ Backing \in Int /\ Opening \in [Wallets -> Nat]
  /\ VelocityLimit \in Nat /\ AnomalyFactor \in Nat
  /\ MaxAge \in [Payments -> 0..2] /\ MaxCrashes \in Nat
  /\ NoCredits \notin Int

VARIABLES
  payment,   \* Payment rows; status "absent" before create_payment
  age,       \* each payment is up to 30 minutes (0), up to an hour (1) or older (2)
  settled,   \* CreditLedger rows made for each payment
  request,   \* what each call asks (never changes)
  pc,        \* how far each call has got
  obj,       \* the Payment object each call works on
  crashes,   \* worker processes that have died
  balance, frozen, entries  \* the book of credits

vars == <<payment, age, settled, request, pc, obj, crashes,
          balance, frozen, entries>>

Book == INSTANCE CreditBook WITH Amounts <- Int

Flags == {"amount_anomaly", "velocity", "geo_mismatch", "possible_duplicate"}
Weight == [amount_anomaly |-> 30, velocity |-> 25, geo_mismatch |-> 20,
           possible_duplicate |-> 15]

Score(flags) ==
  LET points(f) == IF f \in flags THEN Weight[f] ELSE 0
  IN points("amount_anomaly") + points("velocity") + points("geo_mismatch")
     + points("possible_duplicate")

\* Mutant: three signs are enough.
FraudulentAt75(row) == Score(row.flags) >= 75

\* min(score, 100) > 80
Fraudulent(row) == Score(row.flags) > 80

Statuses == {"absent", "pending", "completed", "failed"}
PaymentRow ==
  [draft : Drafts, credits : Int \cup {NoCredits}, status : Statuses,
   flags : SUBSET Flags]

\* create_payment converts deposits only: any other payment has no credits_amount.
NewRow(d) ==
  [draft |-> d, status |-> "absent", flags |-> {},
   credits |-> IF d.direction = "deposit" THEN d.amount * Rate ELSE NoCredits]

Init ==
  /\ \E d \in [Payments -> Drafts] : payment = [p \in Payments |-> NewRow(d[p])]
  /\ age = [p \in Payments |-> 0]
  /\ settled = [p \in Payments |-> 0]
  /\ request \in [Calls -> Requests]
  /\ pc = [c \in Calls |-> "sent"]
  /\ obj = [c \in Calls |-> payment[request[c].payment]]
  /\ crashes = 0
  /\ Book!Init

book == <<balance, frozen, entries>>

\* The payment and the wallet a call is about.
About(c) == request[c].payment
WalletOf(c) == obj[c].draft.wallet

Goto(c, stage) == pc' = [pc EXCEPT ![c] = stage]

-----------------------------------------------------------------------------
(* Creation, the passing of time and the expiry task                       *)

CreatePayment(p) ==
  /\ payment[p].status = "absent"
  /\ payment' = [payment EXCEPT ![p].status = "pending"]
  /\ UNCHANGED <<age, settled, request, pc, obj, crashes, book>>

Ageing(p) ==
  /\ payment[p].status # "absent"
  /\ age[p] < MaxAge[p]
  /\ age' = [age EXCEPT ![p] = @ + 1]
  /\ UNCHANGED <<payment, settled, request, pc, obj, crashes, book>>

\* Mutant: the expiry task forgets status="pending".
ExpiredAnyStatus == {p \in Payments : payment[p].status # "absent" /\ age[p] > 0}

\* process_pending: one UPDATE ... WHERE status = 'pending' AND created_at < ...
Expired == {p \in Payments : payment[p].status = "pending" /\ age[p] > 0}

\* Mutant: expired payments get a status that is not one of STATUS_CHOICES.
ExpireAsExpired ==
  /\ Expired # {}
  /\ payment' = [p \in Payments |->
                   IF p \in Expired THEN [payment[p] EXCEPT !.status = "expired"]
                                    ELSE payment[p]]
  /\ UNCHANGED <<age, settled, request, pc, obj, crashes, book>>

ExpirePending ==
  /\ Expired # {}
  /\ payment' = [p \in Payments |->
                   IF p \in Expired THEN [payment[p] EXCEPT !.status = "failed"]
                                    ELSE payment[p]]
  /\ UNCHANGED <<age, settled, request, pc, obj, crashes, book>>

-----------------------------------------------------------------------------
(* process_webhook                                                         *)

\* Payment.DoesNotExist: the answer is False, or 404 to a PATCH.
RefuseUnknown(c) ==
  /\ pc[c] = "sent"
  /\ payment[About(c)].status = "absent"
  /\ Goto(c, "refused")
  /\ UNCHANGED <<payment, age, settled, request, obj, crashes, book>>

\* Payment.objects.get takes no lock and does not look at the status.
Receive(c) ==
  /\ pc[c] = "sent" /\ request[c].kind = "webhook"
  /\ payment[About(c)].status # "absent"
  /\ obj' = [obj EXCEPT ![c] = [payment[About(c)] EXCEPT !.flags = {}]]
  /\ Goto(c, "received")
  /\ UNCHANGED <<payment, age, settled, request, crashes, book>>

\* The payments of the wallet of call c, and the completed ones among them.
Siblings(c) == {p \in Payments : /\ payment[p].status # "absent"
                                 /\ payment[p].draft.wallet = WalletOf(c)}
Completed(c) == {p \in Siblings(c) : payment[p].status = "completed"}

\* amount > average of the completed payments * AnomalyFactor
Anomalous(c) ==
  LET total == MapThenSumSet(LAMBDA p : payment[p].draft.amount, Completed(c))
  IN /\ total > 0
     /\ obj[c].draft.amount * Cardinality(Completed(c)) > total * AnomalyFactor

Hurried(c) == Cardinality({p \in Siblings(c) : age[p] < 2}) > VelocityLimit

\* A completed payment of the same wallet, amount and provider: the payment
\* itself when it has been completed by an earlier delivery.
Repeated(c) ==
  \E p \in Completed(c) : /\ payment[p].draft.amount = obj[c].draft.amount
                          /\ payment[p].draft.provider = obj[c].draft.provider

\* One of the three SELECTs of _check_fraud, which may see different states.
Check(c, from, to, found) ==
  /\ pc[c] = from
  /\ obj' = [obj EXCEPT ![c].flags = @ \cup found]
  /\ Goto(c, to)
  /\ UNCHANGED <<payment, age, settled, request, crashes, book>>

CheckAmount(c) ==
  Check(c, "received", "averaged",
        IF Anomalous(c) THEN {"amount_anomaly"} ELSE {})

CheckVelocity(c) ==
  Check(c, "averaged", "counted", IF Hurried(c) THEN {"velocity"} ELSE {})

CheckDuplicate(c) ==
  Check(c, "counted", "scored",
        (IF request[c].geo THEN {"geo_mismatch"} ELSE {})
          \cup (IF Repeated(c) THEN {"possible_duplicate"} ELSE {}))

\* payment.save(update_fields=[...]) writes the status and the fraud columns
\* whatever the status is by now.
SaveStatus(c, status) ==
  payment' = [payment EXCEPT ![About(c)].status = status,
                             ![About(c)].flags = obj[c].flags]

\* Mutant: a fraudulent payment fails and the wallet is forgotten.
RejectOnly(c) ==
  /\ pc[c] = "scored" /\ Fraudulent(obj[c])
  /\ SaveStatus(c, "failed")
  /\ Goto(c, "declined")
  /\ UNCHANGED <<age, settled, request, obj, crashes, book>>

RejectFraud(c) ==
  /\ pc[c] = "scored" /\ Fraudulent(obj[c])
  /\ SaveStatus(c, "failed")
  /\ Goto(c, "rejected")
  /\ UNCHANGED <<age, settled, request, obj, crashes, book>>

FreezeWallet(c) ==
  /\ pc[c] = "rejected"
  /\ Book!SetFrozen(WalletOf(c), TRUE)
  /\ Goto(c, "declined")
  /\ UNCHANGED <<payment, age, settled, request, obj, crashes>>

Accept(c) ==
  /\ pc[c] = "scored" /\ ~Fraudulent(obj[c])
  /\ request[c].success
  /\ SaveStatus(c, "completed")
  /\ Goto(c, "accepted")
  /\ UNCHANGED <<age, settled, request, obj, crashes, book>>

Decline(c) ==
  /\ pc[c] = "scored" /\ ~Fraudulent(obj[c])
  /\ ~request[c].success
  /\ SaveStatus(c, "failed")
  /\ Goto(c, "declined")
  /\ UNCHANGED <<age, settled, request, obj, crashes, book>>

\* mint_credits for a deposit, burn_credits for a withdrawal, with the
\* credits_amount of the object read at the start.
Credit(c) ==
  /\ obj[c].draft.direction = "deposit" /\ obj[c].credits # NoCredits
  /\ Book!Mint(WalletOf(c), obj[c].credits)

Debit(c) ==
  /\ obj[c].draft.direction = "withdraw" /\ obj[c].credits # NoCredits
  /\ Book!Burn(WalletOf(c), obj[c].credits)

\* The commit of mint_credits or burn_credits; the answer is still to come.
Settle(c) ==
  /\ pc[c] = "accepted"
  /\ Credit(c) \/ Debit(c)
  /\ settled' = [settled EXCEPT ![About(c)] = @ + 1]
  /\ Goto(c, "settled")
  /\ UNCHANGED <<payment, age, request, obj, crashes>>

\* Neither branch is taken for a direction that is none of the two.
SettleNothing(c) ==
  /\ pc[c] = "accepted"
  /\ obj[c].draft.direction = "other"
  /\ Goto(c, "settled")
  /\ UNCHANGED <<payment, age, settled, request, obj, crashes, book>>

\* mint_credits and burn_credits raise: ValueError, or TypeError on a null
\* amount.  The completed status has been saved and stays.
CannotSettle(c) ==
  /\ obj[c].draft.direction # "other"
  /\ \/ obj[c].credits = NoCredits
     \/ obj[c].credits # NoCredits
        /\ obj[c].credits > IF obj[c].draft.direction = "deposit"
                            THEN Backing ELSE balance[WalletOf(c)]

FailToSettle(c) ==
  /\ pc[c] = "accepted"
  /\ CannotSettle(c)
  /\ Goto(c, "error")
  /\ UNCHANGED <<payment, age, settled, request, obj, crashes, book>>

\* EventBus.publish stores an event, then the answer is True or False.
Answer(c) ==
  /\ \/ pc[c] = "settled" /\ Goto(c, "done")
     \/ pc[c] = "declined" /\ Goto(c, "refused")
  /\ UNCHANGED <<payment, age, settled, request, obj, crashes, book>>

\* Mutant: a failing publish makes the worker settle again.
SettleAgain(c) ==
  /\ \/ pc[c] = "settled" /\ Goto(c, "accepted")
     \/ pc[c] = "declined" /\ Goto(c, "error")
  /\ UNCHANGED <<payment, age, settled, request, obj, crashes, book>>

\* publish raises: the provider gets an error for what has been saved.
FailToAnswer(c) ==
  /\ pc[c] \in {"settled", "declined"}
  /\ Goto(c, "error")
  /\ UNCHANGED <<payment, age, settled, request, obj, crashes, book>>

-----------------------------------------------------------------------------
(* The generic update of the viewset, and crashes                          *)

PatchRead(c) ==
  /\ pc[c] = "sent" /\ request[c].kind = "patch"
  /\ payment[About(c)].status # "absent"
  /\ obj' = [obj EXCEPT ![c] = [payment[About(c)] EXCEPT
                                  !.credits = request[c].credits]]
  /\ Goto(c, "patching")
  /\ UNCHANGED <<payment, age, settled, request, crashes, book>>

\* serializer.save() writes every column back, the status read before included.
PatchWrite(c) ==
  /\ pc[c] = "patching"
  /\ payment' = [payment EXCEPT ![About(c)] = obj[c]]
  /\ Goto(c, "done")
  /\ UNCHANGED <<age, settled, request, obj, crashes, book>>

Ended(c) == pc[c] \in {"done", "refused", "error", "crashed"}

\* The worker process dies: what is saved stays saved, the rest is not done.
Crash(c) ==
  /\ crashes < MaxCrashes
  /\ pc[c] # "sent" /\ ~Ended(c)
  /\ crashes' = crashes + 1
  /\ Goto(c, "crashed")
  /\ UNCHANGED <<payment, age, settled, request, obj, book>>

Step(c) ==
  \/ RefuseUnknown(c) \/ Receive(c)
  \/ CheckAmount(c) \/ CheckVelocity(c) \/ CheckDuplicate(c)
  \/ RejectFraud(c) \/ FreezeWallet(c) \/ Accept(c) \/ Decline(c)
  \/ Settle(c) \/ SettleNothing(c) \/ FailToSettle(c)
  \/ Answer(c) \/ FailToAnswer(c)
  \/ PatchRead(c) \/ PatchWrite(c)

Next ==
  \/ \E p \in Payments : CreatePayment(p) \/ Ageing(p)
  \/ ExpirePending
  \/ \E c \in Calls : Step(c) \/ Crash(c)

Spec == Init /\ [][Next]_vars

-----------------------------------------------------------------------------
(* Properties                                                              *)

Stages == {"sent", "received", "averaged", "counted", "scored", "rejected",
           "accepted", "settled", "declined", "patching",
           "done", "refused", "error", "crashed"}

\* Every variable keeps its type.
TypeOK ==
  /\ payment \in [Payments -> PaymentRow]
  /\ age \in [Payments -> 0..2]
  /\ settled \in [Payments -> Nat]
  /\ request \in [Calls -> Requests]
  /\ pc \in [Calls -> Stages]
  /\ obj \in [Calls -> PaymentRow]
  /\ crashes \in 0..MaxCrashes
  /\ balance \in [Wallets -> Int] /\ frozen \in [Wallets -> BOOLEAN]

Deliveries(p) == {c \in Calls : request[c].kind = "webhook" /\ About(c) = p}
Successful(p) == {c \in Deliveries(p) : request[c].success}
AtRest == \A c \in Calls : Ended(c)
Deposit(p) == payment[p].draft.direction = "deposit"
Patched == \E c \in Calls : request[c].kind = "patch"

\* Each True answer has a settlement of its own behind it, and each settlement a
\* successful delivery of its own that got past the commit, be it answered, be its
\* answer on its way, or did the event or the worker fail: a retried webhook may settle
\* again, a failing tail does not.
SettledByDeliveries ==
  \A p \in Payments :
    LET answered == {c \in Successful(p) : pc[c] = "done"}
        past == {c \in Successful(p) : pc[c] \in {"settled", "done", "error", "crashed"}}
    IN /\ payment[p].draft.direction # "other" => Cardinality(answered) <= settled[p]
       /\ settled[p] <= Cardinality(past)

\* A payment delivered at most once and never edited ends booked exactly once if it is
\* a completed deposit that the reserve backs, even when it expires while its webhook
\* is being processed or the event fails.  Any other is not booked, completed or not: a
\* withdrawal has no credits_amount, and a deposit above the reserve is refused by
\* mint_credits, both after the completed status has been saved.
BookedIfBacked ==
  AtRest /\ crashes = 0 /\ ~Patched =>
    \A p \in Payments :
      Cardinality(Deliveries(p)) <= 1 =>
        settled[p] = IF Deposit(p) /\ payment[p].credits <= Backing
                        /\ payment[p].status = "completed" THEN 1 ELSE 0

\* When no payment is delivered twice or edited, a frozen wallet has a failed
\* payment that shows all four signs of fraud: no three of them score over 80.
FreezeIsExplained ==
  (~Patched /\ \A p \in Payments : Cardinality(Deliveries(p)) <= 1) =>
    \A w \in Wallets :
      frozen[w] => \E p \in Payments : /\ payment[p].draft.wallet = w
                                       /\ payment[p].status = "failed"
                                       /\ payment[p].flags = Flags

\* Whichever requests race, a payment that failed because its score is over 80 leaves
\* its wallet frozen, unless the worker died between the two writes.
FraudFreezes ==
  AtRest /\ crashes = 0 =>
    \A p \in Payments :
      payment[p].status = "failed" /\ Fraudulent(payment[p])
        => frozen[payment[p].draft.wallet]

\* A webhook delivered again does not credit the payment again.
SettledOnce == \A p \in Payments : settled[p] <= 1
=============================================================================

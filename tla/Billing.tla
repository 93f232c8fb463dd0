------------------------------- MODULE Billing -------------------------------
(***************************************************************************)
(* Payments and automatic top-up of one workspace                          *)
(* (apps/router-api/src/app/billing: billing.service.ts,                   *)
(* auto-top-up.service.ts, credits.gateway.ts, stripe-payment.provider.ts),*)
(* on top of the account that Ledger implements.                           *)
(*                                                                         *)
(* Stripe is external: a payment intent is created, settles and is         *)
(* refunded on its side, and each of those sends a webhook, which may      *)
(* arrive late, more than once and in any order.  A served generation is   *)
(* debited and then, detached from the request, the top-up is considered   *)
(* in the steps its awaits divide it into: read the workspace, claim,      *)
(* charge, apply.                                                          *)
(***************************************************************************)
EXTENDS Integers, Sequences, FiniteSets

CONSTANTS
    Workspace,
    Intents,      \* Stripe payment intents
    Generations,  \* served generations
    Threads,      \* detached top-up considerations
    Amount,       \* what a checkout or a top-up buys
    Cost,         \* what a generation costs
    Threshold,    \* autoTopUpThresholdMicros
    Cooldown,     \* billing.autoTopUpCooldown
    Delayed,      \* the Stripe account accepts payment methods that settle later
    MaxRefunds,   \* bound: partial refunds of one payment
    MaxTime,      \* bound: the clock
    Nothing       \* NULL

ASSUME BillingAssumption ==
    /\ {Amount, Cost, Cooldown} \subseteq Nat \ {0}
    /\ {MaxRefunds, MaxTime, Threshold} \subseteq Nat
    /\ Delayed \in BOOLEAN
    /\ Nothing \notin Intents \cup Nat

VARIABLES
    rows, balance,  \* the account
    now,            \* the clock
    enabled,        \* workspaces.autoTopUpEnabled
    lastAt,         \* workspaces.autoTopUpLastAt
    customer,       \* workspaces.stripeCustomerId; a customer is named by the
                    \* intent whose checkout created it
    intent,         \* the payment intents, at Stripe
    sent,           \* the webhooks Stripe has sent; each may arrive any time
    top             \* top[t]: where the consideration of thread t is

account == <<rows, balance>>
workspace == <<enabled, lastAt, customer>>
vars == <<rows, balance, now, enabled, lastAt, customer, intent, sent, top>>

-----------------------------------------------------------------------------
NoIntent == [st |-> "none", auto |-> FALSE, claim |-> Nothing, customer |-> Nothing, refunded |-> 0, refunds |-> 0]

Idle == [pc |-> "idle"]

Init ==
    /\ rows = << >>
    /\ balance = [ws \in {Workspace} |-> 0]
    /\ now = 0
    /\ enabled = FALSE
    /\ lastAt = Nothing
    /\ customer = Nothing
    /\ intent = [i \in Intents |-> NoIntent]
    /\ sent = {}
    /\ top = [t \in Threads |-> Idle]

Entry(kind, amount, key, ref) ==
    [key |-> key, ws |-> Workspace, kind |-> kind, amount |-> amount, ref |-> ref]

Account == INSTANCE Account WITH Workspaces <- {Workspace}, Entries <- {}

\* ledger.record: a recorded key is a replay, anything else is appended.
Replayed(e) == \E i \in 1 .. Len(rows) : rows[i].key = e.key
RecordMutant(e) == rows' = Append(rows, e) /\ balance' = [balance EXCEPT ![e.ws] = @ + e.amount]
Record(e) == IF Replayed(e) THEN UNCHANGED account ELSE Account!Append1(e)

-----------------------------------------------------------------------------
(* Stripe, as the code uses it. *)

Message(type, i, total) == [type |-> type, intent |-> i, total |-> total]

\* createCheckout: a checkout of a workspace with no customer creates one.
CreateCheckout(i) ==
    /\ intent[i].st = "none"
    /\ intent' = [intent EXCEPT ![i].st = "open",
                                ![i].customer = IF customer = Nothing THEN i ELSE customer]
    /\ UNCHANGED <<account, now, workspace, sent, top>>

\* The user pays, and the session is complete and paid.
CheckoutPaid(i) ==
    /\ intent[i].st = "open"
    /\ intent' = [intent EXCEPT ![i].st = "succeeded"]
    /\ sent' = sent \cup {Message("checkout.session.completed", i, Amount),
                          Message("payment_intent.succeeded", i, Amount)}
    /\ UNCHANGED <<account, now, workspace, top>>

\* The session is complete and the payment has still to settle.
CheckoutUnpaid(i) ==
    /\ Delayed
    /\ intent[i].st = "open"
    /\ intent' = [intent EXCEPT ![i].st = "processing"]
    /\ sent' = sent \cup {Message("checkout.session.completed", i, 0)}
    /\ UNCHANGED <<account, now, workspace, top>>

IntentSettles(i) ==
    /\ intent[i].st = "processing"
    /\ intent' = [intent EXCEPT ![i].st = "succeeded"]
    /\ sent' = sent \cup {Message("payment_intent.succeeded", i, Amount)}
    /\ UNCHANGED <<account, now, workspace, top>>

\* An operator refunds part of a payment; the event carries the running total.
Refunded(i, part) ==
    /\ intent[i].st = "succeeded"
    /\ intent[i].refunds < MaxRefunds
    /\ intent[i].refunded + part <= Amount
    /\ intent' = [intent EXCEPT ![i].refunded = @ + part, ![i].refunds = @ + 1]
    /\ sent' = sent \cup {Message("charge.refunded", i, intent[i].refunded + part)}
    /\ UNCHANGED <<account, now, workspace, top>>

-----------------------------------------------------------------------------
(* handleWebhook: what each event becomes, and what is ignored. *)

Payment(i) == <<"stripe:payment", i>>

FromCheckout(m) ==
    IF m.type = "checkout.session.completed" /\ m.total # 0
    THEN {Entry("purchase", m.total, Payment(m.intent), m.intent)} ELSE {}

FromAutoTopUpMutant(m) == {}
FromAutoTopUp(m) ==
    IF m.type = "payment_intent.succeeded" /\ intent[m.intent].auto
    THEN {Entry("auto_topup", m.total, Payment(m.intent), m.intent)} ELSE {}

FromRefundMutant(m) ==
    IF m.type = "charge.refunded"
    THEN {Entry("refund", -Amount, <<"stripe:refund", m.intent, m.total>>, m.intent)} ELSE {}
FromRefund(m) ==
    IF m.type = "charge.refunded"
    THEN {Entry("refund", -m.total, <<"stripe:refund", m.intent, m.total>>, m.intent)} ELSE {}

\* rememberCustomer: only the first one is kept.
RememberCustomerMutant(c) == customer' = c
RememberCustomer(c) == customer' = IF customer = Nothing THEN c ELSE customer

\* The delivery of a webhook and apply.  One that fails is delivered again.
Deliver(m) ==
    /\ m \in sent
    /\ \E e \in FromCheckout(m) \cup FromAutoTopUp(m) \cup FromRefund(m) :
           /\ RememberCustomer(intent[m.intent].customer)
           /\ Record(e)
    /\ UNCHANGED <<now, enabled, lastAt, intent, sent, top>>

-----------------------------------------------------------------------------
(* The debit of a generation, and the automatic top-up it may cause. *)

SetAutoTopUp ==
    /\ enabled' = ~enabled
    /\ UNCHANGED <<account, now, lastAt, customer, intent, sent, top>>

\* debit: only a first debit considers a top-up, at the time it is called.
Debit(g, t) ==
    /\ top[t] = Idle
    /\ LET e == Entry("usage", -Cost, <<"generation", g>>, g) IN
           /\ ~Replayed(e)
           /\ Record(e)
    /\ top' = [top EXCEPT ![t] = [pc |-> "read", at |-> now]]
    /\ UNCHANGED <<now, workspace, intent, sent>>

ConsiderRead(t) ==
    /\ top[t].pc = "read"
    /\ top' = [top EXCEPT ![t] =
           IF enabled /\ balance[Workspace] < Threshold /\ customer # Nothing
           THEN [pc |-> "claim", at |-> top[t].at, customer |-> customer] ELSE Idle]
    /\ UNCHANGED <<account, now, workspace, intent, sent>>

\* claimAutoTopUp: the cooldown is in the WHERE clause of the one UPDATE.
MayClaimMutant(at) == lastAt = Nothing \/ lastAt < at
MayClaim(at) == lastAt = Nothing \/ lastAt <= at - Cooldown

ClaimAutoTopUp(t) ==
    /\ top[t].pc = "claim"
    /\ IF MayClaim(top[t].at)
       THEN lastAt' = top[t].at /\ top' = [top EXCEPT ![t].pc = "charge"]
       ELSE UNCHANGED lastAt /\ top' = [top EXCEPT ![t] = Idle]
    /\ UNCHANGED <<account, now, enabled, customer, intent, sent>>

\* chargeSaved.  The charge is refused or there is no card; or it succeeds and
\* is answered; or it succeeds and the answer is lost; or it is still processing.
ChargeRefused(t) ==
    /\ top[t].pc = "charge"
    /\ top' = [top EXCEPT ![t] = Idle]
    /\ UNCHANGED <<account, now, workspace, intent, sent>>

Charged(t, i, st) ==
    /\ top[t].pc = "charge"
    /\ intent[i].st = "none"
    /\ intent' = [intent EXCEPT ![i] = [NoIntent EXCEPT !.st = st, !.auto = TRUE,
                                            !.claim = top[t].at, !.customer = top[t].customer]]

ChargeSucceeds(t, i) ==
    /\ Charged(t, i, "succeeded")
    /\ sent' = sent \cup {Message("payment_intent.succeeded", i, Amount)}
    /\ \/ top' = [top EXCEPT ![t] = [pc |-> "apply", at |-> top[t].at, intent |-> i]]
       \/ top' = [top EXCEPT ![t] = Idle]
    /\ UNCHANGED <<account, now, workspace>>

ChargeProcessing(t, i) ==
    /\ Charged(t, i, "processing")
    /\ top' = [top EXCEPT ![t] = Idle]
    /\ UNCHANGED <<account, now, workspace, sent>>

\* apply of the synchronous answer, under the key of the claim.
ApplyCharge(t) ==
    /\ top[t].pc = "apply"
    /\ RememberCustomer(intent[top[t].intent].customer)
    /\ Record(Entry("auto_topup", Amount, <<"autotopup", top[t].at>>, top[t].intent))
    /\ top' = [top EXCEPT ![t] = Idle]
    /\ UNCHANGED <<now, enabled, lastAt, intent, sent>>

\* The process dies: what it considered is forgotten, the claim stands.
Crash ==
    /\ \E t \in Threads : top[t] # Idle
    /\ top' = [t \in Threads |-> Idle]
    /\ UNCHANGED <<account, now, workspace, intent, sent>>

Tick ==
    /\ now < MaxTime
    /\ now' = now + 1
    /\ UNCHANGED <<account, workspace, intent, sent, top>>

-----------------------------------------------------------------------------
Messages ==
    {Message(type, i, total) : type \in {"checkout.session.completed", "payment_intent.succeeded", "charge.refunded"},
                               i \in Intents, total \in 0 .. Amount}

Stripe(i) ==
    \/ CreateCheckout(i)
    \/ CheckoutPaid(i)
    \/ CheckoutUnpaid(i)
    \/ IntentSettles(i)
    \/ \E part \in 1 .. Amount : Refunded(i, part)

Consider(t) ==
    \/ ConsiderRead(t)
    \/ ClaimAutoTopUp(t)
    \/ ChargeRefused(t)
    \/ \E i \in Intents : ChargeSucceeds(t, i) \/ ChargeProcessing(t, i)
    \/ ApplyCharge(t)

Next ==
    \/ \E i \in Intents : Stripe(i)
    \/ \E m \in sent : Deliver(m)
    \/ SetAutoTopUp
    \/ \E t \in Threads : (\E g \in Generations : Debit(g, t)) \/ Consider(t)
    \/ Crash
    \/ Tick

Spec == Init /\ [][Next]_vars

\* Stripe repeats a webhook until it is acknowledged.
Fairness == \A m \in Messages : WF_vars(Deliver(m))

FairSpec == Spec /\ Fairness

-----------------------------------------------------------------------------
(* Properties *)

TypeOK ==
    /\ balance \in [{Workspace} -> Int]
    /\ now \in 0 .. MaxTime
    /\ enabled \in BOOLEAN
    /\ lastAt \in {Nothing} \cup 0 .. MaxTime
    /\ customer \in {Nothing} \cup Intents
    /\ intent \in [Intents -> [st : {"none", "open", "processing", "succeeded"}, auto : BOOLEAN,
                               claim : {Nothing} \cup 0 .. MaxTime, customer : {Nothing} \cup Intents,
                               refunded : 0 .. Amount, refunds : 0 .. MaxRefunds]]
    /\ sent \subseteq Messages
    /\ \A t \in Threads : top[t].pc \in {"idle", "read", "claim", "charge", "apply"}

RowsOf(i, kinds) == {n \in 1 .. Len(rows) : rows[n].ref = i /\ rows[n].kind \in kinds}

CreditsOf(i) == RowsOf(i, {"purchase", "auto_topup"})

Credited(i) == CreditsOf(i) # {}

AutoIntents == {i \in Intents : intent[i].auto}

\* A checkout buys its credit once, however often and in whatever order its
\* webhooks arrive (the key of fromCheckout is the payment, not the event).
CheckoutCreditedOnce == \A i \in Intents \ AutoIntents : Cardinality(CreditsOf(i)) <= 1

\* What refunds have taken from the balance is no more than what was given back
\* (fromRefund).
Removed(i) ==
    LET sum[n \in 0 .. Len(rows)] ==
            IF n = 0 THEN 0
            ELSE sum[n - 1] + (IF n \in RowsOf(i, {"refund"}) THEN -rows[n].amount ELSE 0)
    IN  sum[Len(rows)]
RefundMatches == \A i \in Intents : Removed(i) <= intent[i].refunded

\* Two automatic charges are a cooldown apart, whatever failed in between
\* (claimAutoTopUp).
ChargesSpaced ==
    \A i, j \in AutoIntents : i # j =>
        \/ intent[i].claim - intent[j].claim >= Cooldown
        \/ intent[j].claim - intent[i].claim >= Cooldown

\* The customer whose card an automatic charge uses is the workspace's first
\* one, and it is never replaced (rememberCustomer).
ChargesFirstCustomer == \A i \in AutoIntents : intent[i].customer = customer

\* What Stripe has reported as paid to a handler of the code: an automatic
\* charge, or a checkout session that was paid when it completed.
ReportedPaid(i) ==
    \/ intent[i].auto /\ intent[i].st = "succeeded"
    \/ Message("checkout.session.completed", i, Amount) \in sent

\* A payment that is reported is credited in the end, by the answer or by a
\* webhook, also when the answer is lost or the process dies (handleWebhook).
PaidIsCredited == \A i \in Intents : ReportedPaid(i) ~> Credited(i)

\* "the synchronous and asynchronous paths collapse onto one row"
\* (chargeSaved): an automatic charge is credited once.
CollapsedOntoOneRow == \A i \in AutoIntents : Cardinality(CreditsOf(i)) <= 1
=============================================================================

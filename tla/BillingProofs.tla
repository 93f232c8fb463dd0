---------------------------- MODULE BillingProofs ----------------------------
(***************************************************************************)
(* Proofs about Billing, for every number of payments, generations and     *)
(* threads, every amount and every cooldown: automatic charges are a       *)
(* cooldown apart, they use the first customer of the workspace, a         *)
(* checkout is credited once, and a payment refunded once is debited what  *)
(* was given back.                                                         *)
(***************************************************************************)
EXTENDS Billing, FiniteSetTheorems, TLAPS

Times == 0 .. MaxTime

Keys ==
    ({"stripe:payment"} \X Intents) \cup ({"stripe:refund"} \X Intents \X (0 .. Amount))
        \cup ({"generation"} \X Generations) \cup ({"autotopup"} \X Times)

Kinds == {"purchase", "auto_topup", "refund", "usage"}

Rows == [key : Keys, ws : {Workspace}, kind : Kinds, amount : Int, ref : Intents \cup Generations]

Positions ==
    {Idle} \cup [pc : {"read"}, at : Times]
        \cup [pc : {"claim", "charge"}, at : Times, customer : {Nothing} \cup Intents]
        \cup [pc : {"apply"}, at : Times, intent : Intents]

\* The types, with what TypeOK leaves open: a row, and what a thread carries
\* at each of its steps.
Typed == TypeOK /\ rows \in Seq(Rows) /\ top \in [Threads -> Positions]

Charging == {t \in Threads : top[t].pc = "charge"}

Apart(a, b) == a - b >= Cooldown \/ b - a >= Cooldown

\* The claims made so far, by an intent or by a thread about to charge, are
\* spaced, and none is later than the last one recorded.
ClaimsSpaced ==
    /\ \A i \in AutoIntents : intent[i].claim \in Times /\ lastAt \in Times /\ intent[i].claim <= lastAt
    /\ \A t \in Charging : lastAt \in Times /\ top[t].at <= lastAt
    /\ \A i, j \in AutoIntents : i # j => Apart(intent[i].claim, intent[j].claim)
    /\ \A t \in Charging, i \in AutoIntents : Apart(top[t].at, intent[i].claim)
    /\ \A t, u \in Charging : t # u => Apart(top[t].at, top[u].at)

\* A thread past its read, and an automatic charge, have the customer of the
\* workspace; a charge that is being applied is an automatic one.
CustomerKept ==
    /\ \A i \in Intents : intent[i].st = "none" => ~intent[i].auto
    /\ \A i \in AutoIntents : customer # Nothing /\ intent[i].customer = customer
    /\ \A t \in Threads : top[t].pc \in {"claim", "charge"} => customer # Nothing /\ top[t].customer = customer
    /\ \A t \in Threads : top[t].pc = "apply" => top[t].intent \in AutoIntents

\* A row that credits a payment has the key of that payment, unless the
\* payment is an automatic charge; no key is recorded twice.
CreditsKeyed ==
    /\ \A n \in 1 .. Len(rows) : rows[n].kind \in {"purchase", "auto_topup"} =>
           rows[n].ref \in Intents /\ (rows[n].key = Payment(rows[n].ref) \/ intent[rows[n].ref].auto)
    /\ \A m, n \in 1 .. Len(rows) : rows[m].key = rows[n].key => m = n

\* The inductive invariant.
BillingInv == Typed /\ ClaimsSpaced /\ CustomerKept /\ CreditsKeyed

-----------------------------------------------------------------------------
(* The initial state *)

LEMMA Constants ==
  /\ Amount \in Nat \ {0} /\ Cost \in Nat \ {0} /\ Cooldown \in Nat \ {0}
  /\ MaxRefunds \in Nat /\ MaxTime \in Nat /\ Threshold \in Nat
  /\ Nothing \notin Intents /\ Nothing \notin Nat
BY BillingAssumption

LEMMA InitInv == Init => BillingInv
<1> SUFFICES ASSUME Init PROVE BillingInv
  OBVIOUS
<1>1. Typed
  <2>1. intent \in [Intents -> [st : {"none", "open", "processing", "succeeded"}, auto : BOOLEAN,
                               claim : {Nothing} \cup 0 .. MaxTime, customer : {Nothing} \cup Intents,
                               refunded : 0 .. Amount, refunds : 0 .. MaxRefunds]]
    BY Constants DEF Init, NoIntent
  <2>2. rows \in Seq(Rows) /\ balance \in [{Workspace} -> Int] /\ now \in 0 .. MaxTime
    BY Constants DEF Init
  <2>3. top \in [Threads -> Positions] /\ \A t \in Threads : top[t].pc = "idle"
    BY DEF Init, Positions, Idle
  <2> QED
    BY <2>1, <2>2, <2>3 DEF Init, Typed, TypeOK
<1>2. AutoIntents = {} /\ Charging = {}
  BY DEF Init, NoIntent, AutoIntents, Charging, Idle
<1>3. ClaimsSpaced
  BY <1>2 DEF ClaimsSpaced
<1>4. CustomerKept
  BY <1>2 DEF CustomerKept, Init, NoIntent, Idle
<1>5. CreditsKeyed
  BY DEF CreditsKeyed, Init
<1> QED
  BY <1>1, <1>3, <1>4, <1>5 DEF BillingInv

-----------------------------------------------------------------------------
(* Types *)

\* What a webhook records is a row.
LEMMA DeliverRecords ==
  ASSUME Typed, NEW m \in sent, NEW e \in FromCheckout(m) \cup FromAutoTopUp(m) \cup FromRefund(m)
  PROVE  /\ m.intent \in Intents /\ e \in Rows
         /\ e.kind \in {"purchase", "auto_topup"} => e.ref \in Intents /\ e.key = Payment(e.ref)
<1>1. m \in [type : {"checkout.session.completed", "payment_intent.succeeded", "charge.refunded"},
             intent : Intents, total : 0 .. Amount]
  BY DEF Typed, TypeOK, Messages, Message
<1>2. Amount \in Nat /\ m.total \in Int /\ -m.total \in Int
  BY <1>1, Constants
<1>3. CASE e \in FromCheckout(m)
  BY <1>1, <1>2, <1>3 DEF FromCheckout, Entry, Payment, Rows, Keys, Kinds
<1>4. CASE e \in FromAutoTopUp(m)
  BY <1>1, <1>2, <1>4 DEF FromAutoTopUp, Entry, Payment, Rows, Keys, Kinds
<1>5. CASE e \in FromRefund(m)
  BY <1>1, <1>2, <1>5 DEF FromRefund, Entry, Payment, Rows, Keys, Kinds
<1> QED
  BY <1>3, <1>4, <1>5

\* Recording a row keeps the types of the account.
LEMMA RecordTyped ==
  ASSUME Typed, NEW e \in Rows, Record(e)
  PROVE  rows' \in Seq(Rows) /\ balance' \in [{Workspace} -> Int]
<1>1. rows \in Seq(Rows) /\ balance \in [{Workspace} -> Int] /\ e.ws = Workspace /\ e.amount \in Int
  BY DEF Typed, TypeOK, Rows
<1>2. CASE UNCHANGED account
  BY <1>1, <1>2 DEF account
<1>3. CASE Account!Append1(e)
  BY <1>1, <1>3 DEF Account!Append1
<1> QED
  BY <1>2, <1>3 DEF Record

\* What Stripe sends is a message.
LEMMA MessageTyped ==
  ASSUME NEW i \in Intents, NEW total \in 0 .. Amount
  PROVE  /\ Message("checkout.session.completed", i, total) \in Messages
         /\ Message("payment_intent.succeeded", i, total) \in Messages
         /\ Message("charge.refunded", i, total) \in Messages
BY DEF Messages

\* A position of a thread, by its pc.
LEMMA PositionOf ==
  ASSUME Typed, NEW t \in Threads
  PROVE  /\ top[t].pc = "read" => top[t] \in [pc : {"read"}, at : Times]
         /\ top[t].pc \in {"claim", "charge"} =>
                top[t] \in [pc : {"claim", "charge"}, at : Times, customer : {Nothing} \cup Intents]
         /\ top[t].pc = "apply" => top[t] \in [pc : {"apply"}, at : Times, intent : Intents]
BY DEF Typed, Positions, Idle

IntentType ==
    [st : {"none", "open", "processing", "succeeded"}, auto : BOOLEAN,
     claim : {Nothing} \cup 0 .. MaxTime, customer : {Nothing} \cup Intents,
     refunded : 0 .. Amount, refunds : 0 .. MaxRefunds]

\* What a charge makes of its intent, and that it leaves the others alone.
LEMMA ChargedIntent ==
  ASSUME Typed, NEW t \in Threads, NEW i \in Intents, NEW st \in {"processing", "succeeded"}, Charged(t, i, st)
  PROVE  /\ intent' \in [Intents -> IntentType]
         /\ intent'[i].st = st /\ intent'[i].auto
         /\ intent'[i].claim = top[t].at /\ intent'[i].customer = top[t].customer
         /\ \A j \in Intents : j # i => intent'[j] = intent[j]
<1> DEFINE new == [NoIntent EXCEPT !.st = st, !.auto = TRUE, !.claim = top[t].at, !.customer = top[t].customer]
<1>1. top[t].at \in 0 .. MaxTime /\ top[t].customer \in {Nothing} \cup Intents
  BY PositionOf DEF Charged, Times
<1>2. NoIntent \in IntentType
  BY Constants DEF NoIntent, IntentType
<1>3. new \in IntentType
  BY <1>1, <1>2 DEF IntentType
<1>4. new.st = st /\ new.auto /\ new.claim = top[t].at /\ new.customer = top[t].customer
  BY DEF NoIntent
<1>5. intent' = [intent EXCEPT ![i] = new] /\ intent \in [Intents -> IntentType]
  BY DEF Charged, Typed, TypeOK, IntentType
<1> HIDE DEF new
<1> QED
  BY <1>3, <1>4, <1>5

LEMMA StepTyped == Typed /\ [Next]_vars => Typed'
<1> SUFFICES ASSUME Typed, [Next]_vars PROVE Typed'
  OBVIOUS
<1> USE DEF account, workspace
<1> USE Constants
<1>0. Amount \in 0 .. Amount /\ 0 \in 0 .. Amount
  OBVIOUS
<1>1. ASSUME NEW i \in Intents, CreateCheckout(i) PROVE Typed'
  BY <1>1 DEF Typed, TypeOK, CreateCheckout
<1>2. ASSUME NEW i \in Intents, CheckoutPaid(i) PROVE Typed'
  BY <1>0, <1>2, MessageTyped DEF Typed, TypeOK, CheckoutPaid
<1>3. ASSUME NEW i \in Intents, CheckoutUnpaid(i) PROVE Typed'
  BY <1>0, <1>3, MessageTyped DEF Typed, TypeOK, CheckoutUnpaid
<1>4. ASSUME NEW i \in Intents, IntentSettles(i) PROVE Typed'
  BY <1>0, <1>4, MessageTyped DEF Typed, TypeOK, IntentSettles
<1>5. ASSUME NEW i \in Intents, NEW part \in 1 .. Amount, Refunded(i, part) PROVE Typed'
  <2>1. intent[i].refunded + part \in 0 .. Amount /\ intent[i].refunds + 1 \in 0 .. MaxRefunds
    BY <1>5 DEF Typed, TypeOK, Refunded
  <2> QED
    BY <1>5, <2>1, MessageTyped DEF Typed, TypeOK, Refunded
<1>6. ASSUME NEW m \in sent, Deliver(m) PROVE Typed'
  <2>1. PICK e \in FromCheckout(m) \cup FromAutoTopUp(m) \cup FromRefund(m) :
            RememberCustomer(intent[m.intent].customer) /\ Record(e)
    BY <1>6 DEF Deliver
  <2> QED
    BY <1>6, <2>1, DeliverRecords, RecordTyped DEF Deliver, RememberCustomer, Typed, TypeOK
<1>7. CASE SetAutoTopUp
  BY <1>7 DEF SetAutoTopUp, Typed, TypeOK
<1>8. ASSUME NEW t \in Threads, NEW g \in Generations, Debit(g, t) PROVE Typed'
  <2> DEFINE e == Entry("usage", -Cost, <<"generation", g>>, g)
  <2>1. e \in Rows
    BY DEF Entry, Rows, Keys, Kinds
  <2>2. Record(e)
    BY <1>8 DEF Debit
  <2>3. rows' \in Seq(Rows) /\ balance' \in [{Workspace} -> Int]
    BY <2>1, <2>2, RecordTyped
  <2> QED
    BY <1>8, <2>3 DEF Debit, Typed, TypeOK, Positions, Times
<1>9. ASSUME NEW t \in Threads, ConsiderRead(t) PROVE Typed'
  <2>1. top'[t] \in Positions
    BY <1>9, PositionOf DEF ConsiderRead, Typed, TypeOK, Positions
  <2> QED
    BY <1>9, <2>1 DEF ConsiderRead, Typed, TypeOK, Positions, Idle
<1>10. ASSUME NEW t \in Threads, ClaimAutoTopUp(t) PROVE Typed'
  <2>1. top[t] \in [pc : {"claim", "charge"}, at : Times, customer : {Nothing} \cup Intents]
    BY <1>10, PositionOf DEF ClaimAutoTopUp
  <2>2. [top[t] EXCEPT !.pc = "charge"] \in Positions
    BY <2>1 DEF Positions
  <2>3. top' \in [Threads -> Positions] /\ lastAt' \in {Nothing} \cup 0 .. MaxTime
    <3>1. Idle \in Positions /\ top[t].at \in 0 .. MaxTime
      BY <2>1 DEF Positions, Times
    <3>2. CASE MayClaim(top[t].at)
      BY <1>10, <2>2, <3>1, <3>2 DEF ClaimAutoTopUp, Typed
    <3>3. CASE ~MayClaim(top[t].at)
      BY <1>10, <3>1, <3>3 DEF ClaimAutoTopUp, Typed, TypeOK
    <3> QED
      BY <3>2, <3>3
  <2>4. \A p \in Positions : p.pc \in {"idle", "read", "claim", "charge", "apply"}
    BY DEF Positions, Idle
  <2> QED
    BY <1>10, <2>3, <2>4 DEF ClaimAutoTopUp, Typed, TypeOK
<1>11. ASSUME NEW t \in Threads, ChargeRefused(t) PROVE Typed'
  BY <1>11 DEF ChargeRefused, Typed, TypeOK, Positions, Idle
<1>12. ASSUME NEW t \in Threads, NEW i \in Intents, ChargeSucceeds(t, i) PROVE Typed'
  <2>1. top[t].at \in Times
    BY <1>12, PositionOf DEF ChargeSucceeds, Charged
  <2>2. intent' \in [Intents -> IntentType]
    BY <1>12, ChargedIntent DEF ChargeSucceeds
  <2>3. top' \in [Threads -> Positions]
    BY <1>12, <2>1 DEF ChargeSucceeds, Typed, Positions
  <2>4. \A p \in Positions : p.pc \in {"idle", "read", "claim", "charge", "apply"}
    BY DEF Positions, Idle
  <2>5. sent' \subseteq Messages
    BY <1>0, <1>12, MessageTyped DEF ChargeSucceeds, Typed, TypeOK
  <2> QED
    BY <1>12, <2>2, <2>3, <2>4, <2>5 DEF ChargeSucceeds, Typed, TypeOK, IntentType
<1>13. ASSUME NEW t \in Threads, NEW i \in Intents, ChargeProcessing(t, i) PROVE Typed'
  <2>1. top[t].at \in Times
    BY <1>13, PositionOf DEF ChargeProcessing, Charged
  <2>2. intent' \in [Intents -> IntentType]
    BY <1>13, ChargedIntent DEF ChargeProcessing
  <2>3. top' \in [Threads -> Positions]
    BY <1>13, <2>1 DEF ChargeProcessing, Typed, Positions
  <2>4. \A p \in Positions : p.pc \in {"idle", "read", "claim", "charge", "apply"}
    BY DEF Positions, Idle
  <2>5. sent' \subseteq Messages
    BY <1>0, <1>13, MessageTyped DEF ChargeProcessing, Typed, TypeOK
  <2> QED
    BY <1>13, <2>2, <2>3, <2>4, <2>5 DEF ChargeProcessing, Typed, TypeOK, IntentType
<1>14. ASSUME NEW t \in Threads, ApplyCharge(t) PROVE Typed'
  <2>1. top[t] \in [pc : {"apply"}, at : Times, intent : Intents]
    BY <1>14, PositionOf DEF ApplyCharge
  <2> DEFINE e == Entry("auto_topup", Amount, <<"autotopup", top[t].at>>, top[t].intent)
  <2>2. e \in Rows
    BY <2>1 DEF Entry, Rows, Keys, Kinds
  <2>3. rows' \in Seq(Rows) /\ balance' \in [{Workspace} -> Int]
    BY <1>14, <2>2, RecordTyped DEF ApplyCharge
  <2> QED
    BY <1>14, <2>1, <2>3 DEF ApplyCharge, RememberCustomer, Typed, TypeOK, Positions, Idle
<1>15. CASE Crash
  BY <1>15 DEF Crash, Typed, TypeOK, Positions, Idle
<1>16. CASE Tick
  BY <1>16 DEF Tick, Typed, TypeOK
<1>17. CASE UNCHANGED vars
  BY <1>17 DEF vars, Typed, TypeOK
<1> QED
  BY <1>1, <1>2, <1>3, <1>4, <1>5, <1>6, <1>7, <1>8, <1>9, <1>10, <1>11, <1>12, <1>13, <1>14, <1>15, <1>16, <1>17
     DEF Next, Stripe, Consider

-----------------------------------------------------------------------------
(* Claims *)

\* A step of Stripe changes no automatic charge's claim and makes none.
LEMMA StripeKeepsClaims ==
  ASSUME Typed, NEW i \in Intents, Stripe(i)
  PROVE  /\ AutoIntents' = AutoIntents
         /\ \A j \in Intents : intent'[j].claim = intent[j].claim
         /\ UNCHANGED <<account, workspace, top>>
<1>1. intent \in [Intents -> IntentType]
  BY DEF Typed, TypeOK, IntentType
<1>2. CASE CreateCheckout(i)
  BY <1>1, <1>2 DEF CreateCheckout, IntentType, AutoIntents
<1>3. CASE CheckoutPaid(i)
  BY <1>1, <1>3 DEF CheckoutPaid, IntentType, AutoIntents
<1>4. CASE CheckoutUnpaid(i)
  BY <1>1, <1>4 DEF CheckoutUnpaid, IntentType, AutoIntents
<1>5. CASE IntentSettles(i)
  BY <1>1, <1>5 DEF IntentSettles, IntentType, AutoIntents
<1>6. ASSUME NEW part \in 1 .. Amount, Refunded(i, part)
      PROVE  /\ AutoIntents' = AutoIntents
             /\ \A j \in Intents : intent'[j].claim = intent[j].claim
             /\ UNCHANGED <<account, workspace, top>>
  BY <1>1, <1>6 DEF Refunded, IntentType, AutoIntents
<1> QED
  BY <1>2, <1>3, <1>4, <1>5, <1>6 DEF Stripe

\* A step that makes no claim and no charge keeps the claims spaced.
LEMMA ClaimsStay ==
  ASSUME ClaimsSpaced, AutoIntents' = AutoIntents, lastAt' = lastAt,
         \A i \in AutoIntents : intent'[i].claim = intent[i].claim,
         \A t \in Threads : top'[t].pc = "charge" => top'[t] = top[t]
  PROVE  ClaimsSpaced'
<1>1. Charging' \subseteq Charging /\ \A t \in Charging' : top'[t].at = top[t].at
  BY DEF Charging
<1> QED
  BY <1>1 DEF ClaimsSpaced, Apart

\* A charge turns the claim of a thread into the claim of an intent.
LEMMA ChargeKeepsSpaced ==
  ASSUME Typed, ClaimsSpaced, NEW t \in Threads, NEW i \in Intents, NEW st \in {"processing", "succeeded"},
         Charged(t, i, st), lastAt' = lastAt,
         \A u \in Threads : top'[u].pc = "charge" => u # t /\ top'[u] = top[u]
  PROVE  ClaimsSpaced'
<1>1. t \in Charging /\ top[t].at \in Times
  BY PositionOf DEF Charged, Charging
<1>2. Charging' \subseteq Charging \ {t} /\ \A u \in Charging' : top'[u].at = top[u].at
  BY DEF Charging
<1>3. AutoIntents' \subseteq AutoIntents \cup {i} /\ intent'[i].claim = top[t].at
  BY ChargedIntent DEF AutoIntents
<1>4. \A j \in AutoIntents' : j # i => j \in AutoIntents /\ intent'[j].claim = intent[j].claim
  BY <1>3, ChargedIntent DEF AutoIntents
<1> QED
  BY <1>1, <1>2, <1>3, <1>4 DEF ClaimsSpaced, Apart

LEMMA StepSpaced == Typed /\ ClaimsSpaced /\ [Next]_vars => ClaimsSpaced'
<1> SUFFICES ASSUME Typed, ClaimsSpaced, [Next]_vars PROVE ClaimsSpaced'
  OBVIOUS
<1> USE DEF account, workspace
<1>0. top \in [Threads -> Positions] /\ \A t \in Threads : top[t].pc # "charge" => t \notin Charging
  BY DEF Typed, Charging
<1>1. ASSUME NEW i \in Intents, Stripe(i) PROVE ClaimsSpaced'
  BY <1>1, StripeKeepsClaims, ClaimsStay DEF AutoIntents
<1>2. ASSUME NEW m \in sent, Deliver(m) PROVE ClaimsSpaced'
  BY <1>2, ClaimsStay DEF Deliver, AutoIntents
<1>3. CASE SetAutoTopUp
  BY <1>3, ClaimsStay DEF SetAutoTopUp, AutoIntents
<1>4. ASSUME NEW t \in Threads, NEW g \in Generations, Debit(g, t) PROVE ClaimsSpaced'
  <2>1. \A u \in Threads : top'[u].pc = "charge" => top'[u] = top[u]
    BY <1>0, <1>4 DEF Debit
  <2> QED
    BY <1>4, <2>1, ClaimsStay DEF Debit, AutoIntents
<1>5. ASSUME NEW t \in Threads, ConsiderRead(t) PROVE ClaimsSpaced'
  <2>1. \A u \in Threads : top'[u].pc = "charge" => top'[u] = top[u]
    BY <1>0, <1>5 DEF ConsiderRead, Idle
  <2> QED
    BY <1>5, <2>1, ClaimsStay DEF ConsiderRead, AutoIntents
<1>6. ASSUME NEW t \in Threads, ClaimAutoTopUp(t) PROVE ClaimsSpaced'
  <2>1. top[t] \in [pc : {"claim", "charge"}, at : Times, customer : {Nothing} \cup Intents] /\ t \notin Charging
    BY <1>6, PositionOf DEF ClaimAutoTopUp, Charging
  <2>2. CASE ~MayClaim(top[t].at)
    <3>1. \A u \in Threads : top'[u].pc = "charge" => top'[u] = top[u]
      BY <1>0, <1>6, <2>2 DEF ClaimAutoTopUp, Idle
    <3> QED
      BY <1>6, <2>2, <3>1, ClaimsStay DEF ClaimAutoTopUp, AutoIntents
  <2>3. CASE MayClaim(top[t].at)
    <3>1. lastAt' = top[t].at /\ top' = [top EXCEPT ![t].pc = "charge"]
      BY <1>6, <2>3 DEF ClaimAutoTopUp
    <3>2. top'[t].at = top[t].at /\ \A u \in Threads : u # t => top'[u] = top[u]
      BY <1>0, <2>1, <3>1
    <3>3. Charging' = Charging \cup {t}
      BY <1>0, <2>1, <3>1 DEF Charging
    <3>4. AutoIntents' = AutoIntents /\ \A i \in AutoIntents : intent'[i].claim = intent[i].claim
      BY <1>6 DEF ClaimAutoTopUp, AutoIntents
    <3>5. top[t].at \in Int /\ Cooldown \in Nat /\ \A a \in Times : a \in Int
      BY <2>1, Constants DEF Times
    <3>6. \A i \in AutoIntents : intent[i].claim <= top[t].at - Cooldown
      BY <2>3, <3>5, Constants DEF ClaimsSpaced, MayClaim, Times
    <3>7. \A u \in Charging : top[u].at \in Times /\ top[u].at <= top[t].at - Cooldown
      BY <2>3, <3>5, Constants, PositionOf DEF ClaimsSpaced, MayClaim, Times, Charging
    <3> QED
      BY <2>1, <3>1, <3>2, <3>3, <3>4, <3>5, <3>6, <3>7 DEF ClaimsSpaced, Apart
  <2> QED
    BY <2>2, <2>3
<1>7. ASSUME NEW t \in Threads, ChargeRefused(t) PROVE ClaimsSpaced'
  <2>1. \A u \in Threads : top'[u].pc = "charge" => top'[u] = top[u]
    BY <1>0, <1>7 DEF ChargeRefused, Idle
  <2> QED
    BY <1>7, <2>1, ClaimsStay DEF ChargeRefused, AutoIntents
<1>8. ASSUME NEW t \in Threads, NEW i \in Intents, ChargeSucceeds(t, i) PROVE ClaimsSpaced'
  <2>1. \A u \in Threads : top'[u].pc = "charge" => u # t /\ top'[u] = top[u]
    BY <1>0, <1>8 DEF ChargeSucceeds, Idle
  <2> QED
    BY <1>8, <2>1, ChargeKeepsSpaced DEF ChargeSucceeds
<1>9. ASSUME NEW t \in Threads, NEW i \in Intents, ChargeProcessing(t, i) PROVE ClaimsSpaced'
  <2>1. \A u \in Threads : top'[u].pc = "charge" => u # t /\ top'[u] = top[u]
    BY <1>0, <1>9 DEF ChargeProcessing, Idle
  <2> QED
    BY <1>9, <2>1, ChargeKeepsSpaced DEF ChargeProcessing
<1>10. ASSUME NEW t \in Threads, ApplyCharge(t) PROVE ClaimsSpaced'
  <2>1. \A u \in Threads : top'[u].pc = "charge" => top'[u] = top[u]
    BY <1>0, <1>10 DEF ApplyCharge, Idle
  <2> QED
    BY <1>10, <2>1, ClaimsStay DEF ApplyCharge, AutoIntents
<1>11. CASE Crash
  BY <1>11, ClaimsStay DEF Crash, Idle, AutoIntents
<1>12. CASE Tick
  BY <1>12, ClaimsStay DEF Tick, AutoIntents
<1>13. CASE UNCHANGED vars
  BY <1>13, ClaimsStay DEF vars, AutoIntents
<1> QED
  BY <1>1, <1>2, <1>3, <1>4, <1>5, <1>6, <1>7, <1>8, <1>9, <1>10, <1>11, <1>12, <1>13 DEF Next, Consider

-----------------------------------------------------------------------------
(* Customers *)

\* A step of Stripe changes no automatic charge's customer.
LEMMA StripeKeepsCustomers ==
  ASSUME Typed, CustomerKept, NEW i \in Intents, Stripe(i)
  PROVE  /\ \A j \in AutoIntents : intent'[j].customer = intent[j].customer
         /\ \A j \in Intents : intent'[j].st = "none" => intent[j].st = "none"
<1>1. intent \in [Intents -> IntentType]
  BY DEF Typed, TypeOK, IntentType
<1>2. CASE CreateCheckout(i)
  <2>1. i \notin AutoIntents
    BY <1>2 DEF CreateCheckout, CustomerKept, AutoIntents
  <2> QED
    BY <1>1, <1>2, <2>1 DEF CreateCheckout, IntentType, AutoIntents
<1>3. CASE CheckoutPaid(i)
  BY <1>1, <1>3 DEF CheckoutPaid, IntentType, AutoIntents
<1>4. CASE CheckoutUnpaid(i)
  BY <1>1, <1>4 DEF CheckoutUnpaid, IntentType, AutoIntents
<1>5. CASE IntentSettles(i)
  BY <1>1, <1>5 DEF IntentSettles, IntentType, AutoIntents
<1>6. ASSUME NEW part \in 1 .. Amount, Refunded(i, part)
      PROVE  /\ \A j \in AutoIntents : intent'[j].customer = intent[j].customer
             /\ \A j \in Intents : intent'[j].st = "none" => intent[j].st = "none"
  BY <1>1, <1>6 DEF Refunded, IntentType, AutoIntents
<1> QED
  BY <1>2, <1>3, <1>4, <1>5, <1>6 DEF Stripe

\* A step that replaces no customer keeps them, if a thread moves only to where
\* it carries the customer of the workspace or an automatic charge.
LEMMA CustomersStay ==
  ASSUME CustomerKept, UNCHANGED intent, customer # Nothing => customer' = customer,
         \A t \in Threads : \/ top'[t] = top[t]
                            \/ top'[t].pc \notin {"claim", "charge", "apply"}
                            \/ /\ top'[t].pc \in {"claim", "charge"}
                               /\ customer # Nothing /\ top'[t].customer = customer
  PROVE  CustomerKept'
BY DEF CustomerKept, AutoIntents

\* A charge uses the customer its thread carries.
LEMMA ChargeKeepsCustomers ==
  ASSUME Typed, CustomerKept, NEW t \in Threads, NEW i \in Intents, NEW st \in {"processing", "succeeded"},
         Charged(t, i, st), customer' = customer, top' \in [Threads -> Positions],
         \A u \in Threads : \/ top'[u] = top[u]
                            \/ top'[u].pc = "idle"
                            \/ top'[u].pc = "apply" /\ top'[u].intent = i
  PROVE  CustomerKept'
<1>1. customer # Nothing /\ top[t].customer = customer
  BY DEF CustomerKept, Charged
<1>2. AutoIntents' = AutoIntents \cup {i} /\ intent'[i].customer = customer
  BY <1>1, ChargedIntent DEF AutoIntents
<1>3. \A j \in Intents : j # i => intent'[j] = intent[j]
  BY ChargedIntent
<1>4. intent'[i].st # "none"
  BY ChargedIntent
<1> QED
  BY <1>1, <1>2, <1>3, <1>4 DEF CustomerKept, AutoIntents

LEMMA StepCustomers == Typed /\ CustomerKept /\ [Next]_vars => CustomerKept'
<1> SUFFICES ASSUME Typed, CustomerKept, [Next]_vars PROVE CustomerKept'
  OBVIOUS
<1> USE DEF account, workspace
<1>0. top \in [Threads -> Positions]
  BY DEF Typed
<1>1. ASSUME NEW i \in Intents, Stripe(i) PROVE CustomerKept'
  BY <1>1, StripeKeepsClaims, StripeKeepsCustomers DEF CustomerKept, AutoIntents
<1>2. ASSUME NEW m \in sent, Deliver(m) PROVE CustomerKept'
  BY <1>2, CustomersStay DEF Deliver, RememberCustomer
<1>3. CASE SetAutoTopUp
  BY <1>3, CustomersStay DEF SetAutoTopUp
<1>4. ASSUME NEW t \in Threads, NEW g \in Generations, Debit(g, t) PROVE CustomerKept'
  <2>1. \A u \in Threads : top'[u] = top[u] \/ top'[u].pc \notin {"claim", "charge", "apply"}
    BY <1>0, <1>4 DEF Debit
  <2> QED
    BY <1>4, <2>1, CustomersStay DEF Debit
<1>5. ASSUME NEW t \in Threads, ConsiderRead(t) PROVE CustomerKept'
  <2>1. \A u \in Threads : \/ top'[u] = top[u]
                           \/ top'[u].pc \notin {"claim", "charge", "apply"}
                           \/ top'[u].pc = "claim" /\ customer # Nothing /\ top'[u].customer = customer
    BY <1>0, <1>5 DEF ConsiderRead, Idle
  <2> QED
    BY <1>5, <2>1, CustomersStay DEF ConsiderRead
<1>6. ASSUME NEW t \in Threads, ClaimAutoTopUp(t) PROVE CustomerKept'
  <2>1. top[t] \in [pc : {"claim", "charge"}, at : Times, customer : {Nothing} \cup Intents]
    BY <1>6, PositionOf DEF ClaimAutoTopUp
  <2>2. customer # Nothing /\ top[t].customer = customer
    BY <1>6 DEF ClaimAutoTopUp, CustomerKept
  <2>3. \A u \in Threads : \/ top'[u] = top[u]
                           \/ top'[u].pc \notin {"claim", "charge", "apply"}
                           \/ top'[u].pc = "charge" /\ top'[u].customer = customer
    BY <1>0, <1>6, <2>1, <2>2 DEF ClaimAutoTopUp, Idle
  <2> QED
    BY <1>6, <2>2, <2>3, CustomersStay DEF ClaimAutoTopUp
<1>7. ASSUME NEW t \in Threads, ChargeRefused(t) PROVE CustomerKept'
  <2>1. \A u \in Threads : top'[u] = top[u] \/ top'[u].pc = "idle"
    BY <1>0, <1>7 DEF ChargeRefused, Idle
  <2> QED
    BY <1>7, <2>1, CustomersStay DEF ChargeRefused
<1>8. ASSUME NEW t \in Threads, NEW i \in Intents, ChargeSucceeds(t, i) PROVE CustomerKept'
  <2>1. \A u \in Threads : \/ top'[u] = top[u]
                           \/ top'[u].pc = "idle"
                           \/ top'[u].pc = "apply" /\ top'[u].intent = i
    BY <1>0, <1>8 DEF ChargeSucceeds, Idle
  <2>2. Typed'
    BY StepTyped
  <2> QED
    BY <1>8, <2>1, <2>2, ChargeKeepsCustomers DEF ChargeSucceeds, Typed
<1>9. ASSUME NEW t \in Threads, NEW i \in Intents, ChargeProcessing(t, i) PROVE CustomerKept'
  <2>1. \A u \in Threads : top'[u] = top[u] \/ top'[u].pc = "idle"
    BY <1>0, <1>9 DEF ChargeProcessing, Idle
  <2>2. Typed'
    BY StepTyped
  <2> QED
    BY <1>9, <2>1, <2>2, ChargeKeepsCustomers DEF ChargeProcessing, Typed
<1>10. ASSUME NEW t \in Threads, ApplyCharge(t) PROVE CustomerKept'
  <2>1. \A u \in Threads : top'[u] = top[u] \/ top'[u].pc = "idle"
    BY <1>0, <1>10 DEF ApplyCharge, Idle
  <2> QED
    BY <1>10, <2>1, CustomersStay DEF ApplyCharge, RememberCustomer
<1>11. CASE Crash
  BY <1>11, CustomersStay DEF Crash, Idle
<1>12. CASE Tick
  BY <1>12, CustomersStay DEF Tick
<1>13. CASE UNCHANGED vars
  BY <1>13, CustomersStay DEF vars
<1> QED
  BY <1>1, <1>2, <1>3, <1>4, <1>5, <1>6, <1>7, <1>8, <1>9, <1>10, <1>11, <1>12, <1>13 DEF Next, Consider

-----------------------------------------------------------------------------
(* Credits *)

\* An automatic charge stays one.
LEMMA AutoStays == Typed /\ [Next]_vars => AutoIntents \subseteq AutoIntents'
<1> SUFFICES ASSUME Typed, [Next]_vars PROVE AutoIntents \subseteq AutoIntents'
  OBVIOUS
<1>1. ASSUME NEW i \in Intents, Stripe(i) PROVE AutoIntents \subseteq AutoIntents'
  BY <1>1, StripeKeepsClaims
<1>2. ASSUME NEW t \in Threads, NEW i \in Intents, ChargeSucceeds(t, i) \/ ChargeProcessing(t, i)
      PROVE  AutoIntents \subseteq AutoIntents'
  BY <1>2, ChargedIntent DEF ChargeSucceeds, ChargeProcessing, AutoIntents
<1>3. CASE UNCHANGED intent
  BY <1>3 DEF AutoIntents
<1> QED
  BY <1>1, <1>2, <1>3 DEF Next, Consider, Deliver, SetAutoTopUp, Debit, ConsiderRead, ClaimAutoTopUp, ChargeRefused,
     ApplyCharge, Crash, Tick, vars

\* A step that records nothing keeps the credits keyed.
LEMMA CreditsStay ==
  ASSUME CreditsKeyed, AutoIntents \subseteq AutoIntents', rows' = rows
  PROVE  CreditsKeyed'
BY DEF CreditsKeyed, AutoIntents, Payment

\* Recording a row that has the key of its payment, or credits an automatic
\* charge, keeps the credits keyed.
LEMMA RecordKeyed ==
  ASSUME Typed, CreditsKeyed, AutoIntents \subseteq AutoIntents', NEW e \in Rows, Record(e),
         e.kind \in {"purchase", "auto_topup"} =>
             e.ref \in Intents /\ (e.key = Payment(e.ref) \/ e.ref \in AutoIntents)
  PROVE  CreditsKeyed'
<1>1. CASE UNCHANGED account
  BY <1>1, CreditsStay DEF account
<1>2. CASE Account!Append1(e)
  <2>1. rows \in Seq(Rows) /\ rows' = Append(rows, e) /\ \A n \in 1 .. Len(rows) : rows[n].key # e.key
    BY <1>2 DEF Typed, Account!Append1
  <2>2. Len(rows) \in Nat /\ Len(rows') = Len(rows) + 1 /\ rows'[Len(rows) + 1] = e
        /\ \A n \in 1 .. Len(rows) : rows'[n] = rows[n]
    BY <2>1
  <2> QED
    BY <2>1, <2>2 DEF CreditsKeyed, AutoIntents, Payment
<1> QED
  BY <1>1, <1>2 DEF Record

LEMMA StepKeyed == Typed /\ CustomerKept /\ CreditsKeyed /\ [Next]_vars => CreditsKeyed'
<1> SUFFICES ASSUME Typed, CustomerKept, CreditsKeyed, [Next]_vars PROVE CreditsKeyed'
  OBVIOUS
<1>0. AutoIntents \subseteq AutoIntents'
  BY AutoStays
<1>1. ASSUME NEW m \in sent, Deliver(m) PROVE CreditsKeyed'
  <2>1. PICK e \in FromCheckout(m) \cup FromAutoTopUp(m) \cup FromRefund(m) : Record(e)
    BY <1>1 DEF Deliver
  <2> QED
    BY <1>0, <2>1, DeliverRecords, RecordKeyed
<1>2. ASSUME NEW t \in Threads, NEW g \in Generations, Debit(g, t) PROVE CreditsKeyed'
  <2> DEFINE e == Entry("usage", -Cost, <<"generation", g>>, g)
  <2>1. e \in Rows /\ e.kind = "usage" /\ Record(e)
    BY <1>2, Constants DEF Debit, Entry, Rows, Keys, Kinds
  <2> HIDE DEF e
  <2> QED
    BY <1>0, <2>1, RecordKeyed
<1>3. ASSUME NEW t \in Threads, ApplyCharge(t) PROVE CreditsKeyed'
  <2>1. top[t] \in [pc : {"apply"}, at : Times, intent : Intents]
    BY <1>3, PositionOf DEF ApplyCharge
  <2> DEFINE e == Entry("auto_topup", Amount, <<"autotopup", top[t].at>>, top[t].intent)
  <2>2. e \in Rows /\ e.ref = top[t].intent /\ Record(e)
    BY <1>3, <2>1, Constants DEF ApplyCharge, Entry, Rows, Keys, Kinds
  <2>3. e.ref \in AutoIntents
    BY <1>3, <2>2 DEF ApplyCharge, CustomerKept
  <2> HIDE DEF e
  <2> QED
    BY <1>0, <2>2, <2>3, RecordKeyed DEF AutoIntents
<1>4. CASE rows' = rows
  BY <1>0, <1>4, CreditsStay
<1> QED
  BY <1>1, <1>2, <1>3, <1>4 DEF Next, Stripe, Consider, CreateCheckout, CheckoutPaid, CheckoutUnpaid, IntentSettles,
     Refunded, SetAutoTopUp, ConsiderRead, ClaimAutoTopUp, ChargeRefused, ChargeSucceeds, ChargeProcessing,
     Crash, Tick, account, vars

-----------------------------------------------------------------------------
(***************************************************************************)
(* Refunds.  Each event carries the running total of its charge, so a row  *)
(* is right for a payment that has been refunded once, and only for that.  *)
(* Removed is a recursive function: that there is one, and where it ends,  *)
(* Removals carries through the steps, in place of an induction over rows. *)
(***************************************************************************)

RefundKey(i, total) == <<"stripe:refund", i, total>>

RefundsOf(i) == RowsOf(i, {"refund"})

\* A refund event is of a settled payment, and the only one of a payment that
\* has been refunded once carries what was given back.
RefundsSent ==
    \A m \in sent : m.type = "charge.refunded" =>
        /\ intent[m.intent].st = "succeeded" /\ intent[m.intent].refunds # 0
        /\ intent[m.intent].refunds = 1 => m.total = intent[m.intent].refunded

\* A refund row comes from an event, whose key it has.
RefundsRecorded ==
    \A n \in 1 .. Len(rows) : rows[n].kind = "refund" =>
        \E m \in sent : /\ m.type = "charge.refunded" /\ m.intent = rows[n].ref
                        /\ rows[n].key = RefundKey(m.intent, m.total)

\* What row e takes for payment i, and the running totals of that over s.
Taken(e, i) == IF e.ref = i /\ e.kind = "refund" THEN -e.amount ELSE 0
RunningTotals(f, s, i) == f = [n \in 0 .. Len(s) |-> IF n = 0 THEN 0 ELSE f[n - 1] + Taken(s[n], i)]

\* The rows have running totals, which end in what was given back of a payment
\* refunded once, as soon as its event has been recorded.
Removals ==
    \A i \in Intents :
        /\ \E f : RunningTotals(f, rows, i)
        /\ \A f : RunningTotals(f, rows, i) =>
               /\ RefundsOf(i) = {} => f[Len(rows)] = 0
               /\ RefundsOf(i) # {} /\ intent[i].refunds <= 1 => f[Len(rows)] = intent[i].refunded

RefundInv == RefundsSent /\ RefundsRecorded /\ Removals

\* A payment with a refund row has been refunded; if once, the row has the key
\* of that refund.
LEMMA RefundRow ==
  ASSUME Typed, RefundsSent, RefundsRecorded, NEW i \in Intents, NEW n \in RefundsOf(i)
  PROVE  /\ intent[i].st = "succeeded" /\ intent[i].refunds # 0
         /\ intent[i].refunds = 1 => rows[n].key = RefundKey(i, intent[i].refunded)
<1>1. n \in 1 .. Len(rows) /\ rows[n].ref = i /\ rows[n].kind = "refund"
  BY DEF RefundsOf, RowsOf
<1>2. PICK m \in sent : /\ m.type = "charge.refunded" /\ m.intent = i
                        /\ rows[n].key = RefundKey(m.intent, m.total)
  BY <1>1 DEF RefundsRecorded
<1> QED
  BY <1>2 DEF RefundsSent

\* A settled payment stays settled, what was given back of it changes with a
\* refund only, and the event of a refund carries the new total.
LEMMA IntentStep ==
  ASSUME Typed, [Next]_vars
  PROVE  /\ \A j \in Intents : intent[j].st = "succeeded" =>
                /\ intent'[j].st = "succeeded" /\ intent'[j].refunds >= intent[j].refunds
                /\ intent'[j].refunds = intent[j].refunds => intent'[j].refunded = intent[j].refunded
         /\ \A m \in sent' \ sent : m.type = "charge.refunded" =>
                /\ m.intent \in Intents
                /\ intent[m.intent].st = "succeeded" /\ intent'[m.intent].st = "succeeded"
                /\ intent'[m.intent].refunds = intent[m.intent].refunds + 1
                /\ m.total = intent'[m.intent].refunded
         /\ sent \subseteq sent'
<1> DEFINE Goal ==
             /\ \A j \in Intents : intent[j].st = "succeeded" =>
                    /\ intent'[j].st = "succeeded" /\ intent'[j].refunds >= intent[j].refunds
                    /\ intent'[j].refunds = intent[j].refunds => intent'[j].refunded = intent[j].refunded
             /\ \A m \in sent' \ sent : m.type = "charge.refunded" =>
                    /\ m.intent \in Intents
                    /\ intent[m.intent].st = "succeeded" /\ intent'[m.intent].st = "succeeded"
                    /\ intent'[m.intent].refunds = intent[m.intent].refunds + 1
                    /\ m.total = intent'[m.intent].refunded
             /\ sent \subseteq sent'
<1>1. intent \in [Intents -> IntentType] /\ \A j \in Intents : intent[j].refunds \in Nat /\ intent[j].refunded \in Nat
  BY Constants DEF Typed, TypeOK, IntentType
<1>2. ASSUME NEW i \in Intents, CreateCheckout(i) PROVE Goal
  BY <1>1, <1>2 DEF CreateCheckout, IntentType
<1>3. ASSUME NEW i \in Intents, CheckoutPaid(i) PROVE Goal
  BY <1>1, <1>3 DEF CheckoutPaid, IntentType, Message
<1>4. ASSUME NEW i \in Intents, CheckoutUnpaid(i) PROVE Goal
  BY <1>1, <1>4 DEF CheckoutUnpaid, IntentType, Message
<1>5. ASSUME NEW i \in Intents, IntentSettles(i) PROVE Goal
  BY <1>1, <1>5 DEF IntentSettles, IntentType, Message
<1>6. ASSUME NEW i \in Intents, NEW part \in 1 .. Amount, Refunded(i, part) PROVE Goal
  <2>1. intent[i].st = "succeeded" /\ part \in Nat
    BY <1>6, Constants DEF Refunded
  <2>2. /\ intent'[i].st = "succeeded" /\ intent'[i].refunds = intent[i].refunds + 1
        /\ intent'[i].refunded = intent[i].refunded + part
        /\ \A j \in Intents : j # i => intent'[j] = intent[j]
    BY <1>1, <1>6, <2>1 DEF Refunded, IntentType
  <2>3. sent' = sent \cup {Message("charge.refunded", i, intent[i].refunded + part)}
    BY <1>6 DEF Refunded
  <2> QED
    BY <1>1, <2>1, <2>2, <2>3 DEF Message
<1>7. ASSUME NEW t \in Threads, NEW i \in Intents, NEW st \in {"processing", "succeeded"}, Charged(t, i, st),
             sent' \ sent \subseteq {Message("payment_intent.succeeded", i, Amount)}, sent \subseteq sent'
      PROVE  Goal
  <2>1. intent[i].st = "none"
    BY <1>7 DEF Charged
  <2>2. \A j \in Intents : j # i => intent'[j] = intent[j]
    BY <1>7, ChargedIntent
  <2>3. intent'[i].refunds = 0
    BY <1>1, <1>7 DEF Charged, NoIntent
  <2> QED
    BY <1>1, <1>7, <2>1, <2>2, <2>3 DEF Message
<1>8. ASSUME NEW t \in Threads, NEW i \in Intents, ChargeSucceeds(t, i) \/ ChargeProcessing(t, i) PROVE Goal
  BY <1>7, <1>8 DEF ChargeSucceeds, ChargeProcessing
<1>9. CASE UNCHANGED <<intent, sent>>
  BY <1>1, <1>9
<1> QED
  BY <1>2, <1>3, <1>4, <1>5, <1>6, <1>8, <1>9 DEF Next, Stripe, Consider, Deliver, SetAutoTopUp, Debit, ConsiderRead,
     ClaimAutoTopUp, ChargeRefused, ApplyCharge, Crash, Tick, vars

\* A step appends a row that is no refund, or the refund of a delivered event,
\* or leaves the rows alone.
LEMMA RowStep ==
  ASSUME Typed, [Next]_vars, rows' # rows
  PROVE  /\ UNCHANGED <<intent, sent>>
         /\ \E e \in Rows :
                /\ rows' = Append(rows, e)
                /\ \A n \in 1 .. Len(rows) : rows[n].key # e.key
                /\ e.kind = "refund" =>
                       \E m \in sent : /\ m.type = "charge.refunded" /\ m.intent = e.ref /\ m.intent \in Intents
                                       /\ m.total \in Nat /\ e.amount = -m.total
                                       /\ e.key = RefundKey(m.intent, m.total)
<1> DEFINE Goal ==
             \E e \in Rows :
                /\ rows' = Append(rows, e)
                /\ \A n \in 1 .. Len(rows) : rows[n].key # e.key
                /\ e.kind = "refund" =>
                       \E m \in sent : /\ m.type = "charge.refunded" /\ m.intent = e.ref /\ m.intent \in Intents
                                       /\ m.total \in Nat /\ e.amount = -m.total
                                       /\ e.key = RefundKey(m.intent, m.total)
<1>1. ASSUME NEW e \in Rows, Record(e) PROVE rows' = Append(rows, e) /\ \A n \in 1 .. Len(rows) : rows[n].key # e.key
  BY <1>1 DEF Record, Account!Append1, account
<1>2. ASSUME NEW m \in sent, Deliver(m) PROVE Goal /\ UNCHANGED <<intent, sent>>
  <2>1. PICK e \in FromCheckout(m) \cup FromAutoTopUp(m) \cup FromRefund(m) : Record(e)
    BY <1>2 DEF Deliver
  <2>2. m.intent \in Intents /\ e \in Rows
    BY <2>1, DeliverRecords
  <2>3. m.total \in Nat
    BY Constants DEF Typed, TypeOK, Messages, Message
  <2>4. e.kind = "refund" => /\ m.type = "charge.refunded" /\ m.intent = e.ref
                             /\ e.amount = -m.total /\ e.key = RefundKey(m.intent, m.total)
    BY <2>1 DEF FromCheckout, FromAutoTopUp, FromRefund, Entry, RefundKey
  <2> QED
    BY <1>1, <1>2, <2>1, <2>2, <2>3, <2>4 DEF Deliver
<1>3. ASSUME NEW t \in Threads, NEW g \in Generations, Debit(g, t) PROVE Goal /\ UNCHANGED <<intent, sent>>
  <2> DEFINE e == Entry("usage", -Cost, <<"generation", g>>, g)
  <2>1. e \in Rows /\ e.kind = "usage" /\ Record(e)
    BY <1>3, Constants DEF Debit, Entry, Rows, Keys, Kinds
  <2> HIDE DEF e
  <2> QED
    BY <1>1, <1>3, <2>1 DEF Debit
<1>4. ASSUME NEW t \in Threads, ApplyCharge(t) PROVE Goal /\ UNCHANGED <<intent, sent>>
  <2>1. top[t] \in [pc : {"apply"}, at : Times, intent : Intents]
    BY <1>4, PositionOf DEF ApplyCharge
  <2> DEFINE e == Entry("auto_topup", Amount, <<"autotopup", top[t].at>>, top[t].intent)
  <2>2. e \in Rows /\ e.kind = "auto_topup" /\ Record(e)
    BY <1>4, <2>1, Constants DEF ApplyCharge, Entry, Rows, Keys, Kinds
  <2> HIDE DEF e
  <2> QED
    BY <1>1, <1>4, <2>2 DEF ApplyCharge
<1> QED
  BY <1>2, <1>3, <1>4 DEF Next, Stripe, Consider, CreateCheckout, CheckoutPaid, CheckoutUnpaid, IntentSettles,
     Refunded, SetAutoTopUp, ConsiderRead, ClaimAutoTopUp, ChargeRefused, ChargeSucceeds, ChargeProcessing,
     Crash, Tick, account, vars

\* The events and their rows.
LEMMA StepRefunds == Typed /\ RefundsSent /\ RefundsRecorded /\ [Next]_vars => RefundsSent' /\ RefundsRecorded'
<1> SUFFICES ASSUME Typed, RefundsSent, RefundsRecorded, [Next]_vars PROVE RefundsSent' /\ RefundsRecorded'
  OBVIOUS
<1>1. \A j \in Intents : intent[j].refunds \in Nat
  BY Constants DEF Typed, TypeOK
<1>2. \A m \in sent : m.intent \in Intents
  BY DEF Typed, TypeOK, Messages, Message
<1>3. RefundsSent'
  <2> SUFFICES ASSUME NEW m \in sent', m.type = "charge.refunded"
               PROVE  /\ intent'[m.intent].st = "succeeded" /\ intent'[m.intent].refunds # 0
                      /\ intent'[m.intent].refunds = 1 => m.total = intent'[m.intent].refunded
    BY DEF RefundsSent
  <2>1. CASE m \in sent
    <3>1. /\ m.intent \in Intents /\ intent[m.intent].refunds \in Nat
          /\ intent[m.intent].st = "succeeded" /\ intent[m.intent].refunds # 0
          /\ intent[m.intent].refunds = 1 => m.total = intent[m.intent].refunded
      BY <1>1, <1>2, <2>1 DEF RefundsSent
    <3>2. /\ intent'[m.intent].st = "succeeded" /\ intent'[m.intent].refunds >= intent[m.intent].refunds
          /\ intent'[m.intent].refunds = intent[m.intent].refunds => intent'[m.intent].refunded = intent[m.intent].refunded
      BY <3>1, IntentStep
    <3>3. intent'[m.intent].refunds \in Nat
      BY <3>1, StepTyped, Constants DEF Typed, TypeOK
    <3> QED
      BY <3>1, <3>2, <3>3
  <2>2. CASE m \notin sent
    <3>1. m \in sent' \ sent
      BY <2>2
    <3>2. /\ m.intent \in Intents /\ intent'[m.intent].st = "succeeded"
          /\ intent'[m.intent].refunds = intent[m.intent].refunds + 1
          /\ m.total = intent'[m.intent].refunded
      BY <3>1, IntentStep
    <3> QED
      BY <1>1, <3>2
  <2> QED
    BY <2>1, <2>2
<1>4. RefundsRecorded'
  <2>1. CASE rows' = rows
    BY <2>1, IntentStep DEF RefundsRecorded
  <2>2. CASE rows' # rows
    <3>1. PICK e \in Rows :
            /\ rows' = Append(rows, e)
            /\ e.kind = "refund" =>
                   \E m \in sent : m.type = "charge.refunded" /\ m.intent = e.ref /\ e.key = RefundKey(m.intent, m.total)
      BY <2>2, RowStep
    <3>2. sent' = sent /\ rows \in Seq(Rows)
      BY <2>2, RowStep DEF Typed
    <3>3. Len(rows) \in Nat /\ Len(rows') = Len(rows) + 1 /\ rows'[Len(rows) + 1] = e
          /\ \A n \in 1 .. Len(rows) : rows'[n] = rows[n]
      BY <3>1, <3>2
    <3> SUFFICES ASSUME NEW n \in 1 .. Len(rows'), rows'[n].kind = "refund"
                 PROVE  \E m \in sent' : /\ m.type = "charge.refunded" /\ m.intent = rows'[n].ref
                                         /\ rows'[n].key = RefundKey(m.intent, m.total)
      BY DEF RefundsRecorded, RefundKey
    <3>4. CASE n = Len(rows) + 1
      BY <3>1, <3>2, <3>3, <3>4
    <3>5. CASE n # Len(rows) + 1
      <4>1. n \in 1 .. Len(rows) /\ rows'[n] = rows[n]
        BY <3>3, <3>5
      <4> QED
        BY <3>2, <4>1 DEF RefundsRecorded
    <3> QED
      BY <3>4, <3>5
  <2> QED
    BY <2>1, <2>2
<1> QED
  BY <1>3, <1>4
\* Running totals of a longer log are those of the shorter one and one more.
LEMMA TotalsOfPrefix ==
  ASSUME NEW S, NEW s \in Seq(S), NEW e \in S, NEW i, NEW f, RunningTotals(f, Append(s, e), i)
  PROVE  /\ RunningTotals([n \in 0 .. Len(s) |-> f[n]], s, i)
         /\ f[Len(s) + 1] = f[Len(s)] + Taken(e, i)
<1> DEFINE t == Append(s, e)
<1> DEFINE g == [n \in 0 .. Len(s) |-> f[n]]
<1>1. Len(s) \in Nat /\ Len(t) = Len(s) + 1 /\ t[Len(s) + 1] = e /\ \A n \in 1 .. Len(s) : t[n] = s[n]
  OBVIOUS
<1>2. \A n \in 0 .. Len(s) + 1 : f[n] = IF n = 0 THEN 0 ELSE f[n - 1] + Taken(t[n], i)
  <2> HIDE DEF t
  <2>1. f = [n \in 0 .. Len(t) |-> IF n = 0 THEN 0 ELSE f[n - 1] + Taken(t[n], i)]
    BY DEF RunningTotals, t
  <2> QED
    BY <1>1, <2>1
<1>3. g = [n \in 0 .. Len(s) |-> IF n = 0 THEN 0 ELSE g[n - 1] + Taken(s[n], i)]
  <2>1. ASSUME NEW n \in 0 .. Len(s) PROVE f[n] = IF n = 0 THEN 0 ELSE g[n - 1] + Taken(s[n], i)
    <3>1. CASE n = 0
      BY <1>1, <1>2, <3>1
    <3>2. CASE n # 0
      <4>1. n \in 1 .. Len(s) /\ n - 1 \in 0 .. Len(s) /\ n \in 0 .. Len(s) + 1
        BY <1>1, <3>2
      <4>2. t[n] = s[n] /\ g[n - 1] = f[n - 1]
        BY <1>1, <4>1
      <4>3. f[n] = f[n - 1] + Taken(t[n], i)
        BY <1>2, <4>1, <3>2
      <4> QED
        BY <4>2, <4>3, <3>2
    <3> QED
      BY <3>1, <3>2
  <2> QED
    BY <2>1
<1>4. f[Len(s) + 1] = f[Len(s)] + Taken(e, i)
  <2>1. Len(s) + 1 \in 0 .. Len(s) + 1 /\ Len(s) + 1 # 0 /\ (Len(s) + 1) - 1 = Len(s)
    BY <1>1
  <2> QED
    BY <1>1, <1>2, <2>1
<1> QED
  BY <1>3, <1>4 DEF RunningTotals

\* Running totals extend to a longer log.
LEMMA TotalsExtend ==
  ASSUME NEW S, NEW s \in Seq(S), NEW e \in S, NEW i, NEW g, RunningTotals(g, s, i)
  PROVE  \E f : RunningTotals(f, Append(s, e), i)
<1> DEFINE t == Append(s, e)
<1> DEFINE f == [n \in 0 .. Len(s) + 1 |-> IF n = Len(s) + 1 THEN g[Len(s)] + Taken(e, i) ELSE g[n]]
<1>1. Len(s) \in Nat /\ Len(t) = Len(s) + 1 /\ t[Len(s) + 1] = e /\ \A n \in 1 .. Len(s) : t[n] = s[n]
  OBVIOUS
<1>2. \A n \in 0 .. Len(s) : g[n] = IF n = 0 THEN 0 ELSE g[n - 1] + Taken(s[n], i)
  <2>1. g = [n \in 0 .. Len(s) |-> IF n = 0 THEN 0 ELSE g[n - 1] + Taken(s[n], i)]
    BY DEF RunningTotals
  <2> QED
    BY <2>1
<1>3. \A n \in 0 .. Len(s) : f[n] = g[n]
  BY <1>1
<1>4. f[Len(s) + 1] = g[Len(s)] + Taken(e, i)
  BY <1>1
<1> HIDE DEF t
<1>5. ASSUME NEW n \in 0 .. Len(s) + 1 PROVE f[n] = IF n = 0 THEN 0 ELSE f[n - 1] + Taken(t[n], i)
  <2> HIDE DEF f
  <2>1. CASE n = 0
    BY <1>1, <1>2, <1>3, <2>1
  <2>2. CASE n # 0 /\ n # Len(s) + 1
    <3>1. n \in 1 .. Len(s) /\ n \in 0 .. Len(s) /\ n - 1 \in 0 .. Len(s)
      BY <1>1, <2>2
    <3> QED
      BY <1>1, <1>2, <1>3, <2>2, <3>1
  <2>3. CASE n = Len(s) + 1
    <3>1. n # 0 /\ n - 1 = Len(s) /\ Len(s) \in 0 .. Len(s)
      BY <1>1, <2>3
    <3> QED
      BY <1>1, <1>3, <1>4, <2>3, <3>1
  <2> QED
    BY <2>1, <2>2, <2>3
<1>6. f = [n \in 0 .. Len(t) |-> IF n = 0 THEN 0 ELSE f[n - 1] + Taken(t[n], i)]
  BY <1>1, <1>5
<1> QED
  BY <1>6 DEF RunningTotals, t

\* What the totals end in follows every step: a new row of a payment refunded
\* once is the first of it.
LEMMA StepRemovals ==
  Typed /\ RefundsSent /\ RefundsRecorded /\ Removals /\ [Next]_vars => Removals'
<1> SUFFICES ASSUME Typed, RefundsSent, RefundsRecorded, Removals, [Next]_vars, NEW i \in Intents
             PROVE  /\ \E f : RunningTotals(f, rows', i)
                    /\ \A f : RunningTotals(f, rows', i) =>
                           /\ RefundsOf(i)' = {} => f[Len(rows')] = 0
                           /\ RefundsOf(i)' # {} /\ intent'[i].refunds <= 1 => f[Len(rows')] = intent'[i].refunded
  BY DEF Removals
<1>0. intent[i].refunds \in Nat /\ intent'[i].refunds \in Nat /\ intent[i].refunded \in Nat /\ rows \in Seq(Rows)
  BY Constants, StepTyped DEF Typed, TypeOK
<1>1. CASE rows' = rows
  <2>1. RefundsOf(i)' = RefundsOf(i)
    BY <1>1 DEF RefundsOf, RowsOf
  <2>2. ASSUME NEW n \in RefundsOf(i), intent'[i].refunds <= 1
        PROVE  intent[i].refunds <= 1 /\ intent'[i].refunded = intent[i].refunded
    <3>1. intent[i].st = "succeeded" /\ intent[i].refunds # 0
      BY <2>2, RefundRow
    <3>2. /\ intent'[i].refunds >= intent[i].refunds
          /\ intent'[i].refunds = intent[i].refunds => intent'[i].refunded = intent[i].refunded
      BY <3>1, IntentStep
    <3> QED
      BY <1>0, <2>2, <3>1, <3>2
  <2> QED
    BY <1>1, <2>1, <2>2 DEF Removals
<1>2. CASE rows' # rows
  <2>1. intent' = intent
    BY <1>2, RowStep
  <2>2. PICK e \in Rows :
            /\ rows' = Append(rows, e)
            /\ \A n \in 1 .. Len(rows) : rows[n].key # e.key
            /\ e.kind = "refund" =>
                   \E m \in sent : /\ m.type = "charge.refunded" /\ m.intent = e.ref /\ m.intent \in Intents
                                   /\ m.total \in Nat /\ e.amount = -m.total
                                   /\ e.key = RefundKey(m.intent, m.total)
    BY <1>2, RowStep
  <2>3. Len(rows) \in Nat /\ Len(rows') = Len(rows) + 1 /\ rows'[Len(rows) + 1] = e
        /\ \A n \in 1 .. Len(rows) : rows'[n] = rows[n]
    BY <1>0, <2>2
  <2>4. \E f : RunningTotals(f, rows', i)
    <3>1. PICK g : RunningTotals(g, rows, i)
      BY DEF Removals
    <3> QED
      BY <1>0, <2>2, <3>1, TotalsExtend
  <2>5. ASSUME NEW f, RunningTotals(f, rows', i)
        PROVE  /\ RefundsOf(i)' = {} => f[Len(rows')] = 0
               /\ RefundsOf(i)' # {} /\ intent[i].refunds <= 1 => f[Len(rows')] = intent[i].refunded
    <3> DEFINE h == [n \in 0 .. Len(rows) |-> f[n]]
    <3>1. RunningTotals(h, rows, i) /\ f[Len(rows) + 1] = f[Len(rows)] + Taken(e, i)
      BY <1>0, <2>2, <2>5, TotalsOfPrefix
    <3>2. h[Len(rows)] = f[Len(rows)]
      BY <2>3
    <3>3. /\ RefundsOf(i) = {} => f[Len(rows)] = 0
          /\ RefundsOf(i) # {} /\ intent[i].refunds <= 1 => f[Len(rows)] = intent[i].refunded
      BY <3>1, <3>2 DEF Removals
    <3>4. CASE e.kind = "refund" /\ e.ref = i
      <4>1. PICK m \in sent : /\ m.type = "charge.refunded" /\ m.intent = i
                              /\ m.total \in Nat /\ e.amount = -m.total /\ e.key = RefundKey(i, m.total)
        BY <2>2, <3>4
      <4>2. Len(rows) + 1 \in RefundsOf(i)'
        BY <2>3, <3>4 DEF RefundsOf, RowsOf
      <4>3. Taken(e, i) = m.total
        BY <3>4, <4>1 DEF Taken
      <4>4. ASSUME intent[i].refunds <= 1 PROVE f[Len(rows')] = intent[i].refunded
        <5>1. intent[i].refunds = 1 /\ m.total = intent[i].refunded
          BY <1>0, <4>1, <4>4 DEF RefundsSent
        <5>2. RefundsOf(i) = {}
          <6> SUFFICES ASSUME NEW n \in RefundsOf(i) PROVE FALSE
            OBVIOUS
          <6>1. rows[n].key = RefundKey(i, intent[i].refunded) /\ n \in 1 .. Len(rows)
            BY <5>1, RefundRow DEF RefundsOf, RowsOf
          <6> QED
            BY <2>2, <4>1, <5>1, <6>1
        <5> QED
          BY <1>0, <2>3, <3>1, <3>3, <4>3, <5>1, <5>2
      <4> QED
        BY <4>2, <4>4
    <3>5. CASE ~(e.kind = "refund" /\ e.ref = i)
      <4>1. Taken(e, i) = 0
        BY <3>5 DEF Taken
      <4>2. RefundsOf(i)' = RefundsOf(i)
        BY <2>3, <3>5 DEF RefundsOf, RowsOf
      <4> QED
        BY <1>0, <2>3, <3>1, <3>3, <4>1, <4>2
    <3> QED
      BY <3>4, <3>5
  <2> QED
    BY <2>1, <2>4, <2>5
<1> QED
  BY <1>1, <1>2

\* Removed is where the running totals end.
LEMMA RemovedIs ==
  ASSUME Typed, Removals, NEW i \in Intents
  PROVE  \E f : RunningTotals(f, rows, i) /\ Removed(i) = f[Len(rows)]
<1> DEFINE Defines(f) ==
             f = [n \in 0 .. Len(rows) |->
                      IF n = 0 THEN 0 ELSE f[n - 1] + (IF n \in RowsOf(i, {"refund"}) THEN -rows[n].amount ELSE 0)]
<1> DEFINE sum == CHOOSE f : Defines(f)
<1>1. Removed(i) = sum[Len(rows)]
  BY DEF Removed
<1>2. \A n \in 0 .. Len(rows) : n # 0 =>
          (IF n \in RowsOf(i, {"refund"}) THEN -rows[n].amount ELSE 0) = Taken(rows[n], i)
  <2>1. Len(rows) \in Nat
    BY DEF Typed
  <2> QED
    BY <2>1 DEF RowsOf, Taken
<1>3. ASSUME NEW f PROVE Defines(f) <=> RunningTotals(f, rows, i)
  BY <1>2 DEF RunningTotals
<1>4. \E f : Defines(f)
  BY <1>3 DEF Removals
<1> HIDE DEF Defines
<1>5. Defines(sum)
  BY <1>4
<1> QED
  BY <1>1, <1>3, <1>5

-----------------------------------------------------------------------------
(* The theorems *)

\* The invariant is inductive: it holds at the start and every step of the
\* webhooks, of the top-up and of Stripe preserves it.
THEOREM BillingInvariant == Spec => []BillingInv
<1>1. BillingInv /\ [Next]_vars => BillingInv'
  BY StepTyped, StepSpaced, StepCustomers, StepKeyed DEF BillingInv
<1> QED
  BY <1>1, InitInv, PTL DEF Spec

\* The types hold (TypeOK).
THEOREM TypeCorrect == Spec => []TypeOK
<1>1. BillingInv => TypeOK
  BY DEF BillingInv, Typed
<1> QED
  BY <1>1, BillingInvariant, PTL

\* Two automatic charges are a cooldown apart, whatever failed between claim
\* and charge (claimAutoTopUp).
THEOREM SpacedCharges == Spec => []ChargesSpaced
<1>1. BillingInv => ChargesSpaced
  BY DEF BillingInv, ClaimsSpaced, ChargesSpaced, Apart
<1> QED
  BY <1>1, BillingInvariant, PTL

\* An automatic charge uses the first customer, which is never replaced
\* (rememberCustomer).
THEOREM FirstCustomerCharged == Spec => []ChargesFirstCustomer
<1>1. BillingInv => ChargesFirstCustomer
  BY DEF BillingInv, CustomerKept, ChargesFirstCustomer
<1> QED
  BY <1>1, BillingInvariant, PTL

\* A checkout is credited at most once, however its webhooks arrive
\* (handleWebhook, fromCheckout).
THEOREM CreditedOnce == Spec => []CheckoutCreditedOnce
<1>1. BillingInv => CheckoutCreditedOnce
  <2> SUFFICES ASSUME BillingInv, NEW i \in Intents \ AutoIntents PROVE Cardinality(CreditsOf(i)) <= 1
    BY DEF CheckoutCreditedOnce
  <2>1. \A m, n \in CreditsOf(i) : m = n
    BY DEF CreditsOf, RowsOf, BillingInv, CreditsKeyed, AutoIntents
  <2>2. CASE CreditsOf(i) = {}
    BY <2>2, FS_EmptySet
  <2>3. ASSUME NEW n \in CreditsOf(i) PROVE Cardinality(CreditsOf(i)) <= 1
    <3>1. CreditsOf(i) = {n}
      BY <2>1, <2>3
    <3> QED
      BY <3>1, FS_Singleton
  <2> QED
    BY <2>2, <2>3
<1> QED
  BY <1>1, BillingInvariant, PTL

\* What refunds have taken for a payment refunded at most once is no more than
\* what was given back of it.
RefundedOnceMatches == \A i \in Intents : intent[i].refunds <= 1 => Removed(i) <= intent[i].refunded

\* A payment that was refunded at most once is debited what was given back, and
\* once, however often the event arrives (fromRefund).
THEOREM RefundedOnce == Spec => []RefundedOnceMatches
<1>1. Init => RefundInv
  <2> SUFFICES ASSUME Init PROVE RefundInv
    OBVIOUS
  <2>1. rows = << >> /\ Len(rows) = 0 /\ sent = {}
    BY DEF Init
  <2>2. ASSUME NEW i \in Intents
        PROVE  /\ \E f : RunningTotals(f, rows, i)
               /\ RefundsOf(i) = {} /\ \A f : RunningTotals(f, rows, i) => f[Len(rows)] = 0
    <3>1. RunningTotals([n \in 0 .. 0 |-> 0], rows, i)
      BY <2>1 DEF RunningTotals
    <3>2. ASSUME NEW f, RunningTotals(f, rows, i) PROVE f[Len(rows)] = 0
      <4>1. f = [n \in 0 .. 0 |-> IF n = 0 THEN 0 ELSE f[n - 1] + Taken(rows[n], i)]
        BY <2>1, <3>2 DEF RunningTotals
      <4>2. f[0] = 0
        BY <4>1
      <4> QED
        BY <2>1, <4>2
    <3>3. RefundsOf(i) = {}
      BY <2>1 DEF RefundsOf, RowsOf
    <3> QED
      BY <3>1, <3>2, <3>3
  <2> QED
    BY <2>1, <2>2 DEF RefundInv, RefundsSent, RefundsRecorded, Removals
<1>2. BillingInv /\ RefundInv /\ [Next]_vars => RefundInv'
  BY StepRefunds, StepRemovals DEF BillingInv, RefundInv
<1>3. BillingInv /\ RefundInv => RefundedOnceMatches
  <2> SUFFICES ASSUME BillingInv, RefundInv, NEW i \in Intents, intent[i].refunds <= 1
               PROVE  Removed(i) <= intent[i].refunded
    BY DEF RefundedOnceMatches
  <2>1. PICK f : RunningTotals(f, rows, i) /\ Removed(i) = f[Len(rows)]
    BY RemovedIs DEF BillingInv, RefundInv
  <2>2. f[Len(rows)] = 0 \/ f[Len(rows)] = intent[i].refunded
    BY <2>1 DEF RefundInv, Removals
  <2>3. intent[i].refunded \in Nat
    BY Constants DEF BillingInv, Typed, TypeOK
  <2> QED
    BY <2>1, <2>2, <2>3
<1> QED
  BY <1>1, <1>2, <1>3, BillingInvariant, PTL DEF Spec

\* Where no payment is refunded twice, what refunds took is what was given back
\* (fromRefund).  With a second partial refund it is not: the event carries the
\* running total, and each is debited.
THEOREM RefundsMatch == MaxRefunds <= 1 => (Spec => []RefundMatches)
<1> SUFFICES ASSUME MaxRefunds <= 1 PROVE Spec => []RefundMatches
  OBVIOUS
<1>1. BillingInv /\ RefundedOnceMatches => RefundMatches
  <2> SUFFICES ASSUME BillingInv, RefundedOnceMatches, NEW i \in Intents PROVE Removed(i) <= intent[i].refunded
    BY DEF RefundMatches
  <2>1. intent[i].refunds \in 0 .. MaxRefunds /\ intent[i].refunds <= 1
    BY Constants DEF BillingInv, Typed, TypeOK
  <2> QED
    BY <2>1 DEF RefundedOnceMatches
<1> QED
  BY <1>1, BillingInvariant, RefundedOnce, PTL
=============================================================================

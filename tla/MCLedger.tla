------------------------------ MODULE MCLedger ------------------------------
(* Model checking of Ledger: a workspace buys credit and an operator        *)
(* adjusts it downwards; two writers of one process and one of another      *)
(* record both events, each as often as it likes.                           *)
EXTENDS Ledger

Entry(k, ws, kind, amount) == [key |-> k, ws |-> ws, kind |-> kind, amount |-> amount]

Purchase == Entry("pay", "ws1", "purchase", 2)
Adjust == Entry("adj", "ws1", "adjustment", -2)

MoneyEntries == {Purchase, Adjust}

TwoProcesses == [w \in Writers |-> IF w = "w1" THEN "p1" ELSE "p2"]
=============================================================================

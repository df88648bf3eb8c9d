------------------------------ MODULE MCLedger ------------------------------
EXTENDS Ledger, TLC

CONSTANTS ci, r1, r2

\* Two executions of a namespace that has a share, the second with a timeout
\* or without; the provider meters both ways, and two pools have no room for
\* what both declare.
OneNamespace  == <<ci, ci>>
WithOrWithout == {<<2, 2>>, <<2, 0>>}
Layers        == "calls" :> Total @@ "compute" :> Total @@ "share" :> ci
Meters        == "calls" :> "executions" @@ "compute" :> "seconds" @@ "share" :> "seconds"
Limits        == "calls" :> 2 @@ "compute" :> 3 @@ "share" :> 2
Periods       == "calls" :> "monthly" @@ "compute" :> "daily" @@ "share" :> "daily"
=============================================================================

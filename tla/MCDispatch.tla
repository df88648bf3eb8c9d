----------------------------- MODULE MCDispatch -----------------------------
EXTENDS Dispatch
CONSTANTS near, far

Servers == Permutations(Server)

\* One provider that keeps what ran and reports it, one that leaves a job behind.
PoolAndCloudRun == (near :> "pool") @@ (far :> "cloud-run")
LambdaAndPool == (near :> "lambda") @@ (far :> "pool")
=============================================================================

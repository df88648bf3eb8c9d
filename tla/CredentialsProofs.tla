-------------------------- MODULE CredentialsProofs --------------------------
(***************************************************************************)
(* However many callers are rejected at once, and however often the        *)
(* credential changes: one of them resolves it, and not within a minute of *)
(* one the provider took.                                                  *)
(***************************************************************************)
EXTENDS Credentials, TLAPS

\* What the lock keeps: a caller is inside only while it holds it, and the
\* credential it is to resolve is not a recent one.
LockInv(c) ==
    /\ at[c] \in Inside => lock = {c}
    /\ at[c] = "resolving" => ~recent

IInv == DOMAIN at = Caller /\ \A c \in Caller : LockInv(c)

\* Nobody is inside at first.
LEMMA InitIInv == Init => IInv
  BY DEF Init, IInv, LockInv, Inside

\* Only the holder of the lock takes the credential for recent, so no other
\* caller can be resolving then.
LEMMA StepIInv == ASSUME IInv, NEW c \in Caller, Step(c) PROVE IInv'
  <1> USE DEF IInv, LockInv, Inside
  <1>1. CASE Call(c)
    BY <1>1 DEF Call
  <1>2. CASE Over(c)
    BY <1>2 DEF Over
  <1>3. CASE Rejected(c)
    <2>1. at' = [at EXCEPT ![c] = IF again[c] \/ ~renewable THEN "idle" ELSE "rejected"]
          /\ UNCHANGED <<lock, recent>>
      BY <1>3 DEF Rejected
    <2> QED BY <2>1
  <1>4. CASE Lock(c)
    <2>1. UNCHANGED recent /\ lock = {}
      BY <1>4 DEF Lock
    <2>2. \A d \in Caller : at[d] \notin Inside
      BY <2>1
    <2>3. \/ at' = [at EXCEPT ![c] = "calling"] /\ UNCHANGED lock
          \/ ~recent /\ lock' = {c} /\ at' = [at EXCEPT ![c] = "resolving"]
      BY <1>4 DEF Lock, Retried
    <2> QED BY <2>1, <2>2, <2>3
  <1>5. CASE Resolve(c)
    BY <1>5 DEF Resolve
  <1>6. CASE Hand(c)
    <2>1. at[c] = "handing" /\ at' = [at EXCEPT ![c] = "calling"]
      BY <1>6 DEF Hand, Retried
    <2>2. \A d \in Caller \ {c} : at[d] \notin Inside
      BY <2>1
    <2> QED BY <2>1, <2>2
  <1>7. CASE GiveUp(c)
    <2>1. at[c] \in Inside /\ at' = [at EXCEPT ![c] = "idle"] /\ UNCHANGED recent
      BY <1>7 DEF GiveUp
    <2>2. \A d \in Caller \ {c} : at[d] \notin Inside
      BY <2>1
    <2> QED BY <2>1, <2>2
  <1> QED BY <1>1, <1>2, <1>3, <1>4, <1>5, <1>6, <1>7 DEF Step

\* Every step keeps the invariant.
LEMMA NextIInv == IInv /\ [Next]_vars => IInv'
  <1>1. ASSUME IInv, Minute \/ Rotate \/ Store \/ UNCHANGED vars PROVE IInv'
    BY <1>1 DEF Minute, Rotate, Store, vars, callerVars, IInv, LockInv
  <1> QED BY <1>1, StepIInv DEF Next

\* What a step may do, of two adjacent states.
Spared ==
    \A c \in Caller : at[c] # "resolving" /\ at'[c] = "resolving" =>
        ~recent /\ \A other \in Caller \ {c} : at'[other] \notin Inside

\* A caller comes to resolve by taking the lock, which nobody held.
LEMMA StepSpares == IInv /\ [Next]_vars => Spared
  <1> SUFFICES ASSUME IInv, [Next]_vars, NEW c \in Caller,
                      at[c] # "resolving", at'[c] = "resolving"
               PROVE  ~recent /\ \A other \in Caller \ {c} : at'[other] \notin Inside
    BY DEF Spared
  <1>1. PICK d \in Caller : Step(d)
    BY DEF Next, Minute, Rotate, Store, vars, callerVars
  <1>2. d = c /\ Lock(c)
    BY <1>1 DEF IInv, Step, Call, Over, Rejected, Lock, Resolve, Hand, GiveUp, Retried
  <1>3. lock = {} /\ ~recent /\ at' = [at EXCEPT ![c] = "resolving"]
    BY <1>2 DEF IInv, Lock, Retried
  <1>4. \A other \in Caller \ {c} : at[other] \notin Inside
    BY <1>3 DEF IInv, LockInv
  <1> QED BY <1>3, <1>4 DEF IInv

\* The credential's command runs for one rejected caller at a time, and not
\* within a minute of a credential the provider took (registry.go:438), for any
\* set of callers.
THEOREM SourceSparedAlways == Spec => SourceSpared
  <1>1. IInv /\ [Next]_vars => [Spared]_vars
    BY StepSpares
  <1> QED BY <1>1, InitIInv, NextIInv, PTL DEF Spec, SourceSpared, Spared
=============================================================================

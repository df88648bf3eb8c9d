---------------------------- MODULE Credentials ----------------------------
(***************************************************************************)
(* A provider's credential: held by the provider, rejected once the        *)
(* platform changed it, resolved again from its source and handed over by  *)
(* whichever call was rejected, behind a lock and at most once a minute.   *)
(***************************************************************************)
EXTENDS Naturals, FiniteSets

CONSTANTS
    Caller,       \* goroutines that call the provider
    MaxRotations  \* bound on how often the platform changes the credential

ASSUME MaxRotationsAssumption == MaxRotations \in Nat

VARIABLES
    renewable,  \* the provider has a credential and can take a new one
    valid,      \* the generation the platform accepts
    source,     \* the generation the source gives
    held,       \* the generation the provider calls with
    recent,     \* handed less than a minute ago
    lock,       \* the set of the caller inside
    at,         \* by caller, how far it is
    again,      \* by caller, its call is made for the second time
    sent,       \* by caller, the generation it called with
    got         \* by caller, the generation it resolved

callerVars == <<lock, at, again, sent, got>>
platformVars == <<renewable, valid, source>>
vars == <<platformVars, held, recent, callerVars>>

Generation == 0 .. MaxRotations

\* Resolved when the provider is built, which does not count as recent.
Init ==
    /\ renewable \in BOOLEAN
    /\ valid = 0
    /\ source = 0
    /\ held = 0
    /\ recent = FALSE
    /\ lock = {}
    /\ at = [c \in Caller |-> "idle"]
    /\ again = [c \in Caller |-> FALSE]
    /\ sent = [c \in Caller |-> 0]
    /\ got = [c \in Caller |-> 0]

-----------------------------------------------------------------------------
(* A call, and once more after a rejection that may have been mended. *)

Call(c) ==
    /\ at[c] = "idle"
    /\ at' = [at EXCEPT ![c] = "calling"]
    /\ again' = [again EXCEPT ![c] = FALSE]
    /\ sent' = [sent EXCEPT ![c] = held]
    /\ UNCHANGED <<platformVars, held, recent, lock, got>>

\* Answered, or failed for something else: either way the call is over.
Over(c) ==
    /\ at[c] = "calling"
    /\ at' = [at EXCEPT ![c] = "idle"]
    /\ UNCHANGED <<platformVars, held, recent, lock, again, sent, got>>

Rejected(c) ==
    /\ at[c] = "calling"
    /\ sent[c] # valid
    /\ at' = [at EXCEPT ![c] = IF again[c] \/ ~renewable THEN "idle" ELSE "rejected"]
    /\ UNCHANGED <<platformVars, held, recent, lock, again, sent, got>>

\* The second call, made with what the provider holds by then.
Retried(c, credential) ==
    /\ again' = [again EXCEPT ![c] = TRUE]
    /\ sent' = [sent EXCEPT ![c] = credential]
    /\ at' = [at EXCEPT ![c] = "calling"]

\* Mutant: the recency is read before the lock is had.
LockAfterwards(c) ==
    /\ \/ at[c] = "rejected" /\ recent /\ Retried(c, held) /\ UNCHANGED lock
       \/ /\ at[c] = "rejected" /\ ~recent
          /\ at' = [at EXCEPT ![c] = "waiting"]
          /\ UNCHANGED <<lock, again, sent>>
       \/ /\ at[c] = "waiting" /\ lock = {}
          /\ lock' = {c}
          /\ at' = [at EXCEPT ![c] = "resolving"]
          /\ UNCHANGED <<again, sent>>
    /\ UNCHANGED <<platformVars, held, recent, got>>

\* A caller that waited on another's refresh finds it done.
Lock(c) ==
    /\ at[c] = "rejected"
    /\ lock = {}
    /\ \/ recent /\ Retried(c, held) /\ UNCHANGED lock
       \/ /\ ~recent
          /\ lock' = {c}
          /\ at' = [at EXCEPT ![c] = "resolving"]
          /\ UNCHANGED <<again, sent>>
    /\ UNCHANGED <<platformVars, held, recent, got>>

Resolve(c) ==
    /\ at[c] = "resolving"
    /\ got' = [got EXCEPT ![c] = source]
    /\ at' = [at EXCEPT ![c] = "handing"]
    /\ UNCHANGED <<platformVars, held, recent, lock, again, sent>>

\* Mutant: the provider goes on with the client it was built with.
HandUnused(c) ==
    /\ at[c] = "handing"
    /\ recent' = TRUE
    /\ lock' = {}
    /\ Retried(c, held)
    /\ UNCHANGED <<platformVars, held, got>>

Hand(c) ==
    /\ at[c] = "handing"
    /\ held' = got[c]
    /\ recent' = TRUE
    /\ lock' = {}
    /\ Retried(c, got[c])
    /\ UNCHANGED <<platformVars, got>>

\* The source or the provider refuses: the call fails, and nothing is
\* remembered of the attempt.
GiveUp(c) ==
    /\ at[c] \in {"resolving", "handing"}
    /\ lock' = {}
    /\ at' = [at EXCEPT ![c] = "idle"]
    /\ UNCHANGED <<platformVars, held, recent, again, sent, got>>

Minute ==
    /\ recent
    /\ recent' = FALSE
    /\ UNCHANGED <<platformVars, held, callerVars>>

\* Somebody changes the credential at the platform, then at its source.
Rotate ==
    /\ valid < MaxRotations
    /\ valid' = valid + 1
    /\ UNCHANGED <<renewable, source, held, recent, callerVars>>

Store ==
    /\ source # valid
    /\ source' = valid
    /\ UNCHANGED <<renewable, valid, held, recent, callerVars>>

Step(c) ==
    Call(c) \/ Over(c) \/ Rejected(c) \/ Lock(c) \/ Resolve(c) \/ Hand(c) \/ GiveUp(c)

Next == (\E c \in Caller : Step(c)) \/ Minute \/ Rotate \/ Store

Spec == Init /\ [][Next]_vars

\* The dispatch loops go on calling, a call ends, time passes, and platform,
\* source and provider fail for other reasons only for a while.
FairSpec ==
    /\ Spec
    /\ WF_vars(Minute)
    /\ \A c \in Caller :
        /\ WF_vars(Call(c)) /\ WF_vars(Over(c)) /\ WF_vars(Lock(c))
        /\ SF_vars(Rejected(c)) /\ SF_vars(Resolve(c)) /\ SF_vars(Hand(c))

-----------------------------------------------------------------------------
(* Properties. *)

Inside == {"resolving", "handing"}

\* However many calls are rejected at once, the credential's command runs for
\* one of them, and not within a minute of a credential the provider took
\* (registry.go:438): the recency is read under the lock.
SourceSpared ==
    [][\A c \in Caller : at[c] # "resolving" /\ at'[c] = "resolving" =>
            ~recent /\ \A other \in Caller \ {c} : at'[other] \notin Inside]_vars

\* A credential changed at the platform and then at its source comes to be what
\* the provider calls with, for good, once neither changes any more: neither the
\* minute nor a failed attempt keeps it from being resolved again.
RotationHeals == <>[](renewable /\ source = valid) => <>[](held = valid)
=============================================================================

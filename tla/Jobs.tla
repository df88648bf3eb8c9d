-------------------------------- MODULE Jobs --------------------------------
(***************************************************************************)
(* Registered jobs: a standing per namespace and name, and the versions it *)
(* went through. Registering and stopping are each one step: the memory    *)
(* store holds its lock, the Postgres store is serializable. Reading the   *)
(* current version is two steps.                                           *)
(***************************************************************************)
EXTENDS JobSpec

CONSTANTS
    Document,     \* sources anyone may submit
    Content,      \* what each parses to, a document of module JobSpec
    Form,         \* its fingerprint: the same for texts that format alike
    Namespace,    \* the namespaces the configuration declares
    MaxVersions   \* bound on the versions of one job

ASSUME MaxVersionsAssumption == MaxVersions \in Nat
ASSUME ContentAssumption == \A d \in Document : IsDocument(Content[d])

VARIABLES
    jobs,      \* [version, stopped] by namespace and name; version 0: not registered
    versions   \* the sequence of [version, document] registered there

JobName == {Content[d][1].name : d \in {x \in Document : Content[x] # <<>>}}
Key == (Namespace \cup {"default"}) \X JobName
Standing == [version : 0 .. MaxVersions, stopped : BOOLEAN]
Version == [version : 1 .. MaxVersions, document : Document]

JobsInit ==
    /\ jobs = [key \in Key |-> [version |-> 0, stopped |-> FALSE]]
    /\ versions = [key \in Key |-> <<>>]

Registered(key) == jobs[key].version > 0
Dispatchable(key) == Registered(key) /\ ~jobs[key].stopped

\* What the store answers when asked for version n.
VersionOf(key, n) == CHOOSE v \in ToSet(versions[key]) : v.version = n

\* The current version has this document's fingerprint.
SameForm(key, d) == Form[VersionOf(key, jobs[key].version).document] = Form[d]

\* A new version, unless the job is at this source already and not stopped.
StoreVersion(key, d) ==
    LET next == jobs[key].version + 1
    IN IF Dispatchable(key) /\ SameForm(key, d)
       THEN UNCHANGED <<jobs, versions>>
       ELSE /\ next <= MaxVersions
            /\ versions' = [versions EXCEPT ![key] =
                    Append(@, [version |-> next, document |-> d])]
            /\ jobs' = [jobs EXCEPT ![key] = [version |-> next, stopped |-> FALSE]]

\* A source that loads with placeholders is stored in the namespace it and the
\* request agree on.
Register(requested, d) ==
    /\ ForRegister(Content[d])
    /\ \E ns \in NamespaceOf(requested, Bind(Content[d][1], References(Declared(Content[d]))), Namespace) :
        StoreVersion(<<ns, Content[d][1].name>>, d)

\* Mutant: a stopped job is started over.
StopForgets(key) ==
    /\ Registered(key)
    /\ jobs' = [jobs EXCEPT ![key].stopped = TRUE]
    /\ versions' = [versions EXCEPT ![key] = <<>>]

\* Versions are kept. A job nobody registered is an error.
Stop(key) ==
    /\ Registered(key)
    /\ jobs' = [jobs EXCEPT ![key].stopped = TRUE]
    /\ UNCHANGED versions
=============================================================================

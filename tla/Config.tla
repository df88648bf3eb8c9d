------------------------------- MODULE Config -------------------------------
(***************************************************************************)
(* A deployment's configuration: the files of a directory merged into one, *)
(* and what is refused of it. A file is                                    *)
(*   [store, server, scheduling, providers, namespaces]                    *)
(* the first three sets of at most one block (a store's DSN, a listener, a *)
(* tier mode), a provider [name, type, enabled, tier, credentials, tags,   *)
(* pools] and a namespace [name, quotas], a quota [provider, pools]. A     *)
(* pool is a budget of module Quota; a tag's value is a text or "invalid". *)
(***************************************************************************)
EXTENDS Scheduler

EmptyFile == [store |-> {}, server |-> {}, scheduling |-> {},
              providers |-> <<>>, namespaces |-> <<>>]

\* Once in all files: file order must not decide it.
DeclaredOnce(files, block) ==
    \A i, k \in DOMAIN files : files[i][block] # {} /\ files[k][block] # {} => i = k

\* Files in name order. Lists add up.
LoadDir(files) ==
    [store |-> UNION {files[i].store : i \in DOMAIN files},
     server |-> UNION {files[i].server : i \in DOMAIN files},
     scheduling |-> UNION {files[i].scheduling : i \in DOMAIN files},
     providers |-> FlattenSeq([i \in DOMAIN files |-> files[i].providers]),
     namespaces |-> FlattenSeq([i \in DOMAIN files |-> files[i].namespaces])]

TierModeOf(file) == Given(file.scheduling, "strict")

IsEnabled(p) == Given(p.enabled, TRUE)
TierOf(p) == Given(p.tier, 0)

NamesDiffer(s) == \A i, k \in DOMAIN s : s[i].name = s[k].name => i = k

\* Neither a nameless pool nor one too large to count is refused here: both
\* are when the limits are compiled.
ValidatePools(pools) ==
    /\ NamesDiffer(pools)
    /\ \A i \in DOMAIN pools : /\ pools[i].meter \in Meters
                               /\ pools[i].period \in Periods
                               /\ pools[i].limit > 0

\* A credential comes from one place: a file, a variable or a command.
CredentialSources == {"file", "env", "exec"}

ValidateCredentials(sources) == Cardinality(sources \cap CredentialSources) = 1

ValidateProvider(p) ==
    /\ p.type # ""
    /\ TierOf(p) >= 0
    /\ \A c \in p.credentials : ValidateCredentials(c)
    /\ ValidatePools(p.pools)

ValidateNamespaces(file) ==
    /\ NamesDiffer(file.namespaces)
    /\ \A i \in DOMAIN file.namespaces :
        LET quotas == file.namespaces[i].quotas
        IN /\ \A k, l \in DOMAIN quotas : quotas[k].provider = quotas[l].provider => k = l
           /\ \A k \in DOMAIN quotas :
                /\ \E n \in DOMAIN file.providers : file.providers[n].name = quotas[k].provider
                /\ ValidatePools(quotas[k].pools)

ValidateFile(file) ==
    /\ "" \notin file.store
    /\ TierModeOf(file) \in {"strict", "weighted"}
    /\ NamesDiffer(file.providers)
    /\ \A i \in DOMAIN file.providers : ValidateProvider(file.providers[i])
    /\ ValidateNamespaces(file)

LoadsPath(files) ==
    /\ files # <<>>
    /\ \A block \in {"store", "server", "scheduling"} : DeclaredOnce(files, block)
    /\ ValidateFile(LoadDir(files))

\* A provider's own labels are texts.
TagsDecode(p) == \A name \in DOMAIN p.tags : p.tags[name][1] # "invalid"
=============================================================================

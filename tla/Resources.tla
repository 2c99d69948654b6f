------------------------------ MODULE Resources ------------------------------
(***************************************************************************)
(* From a configuration section to a resource: what the adapters under     *)
(* internal/kernel/app accept (decode, at staging) and what the packages   *)
(* they hand it to make of it (build, once the candidate is prepared). The *)
(* two layers check and complete a section each by itself; a section that  *)
(* passes the first and not the second stops a start or a reload half way. *)
(* Kernel has the transaction around the two; opening files, sockets and   *)
(* connections is external and may fail whatever the section says.         *)
(***************************************************************************)
EXTENDS Integers

CONSTANTS
    Sections,   \* what a file may give: [component |-> ..., fields of that component]
    Executions  \* what callers give to Execute: [policy |-> ..., retry |-> ..., timeout |-> ...]

RetryFields == [attempts : Int, wait : Int, max : Int]

\* A section is of one of the four components; its numbers are numbers, and its
\* texts may be any.
IsSection(s) ==
    \/ s.component \in {"storage", "cache"}
    \/ s.component = "database" /\ {s.open, s.idle, s.timeout} \subseteq Int
    \/ /\ s.component = "execution"
       /\ s.retry \in RetryFields
       /\ s.recovery \in [probe : Int, initial : Int, max : Int, verify : Int, capacity : Int,
                         overflow : {s.recovery.overflow}]
       /\ s.async \in [capacity : Int, overflow : {s.async.overflow}]
       /\ \A name \in DOMAIN s.policies :
             s.policies[name].retry \in RetryFields /\ s.policies[name].timeout \in Int

ASSUME SectionsAssumption ==
    /\ \A s \in Sections : IsSection(s)
    /\ \A call \in Executions : call.retry \in RetryFields

VARIABLES
    section,   \* the section of the snapshot
    decoded,   \* what decode returned: NotYet, NotAccepted or a Config
    resource,  \* what build returned: NotYet, NotAccepted or the instance
    uses    \* the last use of the resource and its answer, if any

resourceVars == <<section, decoded, resource, uses>>

NotYet == [state |-> "not yet"]
NotAccepted == [state |-> "refused"]
Given(value) == [f \in DOMAIN value \cup {"state"} |-> IF f = "state" THEN "given" ELSE value[f]]

\* A text is "", "blank" (spaces only), a word, or a word with spaces or
\* capitals that strings.TrimSpace and ToLower take away.
Trim(text) == CASE text = "blank" -> "" [] text = " S3 " -> "s3" [] OTHER -> text
Default(text, default) == IF text = "" THEN default ELSE text
Positive(n, default) == IF n <= 0 THEN default ELSE n
NonZero(n, default) == IF n = 0 THEN default ELSE n

-----------------------------------------------------------------------------
(* Storage: a local directory, an object store, both or neither.           *)

HasLocal(driver) == driver \in {"local", "local+s3", "local+minio"}
HasS3(driver) == driver \in {"s3", "local+s3"}
HasMinIO(driver) == driver \in {"minio", "local+minio"}

\* normalizeObjectConfig; the secret is taken as it stands.
NormalObject(object, provider) ==
    [provider |-> Default(Trim(object.provider), provider), endpoint |-> Trim(object.endpoint),
     bucket |-> Trim(object.bucket), key |-> Trim(object.key), secret |-> object.secret,
     region |-> Default(Trim(object.region), "us-east-1")]

Complete(object) ==
    /\ object.endpoint # "" /\ object.bucket # "" /\ object.key # "" /\ object.secret # ""

DecodeStorage(s) ==
    LET cfg == [driver |-> Trim(s.driver), base |-> Trim(s.base),
                s3 |-> NormalObject(s.s3, "s3"), minio |-> NormalObject(s.minio, "minio")]
        accepted ==
            /\ cfg.driver = "disabled" \/ HasLocal(cfg.driver) \/ HasS3(cfg.driver) \/ HasMinIO(cfg.driver)
            /\ HasLocal(cfg.driver) => cfg.base # ""
            /\ HasS3(cfg.driver) => cfg.s3.provider \in {"s3", "r2"} /\ Complete(cfg.s3)
            /\ HasMinIO(cfg.driver) => cfg.minio.provider = "minio" /\ Complete(cfg.minio)
    IN IF accepted THEN Given(cfg) ELSE NotAccepted

\* s3compat.New: another round of defaults and checks, over three providers.
NewObjectClient(object, from) ==
    LET cfg == [object EXCEPT !.provider = Trim(Default(@, from)), !.bucket = Trim(@), !.endpoint = Trim(@),
                              !.region = Default(Trim(@), IF object.provider = "r2" THEN "auto" ELSE "us-east-1")]
    IN IF cfg.provider \in {"s3", "r2", "minio"} /\ Complete(cfg)
       THEN Given([of |-> from, pathStyle |-> cfg.provider = "minio"]) ELSE NotAccepted

NoClient == [state |-> "nil"]

\* NewManager; an object client that fails closes the local one again.
Manager(driver, local, object) ==
    IF NotAccepted \in {local, object} THEN NotAccepted
    ELSE Given([driver |-> driver, local |-> local, object |-> object])

BuildStorage(cfg) ==
    Manager(cfg.driver,
            IF HasLocal(cfg.driver) THEN Given([of |-> "local"]) ELSE NoClient,
            IF HasS3(cfg.driver) THEN NewObjectClient(cfg.s3, "s3")
            ELSE IF HasMinIO(cfg.driver) THEN NewObjectClient(cfg.minio, "minio") ELSE NoClient)

Routes == {"primary", "local", "object"}

\* access.Use with selectClient.
Selected(manager, route) ==
    LET local == route = "local" \/ (route = "primary" /\ manager.object = NoClient)
        client == IF local THEN manager.local ELSE manager.object
    IN IF manager.driver = "disabled" THEN "disabled"
       ELSE IF client = NoClient THEN "unavailable" ELSE client.of

-----------------------------------------------------------------------------
(* Cache and database: a pool with bounds.                                 *)

DecodeCache(s) ==
    LET cfg == [driver |-> Trim(s.driver), address |-> Trim(s.address), pool |-> s.pool, idle |-> s.idle,
                timeout |-> NonZero(s.timeout, 5)]
        accepted ==
            /\ cfg.driver \in {"disabled", "redis"}
            /\ cfg.driver = "redis" => cfg.address # ""
            /\ cfg.timeout >= 0 /\ cfg.pool >= 0 /\ cfg.idle >= 0
            /\ cfg.pool > 0 => cfg.idle <= cfg.pool
    IN IF accepted THEN Given(cfg) ELSE NotAccepted

\* Without a driver there is neither a client nor a coordination service.
BuildCache(cfg) ==
    Given([driver |-> cfg.driver, client |-> cfg.driver = "redis", store |-> cfg.driver = "redis",
           coordination |-> IF cfg.driver = "redis" THEN "redis" ELSE "unavailable"])

\* resolveConfig.
ResolveDatabase(cfg) ==
    LET driver == Default(cfg.driver, "sqlite")
        resolved == [driver |-> driver,
                     dsn |-> Default(Trim(cfg.dsn), IF driver = "sqlite" THEN "file" ELSE ""),
                     open |-> NonZero(cfg.open, 25), idle |-> NonZero(cfg.idle, 5),
                     timeout |-> NonZero(cfg.timeout, 5)]
        accepted ==
            /\ resolved.driver \in {"sqlite", "postgres", "mysql"} /\ resolved.dsn # ""
            /\ resolved.open >= 0 /\ resolved.idle >= 0 /\ resolved.timeout >= 0
            /\ resolved.open > 0 => resolved.idle <= resolved.open
    IN IF accepted THEN Given(resolved) ELSE NotAccepted

\* DecodeSection: the section as it stands, if it can be resolved.
DecodeDatabase(s) ==
    LET cfg == [driver |-> s.driver, dsn |-> s.dsn, open |-> s.open, idle |-> s.idle, timeout |-> s.timeout]
    IN IF ResolveDatabase(cfg) = NotAccepted THEN NotAccepted ELSE Given(cfg)

\* Faulty NewGORM: a memory database gets the pool of the others.
BuildDatabasePooled(cfg) == ResolveDatabase(cfg)

\* NewGORM: a private memory database belongs to its one connection.
BuildDatabase(cfg) ==
    LET resolved == ResolveDatabase(cfg)
    IN IF resolved.state = "given" /\ resolved.driver = "sqlite" /\ resolved.dsn = ":memory:"
       THEN [resolved EXCEPT !.open = 1, !.idle = 1] ELSE resolved

-----------------------------------------------------------------------------
(* Execution: one policy of the section for everybody, named ones for the  *)
(* modules that declare them, and who runs under which.                    *)

Overflows == {"discard", "block", "alert"}

DecodeExecution(s) ==
    LET cfg == [driver |-> Trim(s.driver), retry |-> s.retry, policies |-> s.policies,
                recovery |-> [s.recovery EXCEPT !.overflow = Default(@, "discard")],
                async |-> [s.async EXCEPT !.overflow = Default(@, "discard")]]
        Sane(retry) == retry.attempts >= 0 /\ retry.wait >= 0 /\ retry.max >= 0
        accepted ==
            /\ cfg.driver \in {"disabled", "memory"} /\ Sane(cfg.retry)
            /\ cfg.recovery.overflow \in Overflows
            /\ \A f \in DOMAIN cfg.recovery \ {"overflow"} : cfg.recovery[f] >= 0
            /\ cfg.async.overflow \in Overflows /\ cfg.async.capacity >= 0
            /\ \A name \in DOMAIN cfg.policies :
                   Trim(name) # "" /\ Sane(cfg.policies[name].retry) /\ cfg.policies[name].timeout >= 0
    IN IF accepted THEN Given(cfg) ELSE NotAccepted

\* asyncConfig.
AsyncConfig(async) == [async EXCEPT !.capacity = Positive(@, 1000)]

\* assemble: the recovering store takes its own defaults for what is not
\* positive. Times are in milliseconds.
RecoveryDefaults == [probe |-> 1000, initial |-> 200, max |-> 30000, verify |-> 1, capacity |-> 1000]

RecoveryConfig(recovery) ==
    [f \in DOMAIN recovery |->
        IF f \in DOMAIN RecoveryDefaults THEN Positive(recovery[f], RecoveryDefaults[f]) ELSE recovery[f]]

BuildExecution(cfg) ==
    IF cfg.driver = "disabled" THEN Given([driver |-> "disabled"])
    ELSE Given([driver |-> "memory", retry |-> cfg.retry, policies |-> cfg.policies,
                recovery |-> RecoveryConfig(cfg.recovery),
                async |-> AsyncConfig(cfg.async)])

\* access.Execute with applyPolicy. A call names a policy or brings its own.
RunsUnder(built, call) ==
    IF built.driver = "disabled" THEN [state |-> "disabled"]
    ELSE IF call.policy = "" THEN
        Given([retry |-> IF call.retry.attempts = 0 THEN built.retry ELSE call.retry, timeout |-> call.timeout])
    ELSE IF call.policy \in DOMAIN built.policies THEN
        LET spec == built.policies[call.policy]
        IN Given([retry |-> spec.retry, timeout |-> Positive(spec.timeout, call.timeout)])
    ELSE [state |-> "unknown"]

\* resilience.Do makes one attempt at least.
Attempts(retry) == Positive(retry.attempts, 1)

-----------------------------------------------------------------------------
(* What the loader puts in the snapshot when the file says nothing.        *)

DefaultStorage ==
    LET NoObject(provider) == [provider |-> provider, endpoint |-> "", bucket |-> "", key |-> "", secret |-> "",
                               region |-> "us-east-1"]
    IN [component |-> "storage", driver |-> "local", base |-> ".data/storage",
        s3 |-> NoObject("s3"), minio |-> NoObject("minio")]

DefaultCache ==
    [component |-> "cache", driver |-> "disabled", address |-> "127.0.0.1:6379", pool |-> 0, idle |-> 0, timeout |-> 5]

DefaultDatabase ==
    [component |-> "database", driver |-> "sqlite", dsn |-> ".data/app.db", open |-> 25, idle |-> 5, timeout |-> 5]

DefaultExecution ==
    [component |-> "execution", driver |-> "memory", policies |-> <<>>,
     retry |-> [attempts |-> 3, wait |-> 50, max |-> 500],
     recovery |-> [probe |-> 1000, initial |-> 200, max |-> 30000, verify |-> 1, capacity |-> 1000,
                   overflow |-> "discard"],
     async |-> [capacity |-> 1000, overflow |-> "discard"]]

Defaults == {DefaultStorage, DefaultCache, DefaultDatabase, DefaultExecution}

-----------------------------------------------------------------------------

ResourcesInit ==
    /\ section \in Sections \cup Defaults
    /\ decoded = NotYet /\ resource = NotYet /\ uses = {}

DecodedFrom(s) ==
    CASE s.component = "storage" -> DecodeStorage(s)
      [] s.component = "cache" -> DecodeCache(s)
      [] s.component = "database" -> DecodeDatabase(s)
      [] s.component = "execution" -> DecodeExecution(s)

BuiltFrom(s, cfg) ==
    CASE s.component = "storage" -> BuildStorage(cfg)
      [] s.component = "cache" -> BuildCache(cfg)
      [] s.component = "database" -> BuildDatabase(cfg)
      [] s.component = "execution" -> BuildExecution(cfg)

DecodeSection ==
    /\ decoded = NotYet
    /\ decoded' = DecodedFrom(section)
    /\ UNCHANGED <<section, resource, uses>>

BuildResource ==
    /\ decoded.state = "given" /\ resource = NotYet
    /\ resource' = BuiltFrom(section, decoded)
    /\ UNCHANGED <<section, decoded, uses>>

UseRoute(route) ==
    /\ section.component = "storage" /\ resource.state = "given"
    /\ uses' = {<<route, Selected(resource, route)>>}
    /\ UNCHANGED <<section, decoded, resource>>

ExecuteUnder(call) ==
    /\ section.component = "execution" /\ resource.state = "given"
    /\ uses' = {<<call, RunsUnder(resource, call)>>}
    /\ UNCHANGED <<section, decoded, resource>>

ResourcesNext ==
    \/ DecodeSection \/ BuildResource
    \/ \E route \in Routes : UseRoute(route)
    \/ \E call \in Executions : ExecuteUnder(call)

ResourcesSpec == ResourcesInit /\ [][ResourcesNext]_resourceVars

ResourcesTypeOK ==
    /\ section \in Sections \cup Defaults
    /\ decoded.state \in {"not yet", "refused", "given"} /\ resource.state \in {"not yet", "refused", "given"}
    /\ \A answer \in uses :
           \/ section.component = "storage" /\ answer[1] \in Routes
           \/ section.component = "execution" /\ answer[1] \in Executions

-----------------------------------------------------------------------------
(* Properties.                                                             *)

\* What a call of Execute gets by what the file says: the attempts and the
\* timeout of the policy it names, which no other module's policy changes.
IsolatedBySection(call, got) ==
    IF Trim(section.driver) = "disabled" THEN got.state = "disabled"
    ELSE IF call.policy = "" THEN
        /\ got.state = "given" /\ Attempts(got.retry) >= 1 /\ got.timeout = call.timeout
        /\ got.retry # call.retry => call.retry.attempts = 0 /\ got.retry = section.retry
    ELSE /\ (got.state = "unknown") = (call.policy \notin DOMAIN section.policies)
         /\ got.state = "given" =>
                /\ got.retry = section.policies[call.policy].retry
                /\ section.policies[call.policy].timeout > 0 => got.timeout = section.policies[call.policy].timeout

\* What the configuration layer accepts, the layer below builds, and as the
\* section says: a storage route reaches the client of the driver's own section
\* or none, a cache driver has its client and its coordination, a pool keeps no
\* more idle connections than it opens, a private memory database is never
\* spread over connections that do not see each other, a queue has room and a
\* backoff takes time, and an execution runs under the policy it names and
\* nobody else's. What a component declares as its defaults is accepted, and
\* stays itself.
AcceptedIsBuilt ==
    /\ resource # NotAccepted
    /\ section \in Defaults /\ decoded # NotYet => decoded = Given([f \in DOMAIN section \ {"component"} |-> section[f]])
    /\ section.component = "execution" => \A answer \in uses : IsolatedBySection(answer[1], answer[2])
    /\ section.component = "storage" => \A answer \in uses :
           /\ (answer[2] = "disabled") = (resource.driver = "disabled")
           /\ answer[2] = "local" => HasLocal(resource.driver) /\ answer[1] # "object"
           /\ answer[2] = "s3" => HasS3(resource.driver) /\ answer[1] # "local"
           /\ answer[2] = "minio" => HasMinIO(resource.driver) /\ answer[1] # "local"
           /\ answer[1] = "primary" => answer[2] # "unavailable"
    /\ resource.state = "given" =>
           CASE section.component = "cache" -> (resource.coordination = "redis") = resource.client
             [] section.component = "database" ->
                    /\ resource.open > 0 => resource.idle <= resource.open
                    /\ resource.dsn = ":memory:" /\ resource.driver = "sqlite" => resource.open = 1
             [] section.component = "execution" ->
                    resource.driver = "memory" =>
                        /\ resource.async.capacity > 0
                        /\ \A f \in DOMAIN resource.recovery \ {"overflow"} : resource.recovery[f] > 0
             [] OTHER -> TRUE
=============================================================================

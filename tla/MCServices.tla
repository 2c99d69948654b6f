----------------------------- MODULE MCServices -----------------------------
(* The generations of the application and the services they are built from,  *)
(* side by side: they share no state, so each behaviour is one of them.      *)
EXTENDS Generation, Assembly, ConfigLoad, LayeredCache, Migration, Resources, TodoService, TLC

-----------------------------------------------------------------------------
(* A file with sections in either case, siblings that collide, and a scalar  *)
(* where the environment has an object; and environments that agree with it, *)
(* override it, or contradict it or themselves.                              *)
Lw(name) == <<name, "lower">>
Up(name) == <<name, "upper">>
Node(type) == Leaf(type, "file")
Db(fields) == Object(Lw("db") :> Object(fields))

MCFiles == {
    Empty,
    Db(Lw("pool") :> Node("number")),
    Db(Up("pool") :> Node("text")),
    Db(Up("pool") :> Node("number") @@ Lw("pool") :> Node("number")),
    Object(Up("db") :> Object(Lw("pool") :> Node("number"))),
    Object(Lw("db") :> Node("text")),
    Db(Lw("pool") :> Object(Lw("max") :> Node("number"))),
    Object(Lw("db") :> Empty @@ Lw("other") :> Empty),
    Db(Lw("pool") :> Node("number") @@ Lw("age") :> Node("text"))}

Var(parts, type) == [parts |-> parts, type |-> type]
MCEnvironments == {
    {},
    {Var(<<Up("db"), Up("pool")>>, "digits")},
    {Var(<<Up("db"), Up("pool")>>, "text"), Var(<<Up("db"), Up("age")>>, "text")},
    {Var(<<Up("db"), Up("pool")>>, "digits"), Var(<<Lw("db"), Lw("pool")>>, "digits")},
    {Var(<<Up("db")>>, "text"), Var(<<Up("db"), Up("age")>>, "text")},
    {Var(<<Up("db"), Up("pool"), Up("max")>>, "digits")},
    {Var(<<Up("db"), <<"", "lower">>, Up("age")>>, "text")},
    {Var(<<Up("log"), Up("level")>>, "text")}}

MCBindings == {
    [id |-> "database", path |-> <<Lw("db")>>,
     fields |-> "pool" :> "number" @@ "age" :> "text", defaults |-> "pool" :> "number" @@ "age" :> "duration"],
    [id |-> "logger", path |-> <<Lw("log")>>,
     fields |-> "level" :> "text", defaults |-> "level" :> "text"]}

\* Two configurations that key some pools differently and others alike.
Keyed(changed) == [p \in Pools |-> IF p \in changed THEN "new" ELSE "old"]
MCVariants == {Keyed({}), Keyed({"cache", "execution"})}

\* Sections with every driver, with and without what it needs, as a file may
\* spell them.
Objects(other) ==
    {[provider |-> p, endpoint |-> "e", bucket |-> b, key |-> "k", secret |-> x, region |-> ""] :
        p \in {"", " S3 ", other}, b \in {"b", "blank"}, x \in {"x", ""}}
RetryOf(n) == [attempts |-> n, wait |-> 0, max |-> 0]
MCSections ==
    [component : {"storage"}, base : {"", "dir"},
     driver : {"disabled", "local", " S3 ", "minio", "local+s3", "local+minio", "ftp"},
     s3 : Objects("r2"), minio : Objects("minio")]
    \cup [component : {"cache"}, driver : {"disabled", "redis", ""}, address : {"blank", "host"},
          pool : {-1, 0, 2}, idle : {0, 3}, timeout : {-1, 0, 1}]
    \cup [component : {"database"}, driver : {"", "sqlite", "postgres", "ftp"}, dsn : {"", "blank", ":memory:", "url"},
          open : {-1, 0, 2}, idle : {0, 1, 3}, timeout : {0}]
    \cup [component : {"execution"}, driver : {"disabled", "memory", ""}, retry : {RetryOf(-1), RetryOf(3)},
          recovery : [overflow : {"", "block", "drop"}, probe : {0}, initial : {1}, max : {0}, verify : {0, -1},
                      capacity : {0, 1}],
          async : [overflow : {"", "drop"}, capacity : {0, 1}],
          policies : {<<>>, "p" :> [retry |-> RetryOf(2), timeout |-> 0], "blank" :> [retry |-> RetryOf(2), timeout |-> 0],
                      ("p" :> [retry |-> RetryOf(2), timeout |-> 1]) @@ ("q" :> [retry |-> RetryOf(0), timeout |-> 0])}]

\* Calls that name a policy, one that may not be there, or none.
MCExecutions == [policy : {"", "p", "q"}, retry : {RetryOf(0), RetryOf(5)}, timeout : {0, 9}]

FirstSection == CHOOSE s \in MCSections : TRUE

\* Requests and the subjects that make them are interchangeable.
Symmetry == Permutations(Requests) \cup Permutations(Users)

-----------------------------------------------------------------------------
VARIABLE part
vars == <<part, graphVars, assemblyVars, configVars, cacheVars, migrationVars, resourceVars, todoVars>>

Init ==
    /\ part \in {"generation", "assembly", "config", "cache", "migration", "resources", "todo"}
    /\ GenerationInit /\ AssemblyInit /\ TodoInit
    /\ ConfigInit /\ (part # "config" => input = [file |-> Empty, env |-> {}] /\ target = "none")
    /\ CacheInit /\ (part # "cache" => driver = "disabled")
    /\ MigrationInit /\ (part # "migration" => db = "sqlite")
    /\ section \in (IF part = "resources" THEN Sections \cup Defaults ELSE {FirstSection}) /\ ResourcesInit

Replaces ==
    part = "generation" /\ UNCHANGED <<part, assemblyVars, configVars, cacheVars, migrationVars, resourceVars, todoVars>>
Assembles ==
    part = "assembly" /\ UNCHANGED <<part, graphVars, configVars, cacheVars, migrationVars, resourceVars, todoVars>>
Configures ==
    part = "config" /\ UNCHANGED <<part, graphVars, assemblyVars, cacheVars, migrationVars, resourceVars, todoVars>>
Caches ==
    part = "cache" /\ UNCHANGED <<part, graphVars, assemblyVars, configVars, migrationVars, resourceVars, todoVars>>
Migrates ==
    part = "migration" /\ UNCHANGED <<part, graphVars, assemblyVars, configVars, cacheVars, resourceVars, todoVars>>
BuildsResources ==
    part = "resources" /\ UNCHANGED <<part, graphVars, assemblyVars, configVars, cacheVars, migrationVars, todoVars>>
Serves ==
    part = "todo" /\ UNCHANGED <<part, graphVars, assemblyVars, configVars, cacheVars, migrationVars, resourceVars>>

Next ==
    \/ Replaces /\ GenerationNext
    \/ Assembles /\ AssemblyNext
    \/ Configures /\ ConfigNext
    \/ Caches /\ CacheNext
    \/ Migrates /\ MigrationNext
    \/ BuildsResources /\ ResourcesNext
    \/ Serves /\ TodoNext

Spec == Init /\ [][Next]_vars

\* From the sources to the resources: a load says what the file and the
\* environment say, the default file never replaces one unasked, and what the
\* configuration layer accepts the layer below builds.
ConfigurationIsFaithful ==
    [](ConfigTypeOK /\ ResourcesTypeOK /\ LoadIsExact /\ AcceptedIsBuilt) /\ DefaultsAreSafe
=============================================================================

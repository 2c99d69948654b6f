-------------------------------- MODULE MCEdge --------------------------------
(* What a user, a client or an operator reaches first, and the libraries     *)
(* below it, side by side: they share no state, so each behaviour is one of  *)
(* them.                                                                     *)
EXTENDS CommandLine, HttpEdge, HttpClient, JwksVerifier, Transactions, Storage, LogRouting, TLC

-----------------------------------------------------------------------------
(* The two requests of a shell: the first command asks once, the second too. *)
CONSTANTS f1, f2
MCAsks == f1 :> 1 @@ f2 :> 1

(* Registries with groups, nested commands, aliases that collide with names, *)
(* flags that shadow inherited ones, and reserved names.                     *)
Flag(name, short) == [name |-> name, short |-> short, env |-> "ENV", required |-> FALSE, value |-> NoOne]
Command(name, aliases) ==
    [name |-> name, aliases |-> aliases, group |-> NoOne, run |-> TRUE, mode |-> "bootstrap", effect |-> "none",
     positional |-> "none", validates |-> FALSE, flags |-> << >>, commands |-> << >>]
Custom == [Command("up", {}) EXCEPT !.positional = "custom", !.validates = TRUE,
                                    !.flags = <<[Flag("to", "t") EXCEPT !.required = TRUE]>>]

MCRegistries ==
    {[commands |-> cs, flags |-> <<Flag("config", "c")>>, groups |-> <<"admin">>] :
        cs \in {<<[Command("db", {"data"}) EXCEPT !.run = FALSE, !.positional = "any", !.group = "admin",
                                                  !.commands = <<Custom>>],
                  Command("serve", {})>>,
                <<Command("db", {}), Command("serve", {"db"})>>,
                <<[Command("db", {}) EXCEPT !.commands = <<Custom, Command("down", {"up"})>>]>>,
                <<[Command("db", {}) EXCEPT !.flags = <<Flag("to", "t")>>, !.commands = <<Custom>>]>>,
                <<[Command("serve", {"s"}) EXCEPT !.flags = <<Flag("port", "c")>>]>>,
                <<[Command("serve", {}) EXCEPT !.mode = "unspecified"], Command("db", {"help"})>>,
                <<[Command("db", {}) EXCEPT !.positional = "any", !.group = "other"]>>}}

MCRank(p) == [literals |-> IF p = "con*" THEN 3 ELSE 0, wildcards |-> 1]
MCMatches(p, key) == p \in {key, "con*", "*"}

Word(w) == [kind |-> "word", name |-> w, value |-> NoOne]
Chain(k, v) == [kind |-> "chain", name |-> k, value |-> v]
Arguments == {Word("db"), Word("up"), Word("serve"), Word("yes"), Chain("confirm", "yes"), Chain("confirm", NoOne),
              Chain("con*", "no"), Chain("*", "bogus"), [Word(NoOne) EXCEPT !.kind = "end"],
              [kind |-> "flag", name |-> "to", value |-> "v2"]}
MCCalls == {[args |-> a, env |-> e] : a \in UNION {[1..n -> Arguments] : n \in 0..3}, e \in {<< >>, "ENV" :> "v1"}}

(* One request that passes, and one for each gate that refuses it. *)
Good == [upgrade |-> FALSE, accepts |-> TRUE, origin |-> "none", credential |-> "valid",
         document |-> "one", target |-> "operation", scope |-> TRUE]
MCKinds == {
    Good, [Good EXCEPT !.upgrade = TRUE], [Good EXCEPT !.origin = "preflight", !.credential = "none"],
    [Good EXCEPT !.credential = "none"], [Good EXCEPT !.document = "trailing"],
    [Good EXCEPT !.target = "mismatch", !.origin = "allowed"], [Good EXCEPT !.scope = FALSE]}

(* Clients with and without a base that may not be built, do not retry, or     *)
(* retry; a first wait above the cap, the defaults, a doubling that overflows. *)
Client(base, count, wait, max) == [base |-> base, count |-> count, wait |-> wait, max |-> max]
MCSettings ==
    {Client("", -1, 0, 0), Client("hostless", 0, 0, 0), Client("absolute", 0, 1, 1),
     Client("", 2, 5, 2), Client("", 2, 0, 0), Client("", 3, 1, 3), Client("absolute", 2, 6, 15)}

Raw == [url |-> "absolute", raw |-> TRUE, json |-> "none", accepts |-> {}]
Json == [url |-> "absolute", raw |-> FALSE, json |-> "encoded", accepts |-> {"many", "success"}]
MCOrders == {Raw, Json, [Raw EXCEPT !.url = "relative"], [Raw EXCEPT !.json = "encoded"]}

-----------------------------------------------------------------------------
VARIABLE part
vars == <<part, shellVars, cliVars, edgeVars, clientVars, jwksVars, dbVars, fileVars, objectVars, logVars>>

Parts == {"shell", "cli", "http", "client", "jwks", "database", "files", "objects", "checks", "logs"}

Init ==
    /\ part \in Parts
    /\ ShellInit
    /\ CliInit
    /\ part # "cli" => registry = CHOOSE r \in Registries : TRUE
    /\ part # "cli" => call = [args |-> << >>, env |-> << >>]
    /\ EdgeInit
    /\ \A r \in Requests : request[r].kind = Good
    /\ ClientInit
    /\ part # "client" => client = Client("", 2, 0, 0) /\ sending.order = Raw
    /\ JwksInit
    /\ part # "jwks" => published = {CHOOSE kid \in Kids : TRUE}
    /\ DbInit
    /\ part # "database" => row[CHOOSE k \in Rows : TRUE].value = Total
    /\ FileInit
    /\ ObjectInit
    \* Operations on borrowed objects, in a directory beside a check, or checks beside each
    \* other; a bucket alone shows nothing that a bucket beside a directory does not.
    /\ CASE part = "objects" ->
               /\ manager.driver # "s3"
               /\ Cardinality({h \in Checks : check[h].at # "done"}) = IF manager.driver = "local" THEN 1 ELSE 0
         [] part = "checks" -> \A h \in Checks : manager.driver # "disabled" => check[h].at # "done"
         [] OTHER -> manager.driver = "disabled"
    /\ LogInit

Shells == part = "shell" /\ UNCHANGED <<part, cliVars, edgeVars, clientVars, jwksVars, dbVars, fileVars, objectVars, logVars>>
Parses == part = "cli" /\ UNCHANGED <<part, shellVars, edgeVars, clientVars, jwksVars, dbVars, fileVars, objectVars, logVars>>
\* Of the requests on two connections a gate refuses one at most.
OneIsGood == \E r \in Requests : request[r].kind = Good

Answers == part = "http" /\ UNCHANGED <<part, shellVars, cliVars, clientVars, jwksVars, dbVars, fileVars, objectVars, logVars>>
Sends == part = "client" /\ UNCHANGED <<part, shellVars, cliVars, edgeVars, jwksVars, dbVars, fileVars, objectVars, logVars>>
Verifies == part = "jwks" /\ UNCHANGED <<part, shellVars, cliVars, edgeVars, clientVars, dbVars, fileVars, objectVars, logVars>>
Transacts == part = "database" /\ UNCHANGED <<part, shellVars, cliVars, edgeVars, clientVars, jwksVars, fileVars, objectVars, logVars>>
WatchesFiles == part = "files" /\ UNCHANGED <<part, shellVars, cliVars, edgeVars, clientVars, jwksVars, dbVars, objectVars, logVars>>
Keeps == UNCHANGED <<part, shellVars, cliVars, edgeVars, clientVars, jwksVars, dbVars, fileVars, logVars>>
Logs == part = "logs" /\ UNCHANGED <<part, shellVars, cliVars, edgeVars, clientVars, jwksVars, dbVars, fileVars, objectVars>>

Next ==
    \/ Shells /\ ShellNext
    \/ Parses /\ CliNext
    \/ Answers /\ EdgeNext /\ OneIsGood'
    \/ Sends /\ ClientNext
    \/ Verifies /\ JwksNext
    \/ Transacts /\ DbNext
    \/ WatchesFiles /\ FileNext
    \/ part = "objects" /\ Keeps /\ ObjectNext
    \/ part = "checks" /\ Keeps /\ \E h \in Checks : Verify(h)
    \/ Logs /\ LogNext

Spec == Init /\ [][Next]_vars

-----------------------------------------------------------------------------
\* What is typed or given to the command line is taken for what it was meant.
CommandLineIsSound == ShellIsSound /\ CommandIsMeant

\* Requests that come in are admitted, answered and accounted for once; one that
\* goes out is repeated only for a reason, whole, and its result is the truth.
RequestsAreSound == EdgeIsSound /\ []ClientIsSound
=============================================================================

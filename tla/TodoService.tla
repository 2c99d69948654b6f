----------------------------- MODULE TodoService -----------------------------
(* Todo use cases of users of a service and of one-shot command lines, which *)
(* share the database and nothing else: each process has an execution store  *)
(* of its own. One Todo is followed. A request of the service that completes *)
(* it joins the flight of another one; a command to the database or to the   *)
(* store is one step, and may fail with or without having taken effect.      *)
EXTENDS Naturals, FiniteSets

CONSTANTS
    Requests,   \* requests that are served at the same time
    Users,      \* subjects of the principals
    Tries       \* MaxAttempts of the policy "todo"

Server == "server"
NoRequest == "none"

VARIABLES
    todo,       \* the row of the Todo
    claims,     \* the claim on its completion in each process' store
    flight,     \* the request of the service whose execution others join
    reqs        \* what each request is doing

todoVars == <<todo, claims, flight, reqs>>

Row(owner, status, stamp, version) == [owner |-> owner, status |-> status, stamp |-> stamp, version |-> version]
Zero == Row(NoRequest, "zero", NoRequest, 0)
Idle == [op |-> "none", user |-> NoRequest, scoped |-> FALSE, home |-> Server, step |-> "idle",
         seen |-> Zero, tries |-> 0, canceled |-> FALSE, code |-> "none"]
Moves(r, step) == reqs' = [reqs EXCEPT ![r].step = step]
Executing(r) == reqs[r].step \in {"execute", "flight", "join", "claim", "update", "reread", "store", "release"}

-----------------------------------------------------------------------------
(* Answers. What the leader of a flight gets, those that joined it get too:  *)
(* its error, or a result without the Todo, which only the leader's operation *)
(* assigned.                                                                 *)
Answered(record, code, row) == [record EXCEPT !.step = "answered", !.code = code, !.seen = row]
Answer(r, code, row) == reqs' = [reqs EXCEPT ![r] = Answered(@, code, row)]
Fail(r, code) == Answer(r, code, Zero)

Lands(r, code, row) ==
    /\ reqs' = [q \in Requests |->
         IF q = r THEN Answered(reqs[q], code, row)
         ELSE IF flight = r /\ reqs[q].step = "join" THEN Answered(reqs[q], code, Zero)
         ELSE reqs[q]]
    /\ flight' = IF flight = r THEN NoRequest ELSE flight

-----------------------------------------------------------------------------
(* A request arrives, in the service or as a process of its own.             *)
Arrive(r, op, user, scoped, home) ==
    /\ reqs[r].step \in {"idle", "answered"}
    /\ op = "create" => todo = Zero /\ \A q \in Requests : reqs[q].op = "create" => reqs[q].step \in {"idle", "answered"}
    /\ reqs' = [reqs EXCEPT ![r] = [Idle EXCEPT !.op = op, !.user = user, !.scoped = scoped, !.home = home,
                                     !.step = IF op \in {"get", "complete"} THEN "fetch" ELSE "decide"]]
    /\ claims' = [claims EXCEPT ![r] = "free"]
    /\ UNCHANGED <<todo, flight>>

Fetch(r) ==
    /\ reqs[r].step = "fetch"
    /\ \/ todo # Zero /\ reqs' = [reqs EXCEPT ![r].step = "decide", ![r].seen = todo]
       \/ todo = Zero /\ Fail(r, "not_found")
       \/ Fail(r, "failed")
    /\ UNCHANGED <<todo, claims, flight>>

\* decide: the scope of the action, and the owner, which a Todo that is not
\* there yet, or a list, takes from the actor.
OwnerOf(r) == IF reqs[r].op \in {"create", "list"} THEN reqs[r].user ELSE reqs[r].seen.owner
Allowed(r) == reqs[r].scoped /\ OwnerOf(r) = reqs[r].user
Hidden(r) == reqs[r].op \in {"get", "complete"}

\* The clock stamps a completion; one that is already there is the answer.
Permitted(r) ==
    CASE reqs[r].op = "create" -> Moves(r, "insert")
      [] reqs[r].op = "list" -> Moves(r, "find")
      [] reqs[r].op = "get" \/ reqs[r].seen.status = "completed" -> Answer(r, "ok", reqs[r].seen)
      [] OTHER -> reqs' = [reqs EXCEPT ![r].step = "execute", ![r].seen.status = "completed", ![r].seen.stamp = r]

Enforce(r) ==
    /\ reqs[r].step = "decide"
    /\ \/ Fail(r, "failed")
       \/ IF Allowed(r) THEN Permitted(r)
          ELSE Fail(r, IF Hidden(r) THEN "not_found" ELSE "denied")
    /\ UNCHANGED <<todo, claims, flight>>

Insert(r) ==
    LET row == Row(reqs[r].user, "pending", NoRequest, 1)
    IN  /\ reqs[r].step = "insert"
        /\ \/ todo' = row /\ (Answer(r, "ok", row) \/ Fail(r, "failed"))
           \/ UNCHANGED todo /\ Fail(r, "failed")
        /\ UNCHANGED <<claims, flight>>

Find(r) ==
    /\ reqs[r].step = "find"
    /\ \/ Answer(r, "ok", IF todo.owner = reqs[r].user THEN todo ELSE Zero)
       \/ Fail(r, "failed")
    /\ UNCHANGED <<todo, claims, flight>>

-----------------------------------------------------------------------------
(* Complete, through the executor of the process. The context of a request   *)
(* may end at any time; the store refuses one that has.                      *)
Home(r) == reqs[r].home
Claims(r, claim) == claims' = [claims EXCEPT ![Home(r)] = claim]

Cancel(r) ==
    /\ Executing(r) /\ ~reqs[r].canceled
    /\ reqs' = [reqs EXCEPT ![r].canceled = TRUE]
    /\ UNCHANGED <<todo, claims, flight>>

IsCompleted(r) == claims[Home(r)] = "completed"

Execute(r) ==
    /\ reqs[r].step = "execute"
    /\ IF reqs[r].canceled THEN Fail(r, "failed")
       ELSE IF IsCompleted(r) THEN Answer(r, "ok", reqs[r].seen)
       ELSE Moves(r, "flight")
    /\ UNCHANGED <<todo, claims, flight>>

Board(r) ==
    /\ reqs[r].step = "flight"
    /\ IF Home(r) = Server /\ flight # NoRequest THEN Moves(r, "join") /\ UNCHANGED flight
       ELSE Moves(r, "claim") /\ flight' = IF Home(r) = Server THEN r ELSE flight
    /\ UNCHANGED <<todo, claims>>

\* Neither a lease nor a retention is asked for: a claim lasts until Complete
\* or Release, and a completion as long as the store.
Claim(r) ==
    /\ reqs[r].step = "claim"
    /\ IF reqs[r].canceled \/ claims[Home(r)] # "free"
       THEN Lands(r, "failed", Zero) /\ UNCHANGED claims
       ELSE /\ reqs' = [reqs EXCEPT ![r].step = "update", ![r].tries = 1]
            /\ Claims(r, "running") /\ UNCHANGED flight
    /\ UNCHANGED todo

\* Do: an unavailable database is tried again, while the context lasts.
Again(r) ==
    IF reqs[r].tries = Tries \/ reqs[r].canceled THEN Moves(r, "release")
    ELSE reqs' = [reqs EXCEPT ![r].step = "update", ![r].tries = @ + 1]

\* Faulty: the row is found by its ID alone.
MatchesID(r) == todo # Zero

\* Update filters by ID and Version.
Matches(r) == todo.version = reqs[r].seen.version

Update(r) ==
    /\ reqs[r].step = "update"
    /\ \/ /\ Matches(r) /\ todo' = [reqs[r].seen EXCEPT !.version = @ + 1]
          /\ Moves(r, "reread") \/ Again(r)
       \/ ~Matches(r) /\ Moves(r, "release") /\ UNCHANGED todo
       \/ Again(r) /\ UNCHANGED todo
    /\ UNCHANGED <<claims, flight>>

\* First, whose row is what the operation assigns to saved.
Reread(r) ==
    /\ reqs[r].step = "reread"
    /\ \/ reqs' = [reqs EXCEPT ![r].step = "store", ![r].seen = todo]
       \/ Again(r)
    /\ UNCHANGED <<todo, claims, flight>>

Store(r) ==
    /\ reqs[r].step = "store"
    /\ IF reqs[r].canceled THEN Lands(r, "failed", Zero) /\ UNCHANGED claims
       ELSE Lands(r, "ok", reqs[r].seen) /\ Claims(r, "completed")
    /\ UNCHANGED todo

Release(r) ==
    /\ reqs[r].step = "release"
    /\ Lands(r, "failed", Zero)
    /\ IF reqs[r].canceled THEN UNCHANGED claims ELSE Claims(r, "free")
    /\ UNCHANGED todo

-----------------------------------------------------------------------------
(* A process dies; the service also gets a new store when its component is   *)
(* replaced, which waits for the executions of the old one.                  *)
CommandDies(r) ==
    /\ Home(r) = r /\ reqs[r].step # "idle"
    /\ reqs' = [reqs EXCEPT ![r] = Idle]
    /\ UNCHANGED <<todo, claims, flight>>

ServiceRestarts ==
    /\ reqs' = [r \in Requests |-> IF Home(r) = Server THEN Idle ELSE reqs[r]]
    /\ claims' = [claims EXCEPT ![Server] = "free"] /\ flight' = NoRequest
    /\ UNCHANGED todo

StoreIsReplaced ==
    /\ claims[Server] # "free"
    /\ \A r \in Requests : Executing(r) => Home(r) # Server
    /\ claims' = [claims EXCEPT ![Server] = "free"]
    /\ UNCHANGED <<todo, flight, reqs>>

-----------------------------------------------------------------------------
TodoInit ==
    /\ todo = Zero /\ flight = NoRequest
    /\ claims = [h \in Requests \cup {Server} |-> "free"]
    /\ reqs = [r \in Requests |-> Idle]

TodoNext ==
    \/ \E r \in Requests :
        \/ \E op \in {"create", "get", "list", "complete"}, user \in Users, scoped \in BOOLEAN, home \in {Server, r} :
             Arrive(r, op, user, scoped, home)
        \/ Fetch(r) \/ Enforce(r) \/ Insert(r) \/ Find(r)
        \/ Cancel(r) \/ Execute(r) \/ Board(r) \/ Claim(r) \/ Update(r) \/ Reread(r) \/ Store(r) \/ Release(r)
        \/ CommandDies(r)
    \/ ServiceRestarts \/ StoreIsReplaced

TodoSpec == TodoInit /\ [][TodoNext]_todoVars

-----------------------------------------------------------------------------
(* Properties.                                                               *)
TodoTypeOK ==
    /\ todo.owner \in Users \cup {NoRequest} /\ todo.status \in {"zero", "pending", "completed"}
    /\ todo.stamp \in Requests \cup {NoRequest} /\ todo.version \in 0..2
    /\ claims \in [Requests \cup {Server} -> {"free", "running", "completed"}]
    /\ flight \in Requests \cup {NoRequest}

\* Whoever is told of success may see what is shown, owns it, and, for a
\* completion, finds the Todo completed, even if another process or an earlier
\* try, whose answer was lost, has done it.
AnswersAreTrue ==
    \A r \in Requests : reqs[r].code = "ok" =>
        /\ reqs[r].scoped /\ reqs[r].seen.owner \in {reqs[r].user, NoRequest}
        /\ reqs[r].op = "complete" => todo.status = "completed" /\ todo.owner = reqs[r].user

\* A completed Todo keeps its completion time, whichever processes complete it
\* at once and however often they try.
CompletionStands == [][todo.status = "completed" => UNCHANGED todo]_todoVars

\* composition/todo.go says that the execution body returns the entity that was
\* written: a successful Complete shows the stored Todo.
CompleteShowsTheTodo ==
    \A r \in Requests : reqs[r].code = "ok" /\ reqs[r].op = "complete" =>
        reqs[r].seen.owner = todo.owner /\ reqs[r].seen.status = "completed"

\* Both: what a client is told is so, and stays so.
CompletionIsSound == [](TodoTypeOK /\ AnswersAreTrue) /\ CompletionStands
=============================================================================

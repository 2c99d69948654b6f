------------------------------ MODULE Storage ------------------------------
(* Storage: the watches of files, and below them the clients that modules    *)
(* borrow. They share no state.                                              *)
(*                                                                           *)
(* The file watches of pkg/storage (watch.go and Close): one consumer per    *)
(* watched path on the shared channel of the watcher, handlers that run      *)
(* outside the lock, and stops that wait for them.                           *)
EXTENDS Naturals

CONSTANTS
    Entries,        \* the watch entries there may ever be
    Paths,          \* the paths that are watched
    Stoppers        \* the goroutines that call StopWatch, StopAllWatch and Close

VARIABLES
    entry,      \* per entry: its path, whether it is canceled, and where its consumer is
    watches,    \* the map from path to entry, as the set of entries in it
    stopper,    \* per caller: the call it is in and the entries whose done it waits for
    stopped,    \* history: the entries that a StopWatch or a Close has returned for
    service     \* "open" or "closed"

fileVars == <<entry, watches, stopper, stopped, service>>

\* Something can be watched.
ASSUME PathsAssumption == Paths # {}

NoCall == [call |-> "none", waits |-> {}]

FileInit ==
    /\ entry = [e \in Entries |-> [path |-> CHOOSE p \in Paths : TRUE, canceled |-> FALSE, at |-> "unused"]]
    /\ watches = {} /\ stopped = {} /\ service = "open"
    /\ stopper = [s \in Stoppers |-> NoCall]

WatchOf(path) == {e \in watches : entry[e].path = path}

-----------------------------------------------------------------------------
(* Watch: refused when the service is closed or the path has its watch. *)
Watch(e, path) ==
    /\ service = "open" /\ entry[e].at = "unused" /\ WatchOf(path) = {}
    /\ entry' = [entry EXCEPT ![e] = [path |-> path, canceled |-> FALSE, at |-> "select"]]
    /\ watches' = watches \cup {e}
    /\ UNCHANGED <<stopper, stopped, service>>

(* handleWatchEvents: any event of the channel may go to any consumer, which      *)
(* drops those of other paths; select does not prefer the cancellation.           *)
HandleEvent(e) ==
    /\ entry[e].at = "select" /\ service # "closed"
    /\ entry' = [entry EXCEPT ![e].at = "handler"]
    /\ UNCHANGED <<watches, stopper, stopped, service>>

HandlerReturns(e) ==
    /\ entry[e].at = "handler"
    /\ entry' = [entry EXCEPT ![e].at = "select"]
    /\ UNCHANGED <<watches, stopper, stopped, service>>

ConsumerEnds(e) ==
    /\ entry[e].at = "select" /\ (entry[e].canceled \/ service = "closed")
    /\ entry' = [entry EXCEPT ![e].at = "done"]
    /\ UNCHANGED <<watches, stopper, stopped, service>>

-----------------------------------------------------------------------------
(* The done channels a stop waits for once it has given the lock back. *)
Awaited(entries) == entries

Cancel(entries) ==
    entry' = [e \in Entries |-> [entry[e] EXCEPT !.canceled = @ \/ e \in entries]]

(* StopWatch takes the entry out of the map and waits for it without the lock. *)
StopWatch(s, e) ==
    /\ stopper[s].call = "none" /\ e \in watches
    /\ Cancel({e}) /\ watches' = watches \ {e}
    /\ stopper' = [stopper EXCEPT ![s] = [call |-> "stop", waits |-> {e}]]
    /\ UNCHANGED <<stopped, service>>

(* StopAllWatch cancels and forgets; it waits for nobody. *)
StopAllWatch(s) ==
    /\ stopper[s].call = "none" /\ watches # {}
    /\ Cancel(watches) /\ watches' = {}
    /\ UNCHANGED <<stopper, stopped, service>>

(* Close, once: the entries of the map are canceled, the watcher is closed with *)
(* its channels, and the done of each of those entries is awaited.              *)
CloseService ==
    /\ service = "open"
    /\ \E s \in Stoppers :
          /\ stopper[s].call = "none"
          /\ stopper' = [stopper EXCEPT ![s] = [call |-> "close", waits |-> watches]]
    /\ Cancel(watches) /\ watches' = {}
    /\ service' = "closed"
    /\ UNCHANGED stopped

StopWatchReturns(s) ==
    /\ stopper[s].call # "none"
    /\ \A e \in Awaited(stopper[s].waits) : entry[e].at = "done"
    /\ stopped' = stopped \cup stopper[s].waits
    /\ stopper' = [stopper EXCEPT ![s] = NoCall]
    /\ UNCHANGED <<entry, watches, service>>

FileNext ==
    \/ CloseService
    \/ \E e \in Entries :
          \/ HandleEvent(e) \/ HandlerReturns(e) \/ ConsumerEnds(e)
          \/ \E p \in Paths : Watch(e, p)
    \/ \E s \in Stoppers : StopAllWatch(s) \/ StopWatchReturns(s) \/ \E e \in Entries : StopWatch(s, e)

-----------------------------------------------------------------------------
FileTypeOK ==
    /\ entry \in [Entries ->
          [path : Paths, canceled : BOOLEAN, at : {"unused", "select", "handler", "done"}]]
    /\ watches \subseteq Entries /\ stopped \subseteq Entries /\ service \in {"open", "closed"}
    /\ stopper \in [Stoppers -> [call : {"none", "stop", "close"}, waits : SUBSET Entries]]

(* Once StopWatch, or the Close that found the watch, has returned, its handler    *)
(* does not run and will not run again; and no two watches of a path are live      *)
(* (handleWatchEvents, StopWatch, Close).                                          *)
StoppedWatchesAreQuiet ==
    /\ FileTypeOK
    /\ \A e \in stopped : entry[e].at = "done"
    /\ \A e, o \in Entries :
          e # o /\ entry[e].path = entry[o].path /\ {e, o} \cap {x \in Entries : entry[x].at = "unused"} = {}
             => entry[e].canceled \/ entry[o].canceled

-----------------------------------------------------------------------------
(***************************************************************************)
(* The storage that modules borrow: a callback gets a client that is good  *)
(* until it returns, operations it has started may outlive it, and         *)
(* candidates check the same directory while it is in use. The object is   *)
(* one key; what is put is a model value, all of one length.               *)
(* (internal/kernel/app/storage/storage.go, pkg/storage/local/client.go,   *)
(*  pkg/storage/s3compat/client.go, pkg/storage/client_factory.go)         *)
(***************************************************************************)

CONSTANTS
    Operations,     \* operations the callback starts, itself or in goroutines of its own
    Checks,         \* candidates, of this process and others, that verify the store
    Contents        \* what a Put may write

VARIABLES
    manager,    \* its driver, and whether it was finalized
    borrow,     \* the call of Use: the client it got and where it is
    operation,  \* per operation: what it does, where it is, what it found, and when it was asked for
    check,      \* per check: its next step, whether it failed, and whether a call of its did, and one that cleans up
    files,      \* per file of the local store: "none", "empty" or its contents
    object      \* the object in the bucket: "none" or its contents

objectVars == <<manager, borrow, operation, check, files, object>>

Drivers == {"disabled", "local", "s3", "local+s3"}

\* NewManager: the clients each driver has. MinIO differs from S3 in its settings only.
Clients(driver) ==
    CASE driver = "disabled" -> {}
      [] driver = "local" -> {"local"}
      [] driver = "s3" -> {"object"}
      [] driver = "local+s3" -> {"local", "object"}

\* selectClient, with StorageManager.Primary for the primary route.
ClientOf(route, clients) ==
    IF route # "primary" THEN route ELSE IF "object" \in clients THEN "object" ELSE "local"

\* HealthCheck draws its key.
CheckKey(h) == h

TheKey == "object"

\* A check draws its key at random, so that it is nobody else's (HealthCheck).
ASSUME KeysAssumption == TheKey \notin Checks

NotAsked == [does |-> "none", at |-> "none", puts |-> "none", found |-> "none", asked |-> "none"]

\* ready looks at each client in turn, the local one first.
FirstOf(clients) ==
    IF "local" \in clients THEN "put" ELSE IF "object" \in clients THEN "head" ELSE "done"
AfterLocal(clients) == IF "object" \in clients THEN "head" ELSE "done"

(* Some checks are over, or there are none. *)
ObjectInit ==
    /\ manager \in [driver : Drivers, closed : {FALSE}]
    /\ borrow = [client |-> "none", at |-> "none"]
    /\ operation = [o \in Operations |-> NotAsked]
    /\ check \in [Checks -> [at : {FirstOf(Clients(manager.driver)), "done"},
                              failed : {FALSE}, hurt : {FALSE}, mess : {FALSE}]]
    /\ files = [f \in {TheKey} \cup Checks |-> "none"]
    /\ object = "none"

-----------------------------------------------------------------------------
(* Use: refused, or a callback with the client of the route. *)
Borrow(route) ==
    LET clients == Clients(manager.driver)
        client == ClientOf(route, clients)
    IN
    /\ borrow.at = "none" /\ ~manager.closed
    /\ borrow' = IF client \in clients THEN [client |-> client, at |-> "inside"]
                                       ELSE [client |-> "none", at |-> "refused"]
    /\ UNCHANGED <<manager, operation, check, files, object>>

(* The callback returns; close ends the borrow before the lease is given back. *)
EndBorrow ==
    /\ borrow.at = "inside"
    /\ borrow' = [borrow EXCEPT !.at = "returned"]
    /\ UNCHANGED <<manager, operation, check, files, object>>

(* The manager is finalized. The lease lets nobody be inside (see UseGate). *)
CloseManager ==
    /\ ~manager.closed /\ borrow.at # "inside"
    /\ manager' = [manager EXCEPT !.closed = TRUE]
    /\ UNCHANGED <<borrow, operation, check, files, object>>

-----------------------------------------------------------------------------
Moves(o, at) == operation' = [operation EXCEPT ![o].at = at]
KeepsUse == UNCHANGED <<manager, borrow, check>>

(* An operation is asked for by the callback or by a goroutine it left behind. *)
AskFor(o, does, contents) ==
    /\ operation[o].at = "none" /\ borrow.at \in {"inside", "returned"}
    /\ operation' = [operation EXCEPT ![o] =
          [does |-> does, at |-> "asked", puts |-> contents, found |-> "none", asked |-> borrow.at]]
    /\ KeepsUse /\ UNCHANGED <<files, object>>

\* Faulty: whoever has the client may go on using it.
UsableAlways == TRUE

\* closed is read once, before the operation begins.
Usable == borrow.at = "inside"

OperationContext(o) ==
    /\ operation[o].at = "asked"
    /\ Moves(o, IF Usable THEN "begun" ELSE "refused")
    /\ KeepsUse /\ UNCHANGED <<files, object>>

(* The local client looks at no context: what has begun is done. A write       *)
(* truncates the file first; any call of the file system may fail.             *)
Begun(o, client, does) == operation[o].at = "begun" /\ borrow.client = client /\ operation[o].does = does

Truncate(o) ==
    /\ Begun(o, "local", "put")
    /\ files' = [files EXCEPT ![TheKey] = "empty"] /\ Moves(o, "writing")
    /\ KeepsUse /\ UNCHANGED object

WriteFile(o) ==
    /\ operation[o].at = "writing"
    /\ files' = [files EXCEPT ![TheKey] = operation[o].puts] /\ Moves(o, "ok")
    /\ KeepsUse /\ UNCHANGED object

ReadFile(o) ==
    /\ Begun(o, "local", "get")
    /\ operation' = [operation EXCEPT ![o].found = files[TheKey],
                                      ![o].at = IF files[TheKey] = "none" THEN "failed" ELSE "stat"]
    /\ KeepsUse /\ UNCHANGED <<files, object>>

Stat(o) ==
    /\ operation[o].at = "stat"
    /\ Moves(o, IF files[TheKey] = "none" THEN "failed" ELSE "ok")
    /\ KeepsUse /\ UNCHANGED <<files, object>>

Remove(o) ==
    /\ Begun(o, "local", "delete")
    /\ files' = [files EXCEPT ![TheKey] = "none"] /\ Moves(o, "ok")
    /\ KeepsUse /\ UNCHANGED object

FileFails(o) ==
    /\ operation[o].at \in {"writing", "stat"} \/ (operation[o].at = "begun" /\ borrow.client = "local")
    /\ Moves(o, "failed")
    /\ KeepsUse /\ UNCHANGED <<files, object>>

(* The service of the bucket does one request at once. The end of the borrow     *)
(* cancels a request, but the request may be there already or come before that;  *)
(* an answer that is lost is a failure all the same.                             *)
Request(o) ==
    /\ Begun(o, "object", operation[o].does)
    /\ object' = CASE operation[o].does = "put" -> operation[o].puts
                   [] operation[o].does = "delete" -> "none"
                   [] OTHER -> object
    /\ \E at \in {"ok", "failed"} :
          /\ operation[o].does = "get" /\ object = "none" => at = "failed"
          /\ operation' = [operation EXCEPT ![o].at = at, ![o].found = object]
    /\ KeepsUse /\ UNCHANGED files

RequestFails(o) ==
    /\ operation[o].at = "begun" /\ borrow.client = "object"
    /\ Moves(o, "failed")
    /\ KeepsUse /\ UNCHANGED <<files, object>>

(* Exists is a look at the local file or at the bucket; it tells "none" from the rest. *)
Exists(o) ==
    /\ Begun(o, "local", "exists")
    /\ operation' = [operation EXCEPT ![o].at = "ok", ![o].found = files[TheKey]]
    /\ KeepsUse /\ UNCHANGED <<files, object>>

-----------------------------------------------------------------------------
KeepsCalls == UNCHANGED <<manager, borrow, operation, object>>

\* What a step of a check found: it goes on, or gives up and removes its object.
Checked(h, fine, next) ==
    check' = [check EXCEPT ![h].at = IF fine THEN next ELSE "delete", ![h].failed = @ \/ ~fine]

CheckTruncates(h) ==
    /\ check[h].at = "put"
    /\ files' = [files EXCEPT ![CheckKey(h)] = "empty"] /\ Checked(h, TRUE, "write")
    /\ KeepsCalls

CheckWrites(h) ==
    /\ check[h].at = "write"
    /\ files' = [files EXCEPT ![CheckKey(h)] = "ok"] /\ Checked(h, TRUE, "get")
    /\ KeepsCalls

CheckReads(h) ==
    /\ check[h].at \in {"get", "exists"}
    /\ IF check[h].at = "get" THEN Checked(h, files[CheckKey(h)] = "ok", "exists")
                              ELSE Checked(h, files[CheckKey(h)] # "none", "delete")
    /\ KeepsCalls /\ UNCHANGED files

CheckDeletes(h) ==
    /\ check[h].at = "delete"
    /\ files' = [files EXCEPT ![CheckKey(h)] = "none"]
    /\ check' = [check EXCEPT ![h].at = AfterLocal(Clients(manager.driver))]
    /\ KeepsCalls

\* A Put that fails ends the check at once; its file may be there already.
CheckFails(h) ==
    /\ check[h].at \notin {"head", "done"}
    /\ check' = [check EXCEPT ![h].failed = TRUE, ![h].hurt = TRUE,
          ![h].mess = @ \/ check[h].at \in {"write", "delete"},
          ![h].at = IF @ \in {"get", "exists"} THEN "delete" ELSE AfterLocal(Clients(manager.driver))]
    /\ KeepsCalls /\ UNCHANGED files

HeadBucket(h) ==
    /\ check[h].at = "head"
    /\ \E hurt \in BOOLEAN :
          check' = [check EXCEPT ![h].at = "done", ![h].failed = @ \/ hurt, ![h].hurt = @ \/ hurt]
    /\ KeepsCalls /\ UNCHANGED files

-----------------------------------------------------------------------------
Operate(o) ==
    \/ \E d \in {"get", "delete", "exists"} : AskFor(o, d, "none")
    \/ \E c \in Contents : AskFor(o, "put", c)
    \/ OperationContext(o)
    \/ Truncate(o) \/ WriteFile(o) \/ ReadFile(o) \/ Stat(o) \/ Remove(o) \/ Exists(o) \/ FileFails(o)
    \/ Request(o) \/ RequestFails(o)

Verify(h) ==
    CheckTruncates(h) \/ CheckWrites(h) \/ CheckReads(h) \/ CheckDeletes(h) \/ CheckFails(h) \/ HeadBucket(h)

ObjectNext ==
    \/ EndBorrow \/ CloseManager
    \/ \E route \in {"primary", "local", "object"} : Borrow(route)
    \/ \E o \in Operations : Operate(o)
    \/ \E h \in Checks : Verify(h)

-----------------------------------------------------------------------------
ObjectTypeOK ==
    /\ manager \in [driver : Drivers, closed : BOOLEAN]
    /\ borrow \in [client : {"none", "local", "object"}, at : {"none", "refused", "inside", "returned"}]
    /\ \A o \in Operations :
          /\ operation[o].does \in {"none", "put", "get", "delete", "exists"}
          /\ operation[o].at \in {"none", "asked", "refused", "begun", "writing", "stat", "ok", "failed"}
    /\ \A h \in Checks :
          check[h].at \in {"put", "write", "get", "exists", "delete", "head", "done"}
    /\ files \in [{TheKey} \cup Checks -> {"none", "empty", "ok"} \cup Contents]
    /\ object \in {"none"} \cup Contents

(* An operation asked for after the callback has returned touches nothing, so *)
(* nobody begins to use a manager that may be finalized (borrowState).        *)
EscapedIsRefused ==
    \A o \in Operations : operation[o].asked = "returned" => operation[o].at \in {"asked", "refused"}

\* Operations that have changed the store or may yet do so.
Changing == {o \in Operations : operation[o].does \in {"put", "delete"}
                                /\ operation[o].at \in {"begun", "writing", "ok", "failed"}}
TheObject == IF borrow.client = "local" THEN files[TheKey] ELSE object

(* What alone has changed the store and reported success is what the store     *)
(* holds, also when the callback has returned before it was done; and the      *)
(* client that was not routed to is untouched.                                 *)
SuccessIsStored ==
    /\ \A o \in Operations : Changing = {o} /\ operation[o].at = "ok" => TheObject = operation[o].puts
    /\ borrow.client # "local" => files[TheKey] = "none"
    /\ borrow.client # "object" => object = "none"

(* A check fails only if a call of its own fails, whoever else is checking or   *)
(* writing, and leaves nothing behind unless writing or removing it has failed  *)
(* (ready, HealthCheck).                                                        *)
ChecksAreIndependent ==
    \A h \in Checks :
       check[h].at = "done" =>
          /\ check[h].failed <=> check[h].hurt
          /\ files[h] = "none" \/ check[h].mess

ObjectsAreSound == ObjectTypeOK /\ EscapedIsRefused /\ SuccessIsStored /\ ChecksAreIndependent

-----------------------------------------------------------------------------
(* Both parts of the storage at once; they share nothing. *)
StorageSpec ==
    /\ FileInit /\ ObjectInit
    /\ [][\/ FileNext /\ UNCHANGED objectVars
          \/ ObjectNext /\ UNCHANGED fileVars]_<<fileVars, objectVars>>

(* A watch that was stopped is quiet, and a borrowed client that was given back *)
(* is of no use; what the store reports is what it holds.                       *)
StorageIsSound == StoppedWatchesAreQuiet /\ ObjectsAreSound
=============================================================================

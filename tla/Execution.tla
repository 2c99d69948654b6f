----------------------------- MODULE Execution -----------------------------
(***************************************************************************)
(* The execution capability: executor.Execute (pkg/execution/executor.go)  *)
(* over an AsyncRecorder (async.go) over a RecoveringStore, assembled and  *)
(* stopped as internal/kernel/app/execution does. Workers execute keyed    *)
(* operations; SingleFlight lets one worker per key run, the others share  *)
(* its result. Recorders are the goroutines of the AsyncRecorder.          *)
(***************************************************************************)
EXTENDS RecoveringStore

CONSTANTS
    Workers, Recorders,
    Cancellable,       \* the workers whose context may end
    QueueCapacity,     \* AsyncConfig.Capacity
    Policies,          \* pairs of RecoveryConfig.Overflow and AsyncConfig.Overflow
    MaxExecutions      \* bound: calls of Execute by all workers

ASSUME ExecutionAssumption ==
    /\ Callers = Workers \cup Recorders
    /\ Workers \cap Recorders = {}
    /\ Cancellable \subseteq Workers
    /\ QueueCapacity \in Nat \ {0}
    /\ MaxExecutions \in Nat
    /\ Recorders # {} /\ Keys # {}
    /\ Policies \subseteq OverflowPolicies \X OverflowPolicies

VARIABLES
    pc,             \* a worker in Execute
    executions,     \* calls of Execute so far
    asyncOverflow,  \* AsyncConfig.Overflow
    queue,          \* AsyncRecorder.ch: keys of queued records
    recorderPc,
    stopPc,         \* the component's stop function; past "serving", recorder.closed
    promised,       \* history: keys whose completion was acknowledged and has not lapsed
    flightEnd,      \* history: how the last flight of a key ended
    losses          \* history: what each worker was told was written and was not

executionVars == <<pc, executions, asyncOverflow, queue, recorderPc, stopPc,
                   promised, flightEnd, losses>>
vars == <<storeVars, executionVars>>

FlightPcs == {"claiming", "completing", "releasing", "recording",
              "waiting", "syncing", "detached"}

TypeOK ==
    /\ StoreTypeOK
    /\ pc \in [Workers -> {"idle", "checking", "joined"} \cup FlightPcs]
    /\ executions \in 0..MaxExecutions
    /\ asyncOverflow \in OverflowPolicies
    /\ queue \in Seq(Keys) /\ Len(queue) <= QueueCapacity
    /\ recorderPc \in [Recorders -> {"taking", "writing", "exited"}]
    /\ stopPc \in {"serving", "draining", "stopping", "stopped"}
    /\ promised \subseteq Keys
    /\ flightEnd \in [Keys -> {"none", "clean", "unclean"}]
    /\ losses \in [Workers -> Nat]

Key(w) == request[w].key
InFlight(k) == \E w \in Workers : pc[w] \in FlightPcs /\ Key(w) = k

\* The buffer holds a write of k that the primary has not had yet.
Outstanding(k, ops) ==
    \E i \in 1..Len(buffered) :
        /\ buffered[i].op \in ops /\ buffered[i].key = k
        /\ i = 1 => loop # "replayed"

HoldsCompletion(k) == primary[k] = "completed" \/ Outstanding(k, {"complete"})
HoldsEnd(k) == primary[k] # "running" \/ Outstanding(k, {"complete", "release"})

-----------------------------------------------------------------------------
(* Execute, and run in a flight.                                           *)

\* Execute returns; a leader also ends the wait of the workers that joined.
Finish(w) ==
    LET back == {w} \cup {v \in Workers : /\ pc[w] \in FlightPcs /\ pc[v] = "joined"
                                          /\ Key(v) = Key(w)}
    IN  /\ pc' = [v \in Workers |-> IF v \in back THEN "idle" ELSE pc[v]]
        /\ ended' = [p \in Callers |-> IF p \in back THEN FALSE ELSE ended[p]]
        /\ request' = [p \in Callers |-> IF p \in back THEN NoRequest ELSE request[p]]

StoreReturned(w) == callPc' = [callPc EXCEPT ![w] = "idle"] /\ result' = [result EXCEPT ![w] = "none"]

Advance(w, next) == pc' = [pc EXCEPT ![w] = next]

restOfStore == <<overflow, dropped, state, buffered, stopCh, loop, primary, local, faults>>

Execute(w, k) ==
    /\ pc[w] = "idle"
    /\ executions < MaxExecutions
    /\ executions' = executions + 1
    /\ Advance(w, "checking")
    /\ Call(w, "isCompleted", k)
    /\ UNCHANGED <<ended, asyncOverflow, queue, recorderPc, stopPc, promised, flightEnd, losses>>

ContextEnds(w) ==
    /\ w \in Cancellable
    /\ pc[w] \notin {"idle", "detached"} /\ ~ended[w]
    /\ ended' = [ended EXCEPT ![w] = TRUE]
    /\ UNCHANGED <<restOfStore, request, callPc, result, executionVars>>

\* A duplicate, or the store cannot tell.
CheckEnds(w) ==
    /\ pc[w] = "checking" /\ callPc[w] = "returned" /\ result[w] # "no"
    /\ Finish(w) /\ StoreReturned(w)
    /\ UNCHANGED <<restOfStore, executions, asyncOverflow, queue, recorderPc, stopPc,
                   promised, flightEnd, losses>>

Join(w) ==
    /\ pc[w] = "checking" /\ callPc[w] = "returned" /\ result[w] = "no"
    /\ InFlight(Key(w))
    /\ Advance(w, "joined") /\ StoreReturned(w)
    /\ UNCHANGED <<restOfStore, request, ended, executions, asyncOverflow, queue, recorderPc,
                   stopPc, promised, flightEnd, losses>>

Lead(w) ==
    /\ pc[w] = "checking" /\ callPc[w] = "returned" /\ result[w] = "no"
    /\ ~InFlight(Key(w))
    /\ Advance(w, "claiming")
    /\ Call(w, "claim", Key(w))
    /\ UNCHANGED <<ended, executions, asyncOverflow, queue, recorderPc, stopPc,
                   promised, flightEnd, losses>>

NotClaimed(w) ==
    /\ pc[w] = "claiming" /\ callPc[w] = "returned" /\ result[w] # "yes"
    /\ flightEnd' = [flightEnd EXCEPT ![Key(w)] = "unclean"]
    /\ Finish(w) /\ StoreReturned(w)
    /\ UNCHANGED <<restOfStore, executions, asyncOverflow, queue, recorderPc, stopPc, promised,
                   losses>>

\* The operation, retries included, runs from the claim to one of these steps.
OperationSucceeds(w) ==
    /\ pc[w] = "claiming" /\ callPc[w] = "returned" /\ result[w] = "yes"
    /\ Advance(w, "completing")
    /\ Call(w, "complete", Key(w))
    /\ UNCHANGED <<ended, executions, asyncOverflow, queue, recorderPc, stopPc,
                   promised, flightEnd, losses>>

OperationFails(w) ==
    /\ pc[w] = "claiming" /\ callPc[w] = "returned" /\ result[w] = "yes"
    /\ Advance(w, "releasing")
    /\ Call(w, "release", Key(w))
    /\ UNCHANGED <<ended, executions, asyncOverflow, queue, recorderPc, stopPc,
                   promised, flightEnd, losses>>

\* The worker is told how its flight ended, and the store stands behind that or
\* does not: what it has dropped is lost.
FlightEnds(w, kept) ==
    /\ flightEnd' = [flightEnd EXCEPT ![Key(w)] =
                        IF result[w] = "yes" /\ HoldsEnd(Key(w)) THEN "clean" ELSE "unclean"]
    /\ losses' = [losses EXCEPT ![w] = IF result[w] = "yes" /\ ~kept THEN @ + 1 ELSE @]

CompleteReturns(w) ==
    /\ pc[w] = "completing" /\ callPc[w] = "returned"
    /\ promised' = IF result[w] = "yes" /\ HoldsCompletion(Key(w))
                   THEN promised \cup {Key(w)} ELSE promised
    /\ FlightEnds(w, HoldsCompletion(Key(w)))
    /\ Finish(w) /\ StoreReturned(w)
    /\ UNCHANGED <<restOfStore, executions, asyncOverflow, queue, recorderPc, stopPc>>

ReleaseReturns(w) ==
    /\ pc[w] = "releasing" /\ callPc[w] = "returned"
    /\ FlightEnds(w, HoldsEnd(Key(w)))
    /\ Advance(w, "recording") /\ StoreReturned(w)
    /\ UNCHANGED <<restOfStore, request, ended, executions, asyncOverflow, queue, recorderPc,
                   stopPc, promised>>

-----------------------------------------------------------------------------
(* AsyncRecorder.Record of the failed run, and its workers.                *)

Queue(w) ==
    /\ pc[w] = "recording" /\ ~ended[w] /\ stopPc = "serving"
    /\ Len(queue) < QueueCapacity
    /\ queue' = Append(queue, Key(w))
    /\ Finish(w)
    /\ UNCHANGED <<restOfStore, callPc, result, executions, asyncOverflow, recorderPc,
                   stopPc, promised, flightEnd, losses>>

\* The context has ended, or the queue is full and the record is given up.
NotQueued(w) ==
    /\ pc[w] = "recording"
    /\ \/ ended[w]
       \/ stopPc = "serving" /\ Len(queue) = QueueCapacity /\ asyncOverflow # "block"
    /\ Finish(w)
    /\ UNCHANGED <<restOfStore, callPc, result, executions, asyncOverflow, queue,
                   recorderPc, stopPc, promised, flightEnd, losses>>

QueueBlocks(w) ==
    /\ pc[w] = "recording" /\ ~ended[w] /\ stopPc = "serving"
    /\ Len(queue) = QueueCapacity /\ asyncOverflow = "block"
    /\ Advance(w, "waiting")
    /\ UNCHANGED <<storeVars, executions, asyncOverflow, queue, recorderPc, stopPc,
                   promised, flightEnd, losses>>

\* The select of the blocking path takes any of its cases that is ready.
QueuedLate(w) ==
    /\ pc[w] = "waiting"
    /\ Len(queue) < QueueCapacity
    /\ queue' = Append(queue, Key(w))
    /\ Finish(w)
    /\ UNCHANGED <<restOfStore, callPc, result, executions, asyncOverflow, recorderPc,
                   stopPc, promised, flightEnd, losses>>

QueueGivenUp(w) ==
    /\ pc[w] = "waiting" /\ ended[w]
    /\ Finish(w)
    /\ UNCHANGED <<restOfStore, callPc, result, executions, asyncOverflow, queue,
                   recorderPc, stopPc, promised, flightEnd, losses>>

\* After Shutdown the record is written by the caller itself; one that was
\* waiting for space writes it with a context that does not end.
RecordSynchronously(w) ==
    /\ pc[w] = "recording" /\ ~ended[w] /\ stopPc # "serving"
    /\ Advance(w, "syncing")
    /\ Call(w, "record", Key(w))
    /\ UNCHANGED <<ended, executions, asyncOverflow, queue, recorderPc, stopPc,
                   promised, flightEnd, losses>>

RecordDetached(w) ==
    /\ pc[w] = "waiting" /\ stopPc # "serving"
    /\ Advance(w, "detached")
    /\ CallWith(w, "record", Key(w), FALSE)
    /\ ended' = [ended EXCEPT ![w] = FALSE]
    /\ UNCHANGED <<executions, asyncOverflow, queue, recorderPc, stopPc,
                   promised, flightEnd, losses>>

RecordReturns(w) ==
    /\ pc[w] \in {"syncing", "detached"} /\ callPc[w] = "returned"
    /\ Finish(w) /\ StoreReturned(w)
    /\ UNCHANGED <<restOfStore, executions, asyncOverflow, queue, recorderPc, stopPc,
                   promised, flightEnd, losses>>

Take(r) ==
    /\ recorderPc[r] = "taking" /\ queue # <<>>
    /\ queue' = Tail(queue)
    /\ recorderPc' = [recorderPc EXCEPT ![r] = "writing"]
    /\ Call(r, "record", Head(queue))
    /\ UNCHANGED <<ended, pc, executions, asyncOverflow, stopPc, promised, flightEnd, losses>>

Written(r) ==
    /\ recorderPc[r] = "writing" /\ callPc[r] = "returned"
    /\ recorderPc' = [recorderPc EXCEPT ![r] = "taking"]
    /\ StoreReturned(r)
    /\ request' = [request EXCEPT ![r] = NoRequest]
    /\ UNCHANGED <<restOfStore, ended, pc, executions, asyncOverflow, queue, stopPc,
                   promised, flightEnd, losses>>

RecorderExits(r) ==
    /\ recorderPc[r] = "taking" /\ queue = <<>> /\ stopPc # "serving"
    /\ recorderPc' = [recorderPc EXCEPT ![r] = "exited"]
    /\ UNCHANGED <<storeVars, pc, executions, asyncOverflow, queue, stopPc,
                   promised, flightEnd, losses>>

-----------------------------------------------------------------------------
(* stop: Shutdown of the recorder, then Stop of the store.                 *)

BeginShutdown ==
    /\ stopPc = "serving"
    /\ stopPc' = "draining"
    /\ UNCHANGED <<storeVars, pc, executions, asyncOverflow, queue, recorderPc,
                   promised, flightEnd, losses>>

ShutdownReturns ==
    /\ stopPc = "draining"
    /\ \A r \in Recorders : recorderPc[r] = "exited"
    /\ stopPc' = "stopping"
    /\ CloseStopCh
    /\ UNCHANGED <<pc, executions, asyncOverflow, queue, recorderPc, promised, flightEnd, losses>>

StopReturns ==
    /\ stopPc = "stopping" /\ loop = "done"
    /\ stopPc' = "stopped"
    /\ UNCHANGED <<storeVars, pc, executions, asyncOverflow, queue, recorderPc,
                   promised, flightEnd, losses>>

-----------------------------------------------------------------------------

Init ==
    /\ StoreInit
    /\ pc = [w \in Workers |-> "idle"]
    /\ executions = 0
    /\ asyncOverflow \in {policies[2] : policies \in Policies}
    /\ <<overflow, asyncOverflow>> \in Policies
    /\ queue = <<>>
    /\ recorderPc = [r \in Recorders |-> "taking"]
    /\ stopPc = "serving"
    /\ promised = {}
    /\ flightEnd = [k \in Keys |-> "none"]
    /\ losses = [w \in Workers |-> 0]

WorkerStep(w) ==
    \/ CheckEnds(w) \/ Join(w) \/ Lead(w) \/ NotClaimed(w)
    \/ OperationSucceeds(w) \/ OperationFails(w)
    \/ CompleteReturns(w) \/ ReleaseReturns(w)
    \/ Queue(w) \/ NotQueued(w) \/ QueueBlocks(w) \/ QueuedLate(w) \/ QueueGivenUp(w)
    \/ RecordSynchronously(w) \/ RecordDetached(w) \/ RecordReturns(w)

RecorderStep(r) == Take(r) \/ Written(r) \/ RecorderExits(r)

InStore(p) == StoreStep(p) /\ UNCHANGED executionVars
Loop == LoopStep /\ UNCHANGED executionVars

\* The window of a completion or of a lease ends; that of a completion not
\* before the call that opened it has returned.
Lapse(k) ==
    /\ primary[k] = "completed" => \A w \in Workers : ~(pc[w] = "completing" /\ Key(w) = k)
    /\ \/ /\ PrimaryLapses(k)
          /\ promised' = IF primary[k] = "completed" THEN promised \ {k} ELSE promised
       \/ LocalLapses(k) /\ UNCHANGED promised
    /\ UNCHANGED <<pc, executions, asyncOverflow, queue, recorderPc, stopPc, flightEnd, losses>>

Next ==
    \/ \E w \in Workers : WorkerStep(w) \/ ContextEnds(w) \/ \E k \in Keys : Execute(w, k)
    \/ \E r \in Recorders : RecorderStep(r)
    \/ \E p \in Callers : InStore(p)
    \/ Loop
    \/ \E k \in Keys : Lapse(k)
    \/ BeginShutdown \/ ShutdownReturns \/ StopReturns

Spec == Init /\ [][Next]_vars

-----------------------------------------------------------------------------
(* Safety.                                                                 *)

\* A completion that was acknowledged is not forgotten before its window
\* ends: whatever failed and whatever was replayed meanwhile, the primary
\* holds it or the buffer still does. LossesAreCounted has the completions
\* that were lost before their writer was told of them.
CompletionIsKept ==
    \A k \in promised :
        \/ primary[k] = "completed"
        \/ \E i \in 1..Len(buffered) : buffered[i] = [op |-> "complete", key |-> k]

\* A flight that ended well has left no claim behind in the primary: if the
\* primary still shows one, the write that ends it is in the buffer.
ClaimsAreReleased ==
    \A k \in Keys :
        flightEnd[k] = "clean" /\ ~InFlight(k) /\ primary[k] = "running" =>
            \E i \in 1..Len(buffered) :
                buffered[i].op \in {"complete", "release"} /\ buffered[i].key = k

\* A worker that is told its completion or release was written is told so of
\* one the store has, unless operators chose the policy that discards; and then
\* the count the store shows them is never short of what was lost that way.
LossesAreCounted ==
    \A w \in Workers :
        /\ losses[w] <= dropped[w]
        /\ overflow # "discard" => losses[w] = 0

\* Shutdown drains: once it has returned no accepted record is left in the
\* queue. With the blocking policy a late writer may still put one there.
QueueIsDrained ==
    stopPc \in {"stopping", "stopped"} /\ asyncOverflow # "block" => queue = <<>>

\* Together: what a writer was told is kept, by whatever way it went, or the
\* discarding policy has dropped it and counted it.
EffectsAreKept ==
    TypeOK /\ CompletionIsKept /\ ClaimsAreReleased /\ LossesAreCounted /\ QueueIsDrained

-----------------------------------------------------------------------------
(* Why: what holds between the steps of a call, of a flight and of a replay. *)

CallOf == [checking |-> "isCompleted", claiming |-> "claim", completing |-> "complete",
           releasing |-> "release", syncing |-> "record", detached |-> "record"]

\* Who is in a call of the store, and in which.
CallsInv ==
    /\ \A w \in Workers :
            /\ callPc[w] # "idle" <=> pc[w] \in DOMAIN CallOf
            /\ pc[w] \in DOMAIN CallOf => request[w].op = CallOf[pc[w]]
    /\ \A r \in Recorders :
            /\ callPc[r] # "idle" => recorderPc[r] = "writing"
            /\ recorderPc[r] = "writing" => request[r].op = "record"
    /\ \A p \in Callers : callPc[p] \in {"enqueue", "blocked"} => request[p].op \in Writes

\* One worker per key is in a flight.
FlightsInv ==
    \A v, w \in Workers :
        pc[v] \in FlightPcs /\ pc[w] \in FlightPcs /\ Key(v) = Key(w) => v = w

Acknowledged(w, pcs) == pc[w] \in pcs /\ callPc[w] = "returned" /\ result[w] = "yes"
Discarded(w) == overflow = "discard" /\ losses[w] < dropped[w]
Claimed(k) == \E w \in Workers : pc[w] \in {"claiming", "completing", "releasing"} /\ Key(w) = k

KeptInv ==
    /\ loop = "replayed" => buffered # <<>>
    /\ \A k \in promised : HoldsCompletion(k)
    /\ \A w \in Workers : Acknowledged(w, {"completing"}) =>
            HoldsCompletion(Key(w)) \/ Discarded(w)
    /\ \A k \in Keys : flightEnd[k] = "clean" /\ ~Claimed(k) => HoldsEnd(k)
    /\ \A w \in Workers : Acknowledged(w, {"releasing"}) => HoldsEnd(Key(w)) \/ Discarded(w)
    /\ LossesAreCounted

\* A recorder that has exited will find nothing in the queue.
DrainedInv ==
    /\ \A w \in Workers : pc[w] = "waiting" => asyncOverflow = "block"
    /\ \A r \in Recorders : recorderPc[r] = "exited" =>
            stopPc # "serving" /\ (asyncOverflow # "block" => queue = <<>>)
    /\ stopPc \in {"stopping", "stopped"} => \A r \in Recorders : recorderPc[r] = "exited"

EffectsInv == TypeOK /\ CallsInv /\ FlightsInv /\ KeptInv /\ DrainedInv

-----------------------------------------------------------------------------
(* Liveness. Every goroutine keeps running, an operation returns, and an   *)
(* outage of the primary ends: probing succeeds if it is tried for ever.   *)

Fairness ==
    /\ \A w \in Workers : WF_vars(WorkerStep(w) \/ InStore(w))
    /\ \A r \in Recorders : WF_vars(RecorderStep(r) \/ InStore(r))
    /\ WF_vars(Loop)
    /\ WF_vars(ShutdownReturns \/ StopReturns)

OutagesEnd == SF_vars(VerifySucceeds /\ UNCHANGED executionVars)

FairSpec == Spec /\ Fairness /\ OutagesEnd

\* The store goes back to the primary once that answers, unless it is stopped.
PrimaryIsUsedAgain == state # "healthy" ~> state = "healthy" \/ stopCh

\* Stop drains the recorder and comes back, where no policy makes a writer wait
\* for the recovery loop, which is stopped after the recorder.
StopEndsUnlessBlocking ==
    stopPc = "draining" /\ overflow # "block" ~> stopPc = "stopped"

\* Nothing goes on for ever: an outage of the primary is over for the store when
\* it is over, and a component that is told to stop has stopped in the end.
ExecutionSettles == PrimaryIsUsedAgain /\ StopEndsUnlessBlocking
=============================================================================

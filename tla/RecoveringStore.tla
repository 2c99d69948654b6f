-------------------------- MODULE RecoveringStore --------------------------
(***************************************************************************)
(* RecoveringStore (pkg/execution/recovery.go): a Store that decorates a   *)
(* primary Store, which may fail, with a local one. A failing primary call *)
(* degrades it; degraded writes go to the local store and into a bounded   *)
(* buffer; a recovery loop probes the primary, replays the buffer and      *)
(* switches back. Both stores keep claims as MemoryStore does (memory.go). *)
(*                                                                         *)
(* Any number of goroutines call the store. A step is one critical section *)
(* of RecoveringStore.mu or one call of a store.                           *)
(***************************************************************************)
EXTENDS Naturals, Sequences

CONSTANTS
    Callers,         \* goroutines that call the store
    Keys,
    BufferCapacity,  \* RecoveryConfig.BufferCapacity
    MaxFaults        \* bound: primary calls of callers and replays that fail

ASSUME BufferAssumption ==
    /\ BufferCapacity \in Nat \ {0}
    /\ MaxFaults \in Nat

VARIABLES
    overflow,        \* RecoveryConfig.Overflow, never changed
    dropped,         \* RecoveringStore.dropped: its share for each goroutine
    state, buffered, \* RecoveringStore.state, .buffered
    stopCh,          \* .stopCh is closed
    loop,            \* the goroutine of loop()
    primary, local,  \* claims of the two stores: key -> status
    faults,
    callPc, request, result, \* the call each goroutine has in the store
    ended            \* the context of the caller has ended

storeVars == <<overflow, dropped, state, buffered, stopCh, loop, primary, local, faults,
               callPc, request, result, ended>>

OverflowPolicies == {"discard", "alert", "block"}
ClaimStates == {"free", "running", "completed"}
Writes == {"complete", "release", "record"}
Items == [op: Writes, key: Keys]
NoRequest == [op |-> "record", key |-> CHOOSE k \in Keys : TRUE]
Requests == [op: Writes \cup {"isCompleted", "claim"}, key: Keys]

StoreTypeOK ==
    /\ overflow \in OverflowPolicies
    /\ dropped \in [Callers -> Nat]
    /\ state \in {"healthy", "degraded", "recovering"}
    /\ buffered \in Seq(Items) /\ Len(buffered) <= BufferCapacity
    /\ stopCh \in BOOLEAN
    /\ loop \in {"waiting", "verifying", "replaying", "replayed", "done"}
    /\ primary \in [Keys -> ClaimStates]
    /\ local \in [Keys -> ClaimStates]
    /\ faults \in 0..MaxFaults
    /\ callPc \in [Callers -> {"idle", "primary", "degrade", "local", "enqueue",
                               "blocked", "returned"}]
    /\ request \in [Callers -> Requests]
    /\ result \in [Callers -> {"none", "yes", "no", "error"}]
    /\ ended \in [Callers -> BOOLEAN]

-----------------------------------------------------------------------------
(* MemoryStore. A claim of either kind lapses when its window ends.        *)

Effect(op, status) ==
    CASE op = "claim" /\ status = "free" -> "running"
      [] op = "complete" -> "completed"
      [] op = "release" /\ status = "running" -> "free"
      [] OTHER -> status

Answer(op, status) ==
    CASE op = "isCompleted" -> IF status = "completed" THEN "yes" ELSE "no"
      [] op = "claim" -> IF status = "free" THEN "yes" ELSE "no"
      [] OTHER -> "yes"

Applied(store, r) == [store EXCEPT ![r.key] = Effect(r.op, @)]

PrimaryLapses(k) ==
    /\ primary[k] # "free"
    /\ primary' = [primary EXCEPT ![k] = "free"]
    /\ UNCHANGED <<overflow, dropped, state, buffered, stopCh, loop, local, faults,
                   callPc, request, result, ended>>

LocalLapses(k) ==
    /\ local[k] # "free"
    /\ local' = [local EXCEPT ![k] = "free"]
    /\ UNCHANGED <<overflow, dropped, state, buffered, stopCh, loop, primary, faults,
                   callPc, request, result, ended>>

-----------------------------------------------------------------------------
(* IsCompleted, Claim, Complete, Release and Record.                       *)

Return(p, answer) ==
    /\ callPc' = [callPc EXCEPT ![p] = "returned"]
    /\ result' = [result EXCEPT ![p] = answer]

\* contextErr, then usingPrimary decides the route.
CallWith(p, op, k, expired) ==
    /\ request' = [request EXCEPT ![p] = [op |-> op, key |-> k]]
    /\ IF expired
       THEN Return(p, "error")
       ELSE /\ callPc' = [callPc EXCEPT ![p] =
                            IF state = "healthy" THEN "primary" ELSE "local"]
            /\ UNCHANGED result
    /\ UNCHANGED <<overflow, dropped, state, buffered, stopCh, loop, primary, local, faults>>

Call(p, op, k) == CallWith(p, op, k, ended[p])

PrimaryAnswers(p) ==
    /\ callPc[p] = "primary"
    /\ primary' = Applied(primary, request[p])
    /\ Return(p, Answer(request[p].op, primary[request[p].key]))
    /\ UNCHANGED <<overflow, dropped, state, buffered, stopCh, loop, local, faults, request, ended>>

\* The call returns an error, with or without having had its effect; with an
\* ended context a store refuses it. Every error counts as a dependency fault.
PrimaryFails(p) ==
    /\ callPc[p] = "primary"
    /\ \/ /\ faults < MaxFaults
          /\ faults' = faults + 1
          /\ primary' \in {primary, Applied(primary, request[p])}
       \/ /\ ended[p]
          /\ UNCHANGED <<faults, primary>>
    /\ callPc' = [callPc EXCEPT ![p] = "degrade"]
    /\ UNCHANGED <<overflow, dropped, state, buffered, stopCh, loop, local, request, result, ended>>

\* degradeBecause: whatever the store has done since the call was made.
Degrade(p) ==
    /\ callPc[p] = "degrade"
    /\ state' = IF state = "healthy" THEN "degraded" ELSE state
    /\ callPc' = [callPc EXCEPT ![p] = "local"]
    /\ UNCHANGED <<overflow, dropped, buffered, stopCh, loop, primary, local, faults,
                   request, result, ended>>

\* Faulty release: only completions and records are buffered.
LocalUnbuffered(p) ==
    /\ callPc[p] = "local" /\ ~ended[p]
    /\ local' = Applied(local, request[p])
    /\ IF request[p].op \in {"complete", "record"}
       THEN callPc' = [callPc EXCEPT ![p] = "enqueue"] /\ UNCHANGED result
       ELSE Return(p, Answer(request[p].op, local[request[p].key]))
    /\ UNCHANGED <<overflow, dropped, state, buffered, stopCh, loop, primary, faults,
                   request, ended>>

LocalAnswers(p) ==
    /\ callPc[p] = "local" /\ ~ended[p]
    /\ local' = Applied(local, request[p])
    /\ IF request[p].op \in Writes
       THEN callPc' = [callPc EXCEPT ![p] = "enqueue"] /\ UNCHANGED result
       ELSE Return(p, Answer(request[p].op, local[request[p].key]))
    /\ UNCHANGED <<overflow, dropped, state, buffered, stopCh, loop, primary, faults,
                   request, ended>>

LocalRefuses(p) ==
    /\ callPc[p] = "local" /\ ended[p]
    /\ Return(p, "error")
    /\ UNCHANGED <<overflow, dropped, state, buffered, stopCh, loop, primary, local, faults,
                   request, ended>>

\* enqueue does not look at the state.
Enqueue(p) ==
    /\ callPc[p] = "enqueue"
    /\ Len(buffered) < BufferCapacity
    /\ buffered' = Append(buffered, request[p])
    /\ Return(p, "yes")
    /\ UNCHANGED <<overflow, dropped, state, stopCh, loop, primary, local, faults, request, ended>>

\* What does not fit is counted; the discarding policy tells the caller that it
\* was written all the same.
EnqueueOverflows(p) ==
    /\ callPc[p] = "enqueue"
    /\ Len(buffered) = BufferCapacity
    /\ \/ /\ overflow \in {"discard", "alert"}
          /\ dropped' = [dropped EXCEPT ![p] = @ + 1]
          /\ Return(p, IF overflow = "alert" THEN "error" ELSE "yes")
       \/ /\ overflow = "block"
          /\ callPc' = [callPc EXCEPT ![p] = "blocked"]
          /\ UNCHANGED <<dropped, result>>
    /\ UNCHANGED <<overflow, state, buffered, stopCh, loop, primary, local, faults,
                   request, ended>>

BlockedGivesUp(p) ==
    /\ callPc[p] = "blocked"
    /\ ended[p] \/ stopCh
    /\ Return(p, "error")
    /\ UNCHANGED <<overflow, dropped, state, buffered, stopCh, loop, primary, local, faults,
                   request, ended>>

StoreStep(p) ==
    \/ PrimaryAnswers(p) \/ PrimaryFails(p) \/ Degrade(p)
    \/ LocalAnswers(p) \/ LocalRefuses(p)
    \/ Enqueue(p) \/ EnqueueOverflows(p) \/ BlockedGivesUp(p)

-----------------------------------------------------------------------------
(* loop, verifyPrimary and recover.                                        *)

Probe ==
    /\ loop = "waiting" /\ ~stopCh
    /\ state = "degraded"
    /\ loop' = "verifying"
    /\ UNCHANGED <<overflow, dropped, state, buffered, stopCh, primary, local, faults,
                   callPc, request, result, ended>>

VerifyFails ==
    /\ loop = "verifying"
    /\ loop' = "waiting"
    /\ UNCHANGED <<overflow, dropped, state, buffered, stopCh, primary, local, faults,
                   callPc, request, result, ended>>

VerifySucceeds ==
    /\ loop = "verifying"
    /\ loop' = "replaying"
    /\ state' = "recovering"
    /\ UNCHANGED <<overflow, dropped, buffered, stopCh, primary, local, faults,
                   callPc, request, result, ended>>

ReplayOne ==
    /\ loop = "replaying" /\ buffered # <<>>
    /\ primary' = Applied(primary, Head(buffered))
    /\ loop' = "replayed"
    /\ UNCHANGED <<overflow, dropped, state, buffered, stopCh, local, faults,
                   callPc, request, result, ended>>

ReplayFails ==
    /\ loop = "replaying" /\ buffered # <<>>
    /\ faults < MaxFaults
    /\ faults' = faults + 1
    /\ primary' \in {primary, Applied(primary, Head(buffered))}
    /\ state' = "degraded"
    /\ loop' = "waiting"
    /\ UNCHANGED <<overflow, dropped, buffered, stopCh, local, callPc, request, result, ended>>

\* The item leaves the buffer and every blocked writer tries again.
Replayed ==
    /\ loop = "replayed"
    /\ buffered' = Tail(buffered)
    /\ callPc' = [p \in Callers |-> IF callPc[p] = "blocked" THEN "enqueue" ELSE callPc[p]]
    /\ loop' = "replaying"
    /\ UNCHANGED <<overflow, dropped, state, stopCh, primary, local, faults,
                   request, result, ended>>

\* Faulty end of recover: the store stays in the recovering state.
RecoveredUnnoticed ==
    /\ loop = "replaying" /\ buffered = <<>>
    /\ loop' = "waiting"
    /\ UNCHANGED <<overflow, dropped, state, buffered, stopCh, primary, local, faults,
                   callPc, request, result, ended>>

Recovered ==
    /\ loop = "replaying" /\ buffered = <<>>
    /\ state' = "healthy"
    /\ loop' = "waiting"
    /\ UNCHANGED <<overflow, dropped, buffered, stopCh, primary, local, faults,
                   callPc, request, result, ended>>

LoopExits ==
    /\ loop = "waiting" /\ stopCh
    /\ loop' = "done"
    /\ UNCHANGED <<overflow, dropped, state, buffered, stopCh, primary, local, faults,
                   callPc, request, result, ended>>

LoopStep ==
    \/ Probe \/ VerifyFails \/ VerifySucceeds
    \/ ReplayOne \/ ReplayFails \/ Replayed \/ Recovered
    \/ LoopExits

CloseStopCh ==
    /\ stopCh' = TRUE
    /\ UNCHANGED <<overflow, dropped, state, buffered, loop, primary, local, faults,
                   callPc, request, result, ended>>

StoreInit ==
    /\ overflow \in OverflowPolicies
    /\ dropped = [p \in Callers |-> 0]
    /\ state = "healthy"
    /\ buffered = <<>>
    /\ stopCh = FALSE
    /\ loop = "waiting"
    /\ primary = [k \in Keys |-> "free"]
    /\ local = [k \in Keys |-> "free"]
    /\ faults = 0
    /\ callPc = [p \in Callers |-> "idle"]
    /\ request = [p \in Callers |-> NoRequest]
    /\ result = [p \in Callers |-> "none"]
    /\ ended = [p \in Callers |-> FALSE]
=============================================================================

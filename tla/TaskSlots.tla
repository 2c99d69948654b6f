------------------------------ MODULE TaskSlots ------------------------------
(***************************************************************************)
(* Admission of the occurrences of scheduled tasks on one replica: every   *)
(* task has its own slots and, if it waits on congestion, a bounded queue; *)
(* all tasks share the global slots. The three are buffered channels, and  *)
(* a goroutine that is blocked on a full one is handed the next free slot  *)
(* before any newcomer.                                                    *)
(* (internal/kernel/app/schedule/schedule.go, pkg/schedule/schedule.go)    *)
(***************************************************************************)
EXTENDS Naturals, Sequences, FiniteSets

CONSTANTS
    Invocations,      \* the goroutines that run invoke
    TaskOf,           \* the task of each
    Concurrency,      \* [max, congestion, queue] of each task
    MaxConcurrency    \* global slots

Tasks == DOMAIN Concurrency

MaxTaskConcurrency == 10000
MaxTaskQueue == 100000

\* Validate of ConcurrencyPolicy.
ValidConcurrency(p) ==
    /\ p.max \in 1..MaxTaskConcurrency
    /\ \/ p.congestion = "skip" /\ p.queue = 0
       \/ p.congestion = "wait" /\ p.queue \in 1..MaxTaskQueue

ASSUME TaskSlotsAssumption ==
    /\ IsFiniteSet(Invocations) /\ MaxConcurrency \in Nat \ {0}
    /\ TaskOf \in [Invocations -> Tasks]
    /\ \A t \in Tasks : ValidConcurrency(Concurrency[t])
    /\ "global" \notin Tasks     \* names the queue of the global slots

VARIABLES
    phase,      \* where each invocation is in invoke and acquire
    slots,      \* len of the channel slots, per task
    queue,      \* len of the channel queue, per task
    global,     \* len of the channel globalSlots
    blocked,    \* senders blocked on slots, per task, and on globalSlots ("global")
    retired     \* the context of the scheduler has ended

slotVars == <<phase, slots, queue, global, blocked, retired>>

Phases == {"new", "entered", "half", "congested", "waitSlot", "gotSlot", "waitGlobal",
           "running", "left", "done", "skipped"}

SlotsTypeOK ==
    /\ phase \in [Invocations -> Phases]
    /\ slots \in [Tasks -> Nat] /\ queue \in [Tasks -> Nat] /\ global \in Nat
    /\ blocked \in [Tasks \cup {"global"} -> Seq(Invocations)]
    /\ retired \in BOOLEAN

Max(i) == Concurrency[TaskOf[i]].max
To(i, p) == phase' = [phase EXCEPT ![i] = p]
Wake(i, p, n, q) == phase' = [phase EXCEPT ![i] = p, ![n] = q]

\* A slot of task t is taken out of its channel: the first blocked sender has it.
\* The invocation that gives it goes to phase p.
GiveSlot(i, p) ==
    LET t == TaskOf[i] IN
    IF blocked[t] = <<>>
    THEN slots' = [slots EXCEPT ![t] = @ - 1] /\ To(i, p) /\ UNCHANGED blocked
    ELSE /\ Wake(i, p, Head(blocked[t]), "gotSlot")
         /\ blocked' = [blocked EXCEPT ![t] = Tail(@)]
         /\ UNCHANGED slots

\* A goroutine leaves the queue of a channel; it is in it once at most.
Without(s, i) ==
    IF \E k \in DOMAIN s : s[k] = i
    THEN LET place == CHOOSE k \in DOMAIN s : s[k] = i
         IN  [k \in 1..(Len(s) - 1) |-> IF k < place THEN s[k] ELSE s[k + 1]]
    ELSE s

-----------------------------------------------------------------------------
(* invoke and acquireImmediately.                                          *)

\* The contexts are looked at first and not again on the way in.
Enter(i) ==
    /\ phase[i] = "new" /\ ~retired
    /\ To(i, "entered")
    /\ UNCHANGED <<slots, queue, global, blocked, retired>>

TrySlot(i) ==
    /\ phase[i] = "entered"
    /\ IF slots[TaskOf[i]] < Max(i)
       THEN slots' = [slots EXCEPT ![TaskOf[i]] = @ + 1] /\ To(i, "half")
       ELSE To(i, "congested") /\ UNCHANGED slots
    /\ UNCHANGED <<queue, global, blocked, retired>>

TryGlobal(i) ==
    /\ phase[i] = "half" /\ global < MaxConcurrency
    /\ global' = global + 1 /\ To(i, "running")
    /\ UNCHANGED <<slots, queue, blocked, retired>>

\* No global slot: the task's slot goes back.
GivesBack(i) ==
    /\ phase[i] = "half" /\ global = MaxConcurrency
    /\ GiveSlot(i, "congested")
    /\ UNCHANGED <<queue, global, retired>>

-----------------------------------------------------------------------------
(* The bounded queue.                                                      *)

Skip(i) ==
    /\ phase[i] = "congested"
    /\ LET c == Concurrency[TaskOf[i]] IN c.congestion = "skip" \/ queue[TaskOf[i]] = c.queue
    /\ To(i, "skipped")
    /\ UNCHANGED <<slots, queue, global, blocked, retired>>

\* A place in the queue, then a slot of the task: at once or blocked for it.
Enqueue(i) ==
    LET t == TaskOf[i] IN
    /\ phase[i] = "congested"
    /\ Concurrency[t].congestion = "wait" /\ queue[t] < Concurrency[t].queue
    /\ queue' = [queue EXCEPT ![t] = @ + 1]
    /\ IF slots[t] < Max(i)
       THEN slots' = [slots EXCEPT ![t] = @ + 1] /\ To(i, "gotSlot") /\ UNCHANGED blocked
       ELSE To(i, "waitSlot") /\ blocked' = [blocked EXCEPT ![t] = Append(@, i)] /\ UNCHANGED slots
    /\ UNCHANGED <<global, retired>>

Dequeued(i) == queue' = [queue EXCEPT ![TaskOf[i]] = @ - 1]

\* The task's slot is held while a global one is waited for.
QueueGlobal(i) ==
    /\ phase[i] = "gotSlot"
    /\ IF global < MaxConcurrency
       THEN global' = global + 1 /\ Dequeued(i) /\ To(i, "running") /\ UNCHANGED blocked
       ELSE /\ To(i, "waitGlobal") /\ blocked' = [blocked EXCEPT !["global"] = Append(@, i)]
            /\ UNCHANGED <<global, queue>>
    /\ UNCHANGED <<slots, retired>>

\* A context that ends takes the blocked invocation out of its queue.
LeaveSlot(i) ==
    /\ phase[i] = "waitSlot" /\ retired
    /\ blocked' = [blocked EXCEPT ![TaskOf[i]] = Without(@, i)]
    /\ Dequeued(i) /\ To(i, "skipped")
    /\ UNCHANGED <<slots, global, retired>>

LeaveGlobal(i) ==
    LET t == TaskOf[i] IN
    /\ phase[i] \in {"waitGlobal", "gotSlot"} /\ retired
    /\ LET out == [blocked EXCEPT !["global"] = Without(@, i)] IN
       IF out[t] = <<>>
       THEN slots' = [slots EXCEPT ![t] = @ - 1] /\ To(i, "skipped") /\ blocked' = out
       ELSE /\ Wake(i, "skipped", Head(out[t]), "gotSlot")
            /\ blocked' = [out EXCEPT ![t] = Tail(@)]
            /\ UNCHANGED slots
    /\ Dequeued(i)
    /\ UNCHANGED <<global, retired>>

-----------------------------------------------------------------------------
(* release: the global slot first, then the task's. The invocation that is *)
(* handed the global slot leaves the queue.                                *)

\* Faulty release: an invocation that waits keeps waiting.
FinishUnheard(i) ==
    /\ phase[i] = "running"
    /\ global' = global - 1 /\ To(i, "left")
    /\ UNCHANGED <<slots, queue, blocked, retired>>

Finish(i) ==
    /\ phase[i] = "running"
    /\ IF blocked["global"] = <<>>
       THEN global' = global - 1 /\ To(i, "left") /\ UNCHANGED <<blocked, queue>>
       ELSE LET next == Head(blocked["global"]) IN
            /\ Wake(i, "left", next, "running")
            /\ blocked' = [blocked EXCEPT !["global"] = Tail(@)]
            /\ Dequeued(next) /\ UNCHANGED global
    /\ UNCHANGED <<slots, retired>>

Leave(i) ==
    /\ phase[i] = "left"
    /\ GiveSlot(i, "done")
    /\ UNCHANGED <<queue, global, retired>>

RetireTask ==
    /\ ~retired /\ retired' = TRUE
    /\ UNCHANGED <<phase, slots, queue, global, blocked>>

-----------------------------------------------------------------------------
SlotsInit ==
    /\ phase = [i \in Invocations |-> "new"]
    /\ slots = [t \in Tasks |-> 0] /\ queue = [t \in Tasks |-> 0] /\ global = 0
    /\ blocked = [w \in Tasks \cup {"global"} |-> <<>>]
    /\ retired = FALSE

Acquires(i) ==
    \/ TrySlot(i) \/ TryGlobal(i) \/ GivesBack(i) \/ Skip(i) \/ Enqueue(i) \/ QueueGlobal(i)
    \/ LeaveSlot(i) \/ LeaveGlobal(i) \/ Leave(i)

SlotsNext == (\E i \in Invocations : Enter(i) \/ Acquires(i) \/ Finish(i)) \/ RetireTask

SlotsSpec == SlotsInit /\ [][SlotsNext]_slotVars

-----------------------------------------------------------------------------
(* Properties.                                                             *)

Holding == {"half", "gotSlot", "waitGlobal", "running", "left"}
Queued  == {"waitSlot", "gotSlot", "waitGlobal"}

In(t, ps) == Cardinality({i \in Invocations : TaskOf[i] = t /\ phase[i] \in ps})

\* Every token in a channel belongs to exactly one invocation, whichever way it
\* came in and whatever handed it over: nothing leaks when an acquisition is
\* given up half way, and no limit is exceeded (acquire, schedule.go:640-703).
SlotsAreAccounted ==
    /\ \A t \in Tasks :
        /\ slots[t] = In(t, Holding)
        /\ queue[t] = In(t, Queued)
        /\ slots[t] <= Concurrency[t].max /\ queue[t] <= Concurrency[t].queue
    /\ global = Cardinality({i \in Invocations : phase[i] = "running"})
    /\ global <= MaxConcurrency

\* Who waits for a slot of a channel is in its queue, once, and nobody else is.
Members(s) == {s[k] : k \in DOMAIN s}
Distinct(s) == \A j, k \in DOMAIN s : s[j] = s[k] => j = k

Waiting(w) ==
    {i \in Invocations : IF w = "global" THEN phase[i] = "waitGlobal"
                         ELSE phase[i] = "waitSlot" /\ TaskOf[i] = w}

WaitersAreQueued ==
    \A w \in Tasks \cup {"global"} : Distinct(blocked[w]) /\ Members(blocked[w]) = Waiting(w)

SlotsInv == SlotsTypeOK /\ WaitersAreQueued /\ SlotsAreAccounted

\* An invocation that got a place in the queue is run or, when the scheduler
\* retires, let go: no task starves behind newcomers or behind another task's
\* hold of the global slots.
QueuedIsServed ==
    \A i \in Invocations : phase[i] = "waitSlot" ~> phase[i] \in {"running", "skipped"}
=============================================================================

# Verification of the service scaffold

TLA+ models of the run-time behaviour of this repository, the TLC runs that
check them on small instances, and TLAPS proofs about most of them for instances
of any size. Paths are relative to `src/`; `kernel.go:262` without a
directory means the file named by the module's header.

## 1. The system

A process is built by `internal/composition` and watched over by a
**supervisor**. It runs **application generations**: complete object graphs
built from one configuration. A new configuration builds a second generation
next to the current one, commits it at a handful of **hubs** that own what
outlives a generation (listeners, message consumers, the scheduler), and
retires the old one. Below that, the older **Kernel** swaps single components
inside a running process behind leases. **Execution** is the idempotent,
retried running of keyed operations that schedules, message consumers and the
Todo use cases rely on.

    file, environment --> configuration --> watch --+
                                                    v
    signals --> Supervisor --> GenerationCoordinator --> hubs: http, management,
                  |  tasks: monitor, config watch          messaging, schedule
                  |                 |                      resource pools
                  v                 v
              participants     generation = servers + participants + resources
                                    |
              Coordinator --> Kernel --> plan --> components --> lease, slots
                                    |
                        execution: Executor -> AsyncRecorder -> RecoveringStore
                                    ^
      requests -> HTTP pipeline -> auth -> Todo -> database, cache
      broker   -> session -> messaging ----+
      triggers -> leadership -> slots -----+

### Components

| component | source | state it keeps | hard part | modelled by |
| --- | --- | --- | --- | --- |
| Component runtime | `internal/kernel/kernel.go`, `app/lease.go`, `app/runtime.go`, `app/finalization.go` | leases, owner pointers, finalization slots, snapshot | goroutines in nested Use while components are drained, swapped or finalized; failures and deadlines half way | `Kernel`, `UseGate` |
| Plan | `internal/kernel/app/plan.go`, `definition.go`, `binding.go`, `contracts.go` | definitions, bindings, views | replacements spliced in under components that name what they replace | `Plan` |
| Coordinator | `internal/kernel/coordinator.go` | diagnostics, cleanup debt | debt that must outlive later updates; a start that failed half way | `Coordinator` |
| Supervisor | `pkg/supervisor` | process state, units, budget | two deadlines racing late answers; honest diagnostics | `Supervisor` |
| Execution | `pkg/execution`, `internal/kernel/app/execution` | claims, recovery buffer, record queue | ambiguous failures of the primary, replay against late writers, bounded queues at shutdown | `RecoveringStore`, `Execution` |
| Listener hub, server | `pkg/httpx/listener_hub.go`, `server.go` | physical listeners, routes, queues | a connection that was accepted while routes change | `ListenerHub` |
| Generation coordinator | `internal/kernel/generation.go`, `internal/composition/generation.go`, `generation_resources.go`, the hubs | current and retiring generation, pooled resources | a commit in several places that can fail between two of them; a preparation of some twenty steps | `Generation`, `Assembly` |
| Messaging | `internal/kernel/app/messaging`, `pkg/messaging` | admission, consumers, sessions, confirmations | health monitor against hand-over; a session that breaks while it is withdrawn; redelivery | `Messaging`, `RabbitSession`, `Delivery` |
| Schedule | `internal/kernel/app/schedule`, `pkg/schedule`, `app/cache/coordination.go` | tasks, jobs, leader leases, slots | leader change while a job runs; slots and queue at their limits; the time windows of a lease | `Leadership`, `LeaseWindow`, `TaskSlots` |
| Configuration | `internal/kernel/config`, `internal/kernel/watch.go` | sources, merged values, default file, watch | a file that is written while it is read; the last change wins; keys that differ in case | `ConfigLoad`, `ConfigWatch` |
| Resource sections | `internal/kernel/app/{storage,cache,database,execution}`, `pkg/storage`, `pkg/database` | - | two layers that check a section each for itself | `Resources` |
| Cache | `pkg/cache`, `app/cache` | local entries, tag index, Redis | fills that race with deletions | `LayeredCache`, `ServicesProofs` |
| Database, migration | `pkg/database`, `internal/module/migration`, Todo's migrations | rows, transactions, schema version | lost updates; operators that die half way | `Transactions`, `Migration` |
| Storage | `pkg/storage`, `internal/kernel/app/storage` | watch entries; borrowed clients, objects | handlers that run while a watch is stopped; operations that outlive the callback they were given to, checks of a directory that is in use | `Storage` |
| HTTP pipeline | `pkg/httpx`, `internal/transport/http` | tokens, in-flight slots | every way out returns what the way in took; one answer | `HttpEdge` |
| HTTP client | `pkg/httpx/client.go`, `builder.go` | the attempt, the payload | an answer that is lost after the peer has acted; a body the caller uses again | `HttpClient` |
| Authentication | `internal/module/auth` | key set, lifetime | rotation and refresh in the background | `JwksVerifier`, `HttpEdge` |
| Todo | `internal/module/todo`, `internal/composition/todo.go` | rows, idempotent runs | concurrent completion with retries and lost answers | `TodoService`, `ServicesProofs` |
| Command line | `pkg/cli` | registry, shell scenes, flows | answers meant for another prompt | `CommandLine` |
| Telemetry | `internal/kernel/app/observability/telemetry.go` | span queue, counters | shutdown against a full queue and a failing exporter | `SpanPipeline`, `ListenerHubProofs` |
| Logging | `internal/kernel/logging`, `app/logger`, `generation_resources.go` | where each manager writes | managers that are directed to each other while lines pass them and generations change | `LogRouting` |
| Metrics, i18n, operations reports, leaf utilities, wiring | see `PROJECT.json` | little | - | not modelled |

How they interact: the supervisor calls Start/Stop/ForceStop of its
participants (the generation coordinator is one) and runs tasks under a
context; the generation coordinator calls the hubs and generations one
operation at a time (`operationMu`), while connections, deliveries, triggers and
diagnostic readers run beside it; the coordinator is the only caller of the
Kernel; users of a component call `Use` on its lease from any goroutine; a
message handler, a scheduled job and a Todo completion go through the executor.

### What makes each of them correct

- Component runtime: a callback never runs on an instance that is being
  finalized; goroutines see one configuration; a reload is all or nothing; no
  instance is lost or finalized twice; draining ends; nobody waits for ever. To
  its users a component is a gate that is switched only while nobody is inside.
- Plan: a builder sees exactly what it declared, built before it.
- Coordinator: ready means clean; debt blocks reloads and survives until a real
  stop; a stopped process has finalized its instances.
- Supervisor: the run ends within its budget; participants stop in reverse; the
  lossy stop is the last resort; the result and the units tell what happened.
- Execution: an acknowledged completion is kept; claims do not leak; the store
  returns to its primary; the stop returns.
- Listener hub: new connections go to the new route; drained means handed over;
  no connection is lost in a hand-over; no address is left bound.
- Generations: the current one is served; resources outlive the servers that use
  them; pool references are exact after every failure; a clean stop released
  everything; generations do not pile up.
- Messaging: one generation consumes; a pause is lifted; a broken session
  recovers, a withdrawn one is closed; a publisher is told the truth about its
  own message; only work that failed often enough is dead-lettered, and every
  copy is settled.
- Schedule: a job fires only under authority, a leader is found again, stopping
  ends, a leader under safe times gives up before its lease lapses, slots are
  exact and the queue is served.
- Configuration: a load says what the sources say, the last change is loaded,
  no file is replaced unasked, what is accepted can be built.
- Cache: when calls have ended neither layer holds a value that was deleted or
  replaced, but for the races the code documents.
- Database and migration: a transaction is whole, no update is lost, deleted
  stays deleted; a service runs only on a whole schema.
- Edges: slots and rate hold, work is done only for requests that passed every
  gate, an answer is final; tokens are accepted only under keys the issuer has
  published; stopped watches are quiet; answers go to the prompt they are meant
  for; spans are exported or counted once.
- HTTP client: a request is repeated only for a reason, as often as configured
  and with the same payload, and its result is what became of the last attempt.
- Storage: a client that was given back is refused; success means stored; a
  check depends on nobody else and leaves nothing behind.
- Logging: a line is written once, to a logger that is open, whichever manager
  it comes through; the process follows the current generation.

## 2. Modules

One module per component. Modules that share state EXTEND each other
(`Coordinator` and `KernelInvariant` over `Kernel`, `Execution` over
`RecoveringStore`). Two parts of one package that share no state are two
sections of one module (`RabbitSession`, `Storage`, `CommandLine`). Parts that share none are
checked side by side: an MC module has a variable `part`, chosen initially, and each of its behaviours is a
behaviour of that part while the others stutter. So one run asks about several
parts and no interleaving between strangers is explored.

| module | models | one step is |
| --- | --- | --- |
| `Kernel` | component runtime | what `Start/Reload/Stop` or a goroutine in `Use` does between two critical sections |
| `UseGate` | - | the promise of a component to its users, abstract; `Kernel` implements it |
| `KernelInvariant`, `KernelProofs` | - | the inductive invariant, the proofs |
| `Plan`, `ListenerHubProofs` | plan, definitions, bindings, views, `kernel.build` | one call of the composition, or one builder |
| `Coordinator`, `ProcessProofs` | coordinator; EXTENDS `Kernel` | a Kernel step or the taking of its result |
| `Supervisor`, `ProcessProofs` | supervisor | one select, call or return |
| `RecoveringStore`, `Execution`, `ExecutionProofs` | `recovery.go` over two `memory.go` stores; executor, recorder, stop | one critical section or store call |
| `ListenerHub`, `ListenerHubProofs` | hub, entries, routes, server, their owner | one critical section or channel operation |
| `Generation`, `GenerationProofs` | generation coordinator, generations, hubs | one call of a participant |
| `Assembly`, `GenerationProofs` | `Prepare` step by step, pools, abort and release | building or closing one part |
| `Messaging`, `MessagingProofs` | the messaging Hub, admission, monitors | one critical section under `admissionMu`, one provider call |
| `RabbitSession`, `MessagingProofs` | one RabbitMQ provider; publishing over one session | one pass of the run loop's select, one step of a caller or a publisher, one answer |
| `Delivery`, `MessagingProofs` | checks of the configuration, the catalog and the capabilities; copies of one message | one broker event, one executor step |
| `Leadership` | what a task declares and the configuration overrides; its coordination over replicas | one call of Redis, one engine call |
| `LeaseWindow` | accepted times, a leader's clock | a tick or an answer |
| `TaskSlots` | admission of occurrences | one channel operation |
| `TriggersProofs` | - | proofs about the three above and `ConfigWatch` |
| `ConfigLoad` | values and merging; load, validation, default file | one source, one file operation |
| `ConfigWatch` | editor, watcher, debounce, slot, stable reading | one write, event, timer or sample |
| `Resources`, `ServicesProofs` | storage, cache, database, execution sections | accept, then build |
| `LayeredCache`, `ServicesProofs` | layered client over Redis | one Redis command, one critical section of L1 |
| `Migration`, `ServicesProofs` | `db migrate up`, compatibility, an older writer | one database command |
| `TodoService`, `ServicesProofs` | Todo use cases in two processes | one database or store command |
| `Transactions`, `ExecutionProofs` | borrow, transactions, repositories | one statement |
| `Storage`, `ExecutionProofs` | storage watches; borrowed clients over the local store and the bucket, readiness checks | one critical section or wait; one system call or request |
| `HttpEdge`, `GenerationProofs` | middleware chain, gates, answer | one gate |
| `HttpClient`, `GenerationProofs` | one call of the HTTP client | one attempt, answer, wait or decision |
| `LogRouting`, `GenerationProofs` | logging managers of process and generations | taking or giving up one lock, one step of a hand-over |
| `JwksVerifier`, `ServicesProofs` | verifier and key cache | one call, fetch or expiry |
| `CommandLine` | registry, arguments, prompts; shell update loop and flows | one phase of a call; one message |
| `SpanPipeline`, `ListenerHubProofs` | bounded span processor | one channel operation or export |
| `MC*` | instances for TLC | |

Every definition that stands for code is listed with its lines in
`PROJECT.json` ("map"). Definitions whose comment begins with "Faulty" are
plausible bugs of the operator after them; they are used by no specification
and serve to show that a property notices.

### Correspondence

**Kernel.** `leaseState`, `current`, `activeUses`, `drainDone`,
`terminalDrain` are the fields of `lease[I]`; `candidate`, `retired`,
`stopping`, `currentDigest`, `nextGeneration` those of `managedComponent`;
`slotState` is `instanceSlot.state`, per component and instance. An instance is
the number of its build. `op` is the operation that holds `operationMu`: its
kind, its phase (which loop of `kernel.go` it is in) and the components that
loop has still to visit. `AcquireServing`, `AcquireWaits`, `AcquireRefused`,
`Release` are the branches of `lease.acquire` and `release`.

**UseGate.** `open` is the instance new callers get, `inside` what a user is
in, `closed` the instances closed for good. `KernelInvariant` defines
`Gate == INSTANCE UseGate WITH open <- current, inside <- held, closed <- Closed`,
where `Closed` are the instances whose slot says that finalization has begun,
succeeded or failed. `ImplementsUseGate` is `Gate!GateSpec`: leases, drains,
deadlines and the reload transaction add nothing to what a user can see but
that a gate may be slow or refuse.

**Plan.** `bindings` are the results of `Add` in order with the component each
stands for now; `builders` is history: what each builder saw. A refused call
changes nothing and is no step; `refusal` is how a build ended.

**Coordinator.** `lifecycle`, `ready`, `restartRequired`, `cleanupRequired`,
`configDigest` are `CoordinatorDiagnostics`.

**Supervisor.** `pc` and `at` are the goroutine of `Run`. `unit` and `taskUnit`
are `Snapshot.Units`; `stopCall` and `forceCall` the goroutines in which the
participants' methods run; `pending` and `candidates` the maps of `shutdown`;
`clock` says which of the two absolute deadlines have passed. Where a select
finds a result and a deadline, either is taken.

**RecoveringStore, Execution.** `state` and `buffered` are guarded by
`RecoveringStore.mu`; `primary` and `local` are the claims of the two stores; a
call of the primary may fail before or after it took effect, and a claim lapses
when its window ends. What a full buffer cannot take is counted (`dropped`);
the discarding policy answers the caller like a write that was stored, the
alerting one with an error. `pc` is a worker in `executor.Execute`; `queue` the
channel of the `AsyncRecorder`; `stopPc` the component's stop function.
`promised`, `flightEnd` and `losses`, the completions and releases that were
acknowledged and not stored, are history.

**ListenerHub.** `active` and `retiring` of an entry, `pending`, `queue`,
`retired`, `closed`, `drained` of a route are the fields of the same names;
`acceptor`, `held`, `target` are the accept goroutine, which ends when its
listener is closed ("done") or when `Accept` fails for another reason
("failed"); then the listener stays bound and nobody restarts the goroutine. `newest`,
`acceptedAfter` and `carrier` are history.

**Generation, Assembly.** `pc` is the operation under way; `routed`, `managed`,
`consumer`, `scheduler` are what each hub considers current; `admitted` and
`scheduling` what the providers really admit; `halfCommitted` is history. In
`Assembly` a graph is what `Prepare` has appended to a generation so far; a pool
has entries with references, keyed by the digest of their section.

**Messaging.** `admitted` is what a generation's providers take, `active`
whether it should, under `admissionMu`; a monitor is a goroutine per
generation. In `RabbitSession` `loop` is where the run goroutine is ("bound": started
by `Bind` over a session, before it has looked at its context; "dialing": in
`connect`), `signal` the channel of one slot, `consumption` the flags
`consuming` and `stopping` of the session with the state of its consumer
goroutines. In its section on publishing `confirmSlot` and `returnSlot` are
`confirms` and `returns`, two channels of one slot whose contents survive the
close of the AMQP channel (`alive`). In `Delivery`
a setup is a configuration with what the modules contribute; `Accepted` is what it
must pass, in order, before anything runs: `NormalizeConfig`, `BuildCatalog`,
`Build` (a factory for every driver) and `Freeze` (bindings against routes and
capabilities). Only copies under an accepted setup move. `place`
and `count` are the broker's, `at` and `disposition` the consumer's, `store` and
`flight` the executor's.

**Leadership, LeaseWindow, TaskSlots.** `lease` is the key in Redis with its
token; per replica the position of its `coordinate` goroutine and whether the
job is installed. `policy` is what `resolveTask` makes of what the task declares
and the configuration overrides (`ResolveTask`). `left` is the time the lease has
left, counted in ticks; a leader that was told to go releases its lease in a step
of its own (`ReleaseLease`), which may fail.
Slots, queue and global slots are the three buffered channels.

**ConfigLoad, ConfigWatch.** A key is a name and a spelling; a scalar is known
by what it can be decoded into. `ConfigWatch` has the file as blocks, the
watcher's timer, the slot of `changes`, and the two samples of `readStableFile`.

**HttpClient, Storage.** `sending` is the state of `Do`'s loop, `payload` and
`buffer` the two slices of a raw body, `answers` what the loop has seen;
`seen`, what the peer acted on, is history. `borrow.at` is `borrowState.closed`
with the call of `Use` around it; `operation.asked` is history.

**JwksVerifier.** `window` is the context of the start and `startup` how far
`Start` has come with its first fetch. That a window has ended is one step, and
that the function registered on its end by `context.AfterFunc` has run is
another, so that the start may go on in between.

**LogRouting.** `target` is `Manager.current` per manager, `passed` the read
locks a goroutine holds in the nested `write` calls, in order. `steps` are the
calls that one operation of the generation coordinator still has to make:
`Replace`, `Restore` and the finalizer of a logger component.

**Others.** The variables of the remaining modules carry the names of the
fields or local variables they stand for, and their comments say which.

## 3. Runs

| run | question | instance | states |
| --- | --- | --- | --- |
| `kernel` | Do leases, ownership and the snapshot stay consistent under every interleaving of operations and goroutines? Is a component a `UseGate`? Does a goroutine that is held off proceed? | 2 components, 2 goroutines, 2 contents, 2 instances | 177 807 |
| `kernel_patient` | Does every operation end when no deadline ever passes? | the same, without timeouts and cancellations | 136 971 |
| `process` | Does readiness tell the truth, and does debt block reloads? Does a supervised run end in its budget, in reverse, and report what happened? | 3 components (one per policy); 2 participants and 2 tasks | 619 916 |
| `execution` | Are completions and releases kept while the primary fails and recovers, is the primary used again, does stop return? | 2 workers, 1 key, buffer and queue of 1, 1 fault of a chosen kind | 315 174 |
| `listener_hub` | Is no connection lost or misrouted in a hand-over? Is every span settled once? Does a builder see what it declared? | 2 routes, 2 connections; 3 spans, queue of 1; plans of up to 3 outputs | 1 075 409 |
| `triggers` | Does a job run only under authority, is a leader found again, are slots exact and queues served, is the last change loaded? | 2 replicas; 4 occurrences, 2 tasks; leases up to 9 ticks; 2 blocks, 2 writes | 67 611 |
| `messaging` | Does one generation consume, do hand-overs settle, do sessions recover, are answers a publisher's own, is every copy settled? | 2 generations; 1 session; 2 publishers; 2 copies | 34 176 |
| `services` | Are generations, their assembly, configuration, cache layers, migrations and completions sound under failure and concurrency? | 3 generations; 3 graphs; 2 callers; 2 operators; 2 requests | 648 987 |
| `edge` | Do answers reach the prompt they are meant for, do requests return what they took, are tokens vouched for, transactions whole, stopped watches quiet, stored objects what was reported? Is a request repeated only for a reason, and every log line written to an open logger? | 2 flows; 2 requests; 7 client settings; 2 keys; 2 transactions; 3 watches; 2 operations or 2 checks; 3 loggers | 926 667 |
| `lease_window` | Does a leader give up before its lease lapses with every accepted timing? | as `triggers` | no |
| `verifier_ready` | Is a verifier that is ready still refreshing its keys? | as `edge` | no |
| `todo_complete` | Does a successful completion show the Todo? | as `services` | no |

The runs answered with "no" are expected violations; section 5 says what they
show.

The properties of a composed run are conjunctions, one or two per component: a
component's type invariant and its safety invariants under one name
(`ReloadsAreWhole` is `TypeOK`, `InUseMatchesSnapshot`, `ReloadIsAllOrNothing`,
`InstalledIsAlive` and `OwnershipIsAccounted`), and its liveness under another.
Each conjunct has its own comment.

### Why the bounds are enough

Two components that are swapped together are what a partial reload, a nested
use and a reversed drain need; the coordinator takes three so that each reload
policy is there. Two goroutines let one hold what the other waits for. Two
instances per component are the old and the new one. A buffer or a queue of one
is full after one step, so every overflow policy is met at once; one fault that
may strike any call, before or after its effect, produces every ambiguous
outcome. Two routes give one hand-over and one stop, on one or on two
addresses. Three generations are a current one, one that could not be retired,
and one more to see whether debt holds it off. Two participants are one that
can be forced and one that cannot. Three declarations of a plan are a
component, one that depends on it and a replacement between them.

Two replicas contend; a third repeats the second. Four occurrences over two
tasks and two global slots fill a task's slots, its queue and the global slots
at once. The times of a leader range over values on both sides of every check
of the configuration, one of which overflows at 32 bits. Two writes of two
blocks are a change during a reload and one during its reading; three attempts
of a stable reading can see both. Two copies of a message are a repeated
publish; delivery limits and budgets range over 0 to 3, so that they agree and
disagree; a driver may be one that is not linked in, and two modules may disagree
about a contract they share. Two publishers are an answer that is left behind and one that finds
it. Two callers on one key are a fill and a deletion, with two values to tell
them apart. Two operators are one that dies and one that comes after. Two
requests of two users, retried once, complete a Todo concurrently and after one
another. Two requests at an in-flight limit of one and a bucket of three tokens
fill both; a gate refuses one of them at most (`OneIsGood`), so that a leak
would show as the other's refusal. Two keys are the old and the new one of a rotation. Three watch
entries on two paths are a watch, its successor and an unrelated one. Two flows
are a prompt that is answered and one that must not be. The client's settings
are its defaults, a first wait above the cap, no retry, two and three retries
with waits that reach the cap, one whose doubling overflows at 5 bits, and one
that is refused. Two operations on an object are one that replaces what the
other reads, or one inside and one after the borrow; two checks are two
candidates on one directory. Three loggers are a current one, its successor and
one that was let go, and two writers can hold two managers on a line's way.
Three spans overflow a
queue of one while a batch is under way.

Named bounds: `MaxGeneration` (Kernel), `MaxFaults`, `MaxExecutions`
(Execution), `N` (ListenerHub), `MaxOutputs` (Plan), `MaxGenerations`
(Generation), `MaxGraphs`, `Failures` (Assembly), `MaxHandlers`, `InFlight`
(RabbitSession), `Blocks`, `Writes`, `Attempts` (ConfigWatch), `MaxLease`,
`MaxAcquire`, `Width` (LeaseWindow), `Tries` (TodoService), `Total`, `Budget`
(Transactions), `Room`, `Asks` (CommandLine), `Bits` (HttpClient, the width of a duration). In `Supervisor` `P` and `T` are
parameters, not bounds.

### Abstractions

- Kernel: section contents are model values and digests are the contents; the
  caller's cancellation of a waiting `Use` may happen at any time; the two
  timeouts are nondeterministic.
- Plan: refused calls are not steps, output types are left out, and a builder
  asks for all it declared.
- Execution: one key; a completed claim does not lapse before the call that
  made it returned; joining a flight and looking at the route are one step; the
  probe of the primary uses its own key and is left out of the stores.
- ListenerHub: closing the flag and the signal of a route are one step, taking
  a connection and completing the pending count are one step, timeouts are
  nondeterministic, and so is a failure of Accept, at any step and for good.
- Generation: one pool stands for all seven; an abort or a termination is one
  step with every combination of outcomes; failure messages are left out.
  Assembly: at most one failing finalizer; the participants of the modules are
  one part.
- Supervisor: the context ends only by cancellation; starting all tasks is one
  step; error values are: none, nothing but a cancellation, or an error.
- TaskSlots: leaving the queue and being handed a global slot are merged when a
  slot is free. Leadership: a lease lapses whenever it likes. LeaseWindow: whole
  ticks; the service of the lease is external, and releasing and asking again
  are merged.
- RabbitSession: the AMQP library and the broker are external: a
  channel or connection may break at any step, the broker answers in order. A
  publisher is done with the channels of a session before the next session has
  its own, since the others wait for its turn.
  Delivery: one process of one generation.
- ConfigLoad: names, spellings and decodability in place of texts. ConfigWatch:
  the file system is external; a stable sample is two equal readings.
- LayeredCache: one tag, one time to live; values are model values.
- Migration: MySQL is left out; golang-migrate and the SQL files are modelled by
  what the repository relies on, one transaction per file.
- TodoService: one Todo. Transactions: row locks and re-evaluation at READ
  COMMITTED.
- HttpEdge: kinds of requests, one per gate; ticks and parts of tokens instead
  of times. JwksVerifier: jwx is external.
- HttpClient: headers, queries and texts are left out; a wait is an integer;
  what net/http does with a connection is external. Storage: one key, whose
  validation is left out; what is put has one length, so that a write over
  another's write is one or the other; MinIO differs from S3 in its settings
  only. LogRouting: formatting and sinks are left out; operations of the
  generation coordinator come one at a time, as `operationMu` has it.
- CommandLine: in the shell an event in transit and the channel are one buffer, logs are the task
  scene, drawing and typed text are left out, and so are texts everywhere; Cobra is
  external.
- SpanPipeline: the OpenTelemetry provider and the exporter are external; only
  sampled spans appear.
- Resources: a text is empty, blank, a word, or a word to be trimmed and
  lowered; opening what is configured may fail at any time.

### Deadlock and fairness

Only the runs of `KernelInvariant` and `MCProcess` check for deadlock: there goroutines can always
ask again, or a finished run has an explicit step. The other compositions switch
it off, since their systems stop for good (after a stop, or when every request,
copy, span or write of the bound is used up).

- `Kernel.FairSpec`: the goroutine of an operation keeps running (weak); a
  goroutine in `acquire` that is not blocked looks again (weak); a callback
  returns (strong, since asking for a further component interrupts it);
  deadlines pass (weak). `PatientSpec` is without deadlines and cancellations.
- `Execution.FairSpec`: each goroutine runs (weak); outages end (strong
  fairness of a successful probe).
- Supervisor (`ProcessSpec`): the supervisor's goroutine runs, deadlines pass,
  and `Start` and a one-shot operation return, which the code calls without a
  deadline. Nothing is assumed of `Stop`, `ForceStop` and tasks.
- Triggers: a lease that is not renewed lapses; a replica's goroutine runs and
  a replica that keeps asking does not always ask at the wrong moment (strong);
  a waiting occurrence looks at its select, a business function ends; events of
  the file arrive, the timer fires, a load that began goes on.
- Messaging: the hub gets `admissionMu` in its turn (strong: `sync.Mutex` hands
  over to a waiter it has starved), a provider is not unable to open for ever
  (strong), monitors tick; the run loop runs and its select takes each ready
  case now and then (strong), handlers end; the broker delivers, the store
  answers now and then (strong), leases lapse.
- The parts of a composition are disjoint, so one fairness condition may serve
  an action of each part; a behaviour never leaves its part.

## 4. Proofs

Eight modules hold theorems. Each is about every value of the constants that
the assumptions of its modules allow: any number of components, goroutines,
generations, connections, keys, tasks and so on, of which a run has two or
three. A module of proofs has first the lemmas about helpers and types, then one
step per action of `Next`, split by the conjuncts that the action can disturb,
and last the temporal theorems. TLC has checked every inductive invariant named
here on the instance of its run; `KernelInv` and `AdmissionIsSound` are
themselves properties of a run.

| theorem | statement | module |
| --- | --- | --- |
| `TypeCorrect` | `Spec => []TypeOK` | `KernelProofs` |
| `SafetyInvariant` | `Spec => []SafetyInv` | `KernelProofs` |
| `UseIsSafe` | `Spec => []NoUseAfterFinalization` | `KernelProofs` |
| `NoPanic` | `Spec => []PanicFree`: the panics of `lease.go` and `runtime.go` are unreachable | `KernelProofs` |
| `GateIsImplemented` | `Spec => ImplementsUseGate`, a refinement | `KernelProofs` |
| `KernelInvariantHolds` | `Spec => []KernelInv` | `KernelProofs` |
| `ReloadsAreWholeHolds` | `Spec => []ReloadsAreWhole` | `KernelProofs` |
| `DiagnosticsAreHonestHolds` | `CoordinatorSpec => []DiagnosticsAreHonest` | `ProcessProofs` |
| `DebtBlocksReloadHolds` | `CoordinatorSpec => DebtBlocksReload`, an action property | `ProcessProofs` |
| `SupervisorTypeCorrect` | `SupervisorSpec => []SupervisorTypeOK` | `ProcessProofs` |
| `StopsInReverseHolds` | `SupervisorSpec => []StopsInReverse` | `ProcessProofs` |
| `ForceIsLastResortHolds` | `SupervisorSpec => ForceIsLastResort`, an action property | `ProcessProofs` |
| `CleanMeansCleanHolds` | `SupervisorSpec => []CleanMeansClean` | `ProcessProofs` |
| `EffectsAreKeptHolds` | `Spec => []EffectsAreKept` | `ExecutionProofs` |
| `RoutesAreFollowedHolds` | `Spec => []RoutesAreFollowed` | `ListenerHubProofs` |
| `HandoffLosesNothingHolds` | `Spec => HandoffLosesNothing`, an action property | `ListenerHubProofs` |
| `SpansAreSettledHolds` | `SpanSpec => []SpansAreSettled` | `ListenerHubProofs` |
| `WiringIsSoundHolds` | `PlanSpec => []WiringIsSound` | `ListenerHubProofs` |
| `OneGenerationAdmitsHolds` | `MessagingSpec => []OneGenerationAdmits` | `MessagingProofs` |
| `SessionLeavesNothingHolds` | `RabbitSpec => [](RabbitTypeOK /\ EndedMeansClosed)` | `MessagingProofs` |
| `AnswersAreOwnHolds` | `PublishSpec => AnswersAreOwn`, an action property | `MessagingProofs` |
| `DeadLettersAreEarned` | `DeliverySpec => [](DeliveryTypeOK /\ DeadLetterIsEarned)`, the safety half of `DeliveryIsSound` | `MessagingProofs` |
| `TransactionsAreSoundHolds` | `DbSpec => TransactionsAreSound`, an invariant and an action property | `ExecutionProofs` |
| `StorageIsSoundHolds` | `StorageSpec => []StorageIsSound` | `ExecutionProofs` |
| `GenerationIsSoundHolds` | `GenerationSpec => []GenerationIsSound` | `GenerationProofs` |
| `AssemblyIsSoundHolds` | `AssemblySpec => []AssemblyIsSound` | `GenerationProofs` |
| `EdgeIsSoundHolds` | `EdgeSpec => EdgeIsSound`, an invariant and an action property | `GenerationProofs` |
| `LinesAreWrittenHolds` | `LogSpec => []LinesAreWritten` | `GenerationProofs` |
| `CallsAreHonest` | `ClientSpec => [](RepeatsAreEarned /\ PayloadIsKept /\ ResultIsTrue)`, parts of `ClientIsSound` | `GenerationProofs` |
| `MigrationIsSoundHolds` | `MigrationSpec => []MigrationIsSound` | `ServicesProofs` |
| `LayersAgreeHolds` | `CacheSpec => []LayersAgree` | `ServicesProofs` |
| `TokensAreVouchedHolds` | `JwksSpec => []TokensAreVouched` | `ServicesProofs` |
| `CompletionIsSoundHolds` | `TodoSpec => CompletionIsSound`, an invariant and an action property | `ServicesProofs` |
| `SectionsAreBuilt` | `ResourcesSpec => [](ResourcesTypeOK /\ AcceptedIsBuilt)`, a part of `ConfigurationIsFaithful` | `ServicesProofs` |
| `SlotsAreAccountedHolds` | `SlotsSpec => []SlotsAreAccounted` | `TriggersProofs` |
| `LeaseOutlivesLeaderHolds` | `WindowSpec => []LeaseOutlivesLeader` | `TriggersProofs` |
| `ReadsAreRealHolds` | `WatchSpec => ReadsAreReal`, an action property | `TriggersProofs` |
| `AdmissionIsSoundHolds` | `Spec => []AdmissionIsSound`, of the composition | `TriggersProofs` |

### Kernel

Assumptions: `PlanAssumption` (what a frozen plan is), `UsersAssumption`
(finitely many goroutines).

That no callback runs on a finalized instance
depends on the lease counting its users exactly, on the drain signal belonging
to the drain that is under way, and on the loops of `kernel.go` switching only
what they have drained. `SafetyInv` says this in five parts. `UseInv`: a held
instance is the current one, the count is the number of holders, and nested
uses go down the plan, so nobody is counted twice. `LeaseInv`: what a lease in
each state points at, and that the pointers of a component name different
instances. `LoopInv`: what each loop has done for the components behind it and
relies on for those ahead of it. `CandidateInv`: which components have a
candidate, and that none has an unresolved retired instance, while a reload
runs. `OpenInv`: no lease is closed for good while the kernel serves. Each part
is needed for another's step; together they are inductive.
`NoUseAfterFinalization` follows from the first two, `PanicFree` from all.

The refinement needs `GateInv` besides: an instance that is switched in has
never been closed, so a candidate that may still be published is not
finalized, and a number not yet built has no state.

`ReloadsAreWhole` needs `WholeInv`, which relates what `SafetyInv` leaves apart.
`OwnersInv`: an instance that was built is behind one of the four pointers or
finalized, never both. `InstalledInv`: what the process logger was given is in
the lease, or taken out of it and not yet finalized. `BuiltFromInv` and
`DigestInv`: which configuration an instance was built from, and that the
digests follow the snapshot, except for the components that a commit has
switched already; without that exception the all-or-nothing of a reload is not
inductive, for the digests change one by one and the snapshot last.
`KernelInv` is `SafetyInv /\ GateInv /\ WholeInv`.

### Coordinator

The coordinator's specification is proved to keep `KernelInv`, since each of its
steps is a Kernel step with a condition or leaves the Kernel alone. On top of it
comes `AgreementInv`. `DutiesInv`: what the Kernel still has to finalize, as far
as its operation has come. `TurnsInv`: which lifecycle goes with which operation,
and that debt is only found in lifecycles that refuse reloads. `PublishedInv`: a
configuration is published when the Kernel serves it. A clean stop is the hard
case: that it leaves no instance must be carried through the three passes of
`Stop` over the pointers of every component (`op.role`), and `DutiesInv` says
for each pass what the earlier ones have emptied. `DebtBlocksReload` then is one
step from `TurnsInv`.

### Supervisor

Assumption: `SupervisorAssumption`. The inductive invariant `SupervisorInv` says where the
goroutine of `Run` is in its loops (`RunLoopInv`), which participants have been
stopped behind it and that before the graceful deadline each of them has
answered (`StopInv`), why a participant is a candidate to be forced
(`CandidatesInv`), that a shutdown without an error has forced and left behind
nothing (`CleanInv`), and what is remembered of how the run ended (`RunInv`).
None of the properties is inductive by itself: that a stop was clean, for
instance, is decided when `Complete` looks at one error flag, and only
`CleanInv` ties that flag to the calls made three loops earlier.

### Execution

Assumptions: `BufferAssumption`, `ExecutionAssumption` (capacities are positive,
workers and recorders are different goroutines, there is a recorder and a key).

`EffectsInv` adds to the type invariant: `CallsInv`, who is in a call of the store
and in which; `FlightsInv`, one worker per key is in a flight; `KeptInv`, the
writes that are on their way; `DrainedInv`, what a recorder that has exited
leaves. The heart is `KeptInv`: a completion that a worker has been told of, but
has not passed on, is in the primary or outstanding in the buffer. An entry is
outstanding until the replay has written it, so the head of the buffer does not
count between its replay and its removal (`loop = "replayed"`): without that the
removal would lose the only trace of a write. A completion that was acknowledged
though a full buffer dropped it is not promised but lost, and `LossesAreCounted`
says that this happens under the discarding policy only and never without its
count (`Discarded` is the drop that its caller has not been told of yet). For the claim of a flight it has
to be said while who holds it is still at work (`Claimed`), because a claim of
the primary that nobody has ended is right as long as its worker is.

### Listener hub

Assumption: `HubAssumption` (a positive capacity, finitely many connections).
`HandoverInv` has three parts beside the types.

- `ConnectionsInv`: where each connection is. It is held by one acceptor, or
  queued at one route, or gone; `pending` of a route counts its queue and what
  is on the way to it, so a route that is told to be drained is; and what a
  connection is carried by is not older than the commit before its acceptance.
- `EntriesInv`: what an entry serves and in what state its accept goroutine
  can be. Only the current route is active, a
  retiring one has been told or is about to be, an address that is known is
  bound, and a route shares the entry of an earlier route or has its own.
- `OwnerInv`: what the owner is doing and to which routes, by mode and place:
  what `candidate`, `current`, `task` and `debt` can be at each step of a
  preparation, a commit, a retirement, an abort and a stop.

`RoutesAreFollowed` is a conjunction of consequences of these, but none of its
conjuncts is inductive: that a drained route has no connection on its way, for
instance, rests on the count, which `AcceptorOK` keeps exact while an acceptor is
between choosing a route and putting the connection into its queue. That the
current generation is served says that its address is bound and that no commit,
retirement or close has ended its accept goroutine; that the goroutine has not
failed by itself cannot be said, since nobody restarts it (section 5).
`HandoffLosesNothing` follows by looking at the actions that refuse a connection:
a closed route has none pending unless the shutdown was forced.

### Messaging

Assumption: `MessagingAssumption`. `AdmissionInv` says whose turn it is to
consume (`Turn`, by the stage of the Hub), that what is admitted is to consume
or the Hub is still about to close it (`Closing`), that what is being opened is
too (`Opening`: the look at `active` and the provider's call are two steps, and
a hand-over may come between), and that one caller holds a generation's
`admissionMu` (`Locked`). Exclusion alone is not inductive: the monitor that
opens the old generation has looked before the Hub closed it.

### Session and publishing

Assumptions: `SessionAssumption` (a positive number of handlers),
`PublishAssumption` (no message has the name of none).

`SessionInv` says where the run loop has a session, where it has none, and that
the only loop that ends over one is that of a provider canceled before its first
look; how far a call of Close has come with what it changes; and that a consumer
that is off has no handlers. What is left behind at the end, `EndedMeansClosed`,
follows: no consumer, no handler, and no connection but one that Close is about
to break. That an activation is heard is
liveness and is left to TLC.

`PublishInv` follows one message: while a turn that began in an empty session
lasts, either the broker has not decided (`Undecided`), or the answers that are
in the connection, in the two channels and already read are together those of
its verdict (`Replied`); or the channel has closed (`CutOff`), what was in
the connection is lost, and what has reached the two channels is part of an
answer to this message or nothing. The order in which the two channels are read does not
matter, because the return is in its channel before the confirmation is in the
other. `AnswersAreOwn` is an action property: it is what `Replied` says when the
turn ends.

### Dead letters

Assumption: `SetupsAssumption` (somebody consumes the message; limits and budgets
are whole numbers). The copies and the setups that are tried are any.

The handler decides with the count that came with its delivery, while the broker
goes on counting. `CopyInv` says that a copy in the consumer's hands is out and
carries the broker's count, that this count is the number of failures the broker
was told of as long as the copy is alive, and that it is below the budget; what
has been decided keeps to the budget too. That the broker's own limit never takes
a copy first rests on the check of the configuration: `BudgetFacts` derives
`limit + 1 = MaxDeliveries` from `Accepted`, for whatever consumer is in force.

### Transactions and storage

Assumptions: `DatabaseAssumption` (no caller has the name of a free lock; there
are two rows; what they hold and the budget of updates are numbers), and that
something is watched and that a check draws a key nobody else has
(`PathsAssumption`, `KeysAssumption`). Two rows are what the sum is about; the
callers are any number.

`DbInv` ties four things together. A lock is held exactly for the rows a
transaction has written (`LocksInv`); what it has read is what the row holds
unless the version has moved on (`ReadsInv`); what it has written is still at
the version it saw (`WritesInv`); so the ledger agrees with the rows, and their
sum is what it was (`RowsInv`). `DeletedStays` is an action property from the
same invariant.

For the watches `FilesInv` says that the map holds exactly the watches that were
begun and not canceled, one per path, and none once the service is closed; a
stop waits for entries it has taken out, and the end of a consumer is final. For
the borrowed clients `StoreInv` adds to the property where an operation is and
over which client (`BorrowsInv`, `OperationsInv`), and what the file of a check
is at each of its steps (`VerifiesInv`), from which it follows that a check
that fails was hurt by a call of its own.

### Generations and their assembly

Assumptions: `GenerationAssumption`, `AssemblyAssumption` (at least one
generation, digest, address, graph and configuration).

`GenerationInv`: which operation is under way in which lifecycle and over which
of the three generations (`CourseInv`), that generations are numbered one after
the other and the three are different (`NumbersInv`), that only these hold
resources and the pools count them (`HoldersInv`), how far a candidate has come
(`StageInv`), who is admitted by the consumer and the scheduler at which step of
a commit (`AdmittedInv`), and, as long as no commit has stopped half way, that
whoever serves holds its resources (`WholeInv`). The property makes the same
exception: what a commit leaves that failed half way is in section 5.

`AssemblyInv`: a graph that is put together or serves has exactly the parts that
its steps have built (`BuiltInv`), at most one serves and at most one other is
there (`LiveInv`), so that a count is two at most, and whose finalizer failed
has reported it (`LeftInv`). That users go first rests on an agreement of two
orders, that of the steps of `Prepare` and that in which the parts are taken
down; the proof goes through both by name.

### Requests, calls and log lines

Assumptions: `EdgeAssumption` and `KindsAssumption` (finitely many connections,
positive limits, known kinds of requests); `SettingsAssumption` and
`OrdersAssumption` (the fields of client settings and requests are of their
types; the settings may be ones that are refused); `ManagersAssumption` (finitely
many loggers, the process's manager is none of theirs).

- `EdgeInv`: the number in flight is a count of the requests that have a slot;
  what a request at a stage has passed (`ConnectionOK`), so that a handler runs
  only behind every gate; and what the bucket holds together with what it granted
  in the last two ticks (`BucketInv`). The rate is a statement about a window, and
  inductive only with the level of the bucket in it. That an answer is final is
  an action property of the same invariant.
- `ClientInv`: how many answers there are at each place of the loop and that the
  payload is what the caller gave, though the caller uses its buffer again
  (`Underway`); that every answer but the one under consideration was a reason to
  go on (`Heard`); and that a result is what the last of them was (`Told`).
- `LogInv`: what an operation of the generation coordinator still has to do, and
  which manager writes where meanwhile (`UnderWay`, `TargetsInv`); and that the
  locks a line holds are on managers that still lead where the line has gone
  (`OnItsWay`). From this `WaysAreShort` shows that a line passes three managers
  at most, never the same twice: it goes neither in circles nor to a closed
  logger, and a switch waits only for lines that can move.

### Spans and plans

Assumptions: `SizesAssumption` (positive sizes), `DeclarationAssumption` (no
plan has the name of none, the number of outputs is bounded).

`SpanInv`: queue, batch, exported and dropped are disjoint, hold nothing twice
and together are what has ended (`PlacesInv`); the equation of the counters is a
count of that partition. `DrainInv`: once the finalizer has begun no span is
open, so a drain that finds the queue empty leaves it empty.

`DeclaredInv`: a binding points at the output it was returned for (`BindingsInv`),
what a component depends on was declared before it, also where a replacement was
spliced into the plan (`OrderInv`), and what has been built is the beginning of
a frozen plan (`BuildersInv`).

### Migration, cache, tokens, Todo and sections

Assumptions: `OperatorsAssumption` (no operator has the name of nobody),
`CacheAssumption` (no key and no value that of none) and `SectionsAssumption`
(what is decoded into a number is one; texts are any). The tokens and the Todo
need none.

- `MigrationInv`: the schema only grows and is never behind a record without the
  mark (`SchemaInv`), what a service has checked stays true (`ServicesInv`),
  with a server the record is what the holder of its lock has made it
  (`LockedInv`), and the mark is a holder's at work or what a failure left
  (`MarkInv`). The first two hold without the lock too.
- `CacheInv`: who works alone is the only one who works (`AloneInv`), what such
  an operation has done so far (`OwnInv`), that each layer holds a legal value
  unless somebody is writing the key (`HeldInv`), that a value on its way from
  Redis into the process is one of those (`FillInv`), and that the indexes of
  the tag name every key that has a value, unless it is being written
  (`IndexInv`). `LayersAgree` speaks of the quiet moments only and is far from
  inductive: the proof has to carry what every operation knows half way.
- `JwksInv`: the keys a verifier has were published, a token in the parser
  was looked up among them, and how `startup`, `window` and `lifetime` go
  together: a start that finds its window ended does not outlive it.
- `TodoInv`: a Todo is written twice at most (`RowInv`), and what each request
  knows at its step (`Knowing`): what was fetched before the completion has a
  version that the completion has moved on from, so that its update fails; there
  is one creator at most, and a claim that is completed is that of a completed
  Todo. `CompletionStands`, an action property, says that no later step undoes
  it.
- `ResourcesInv` says of which function each step's result is. The work is in
  lemmas about these functions, which say that what the first layer has checked
  passes the checks of the second, though it trims, completes and looks up
  anew: trimming twice changes nothing (`TrimmedOnce`), a section that is resolved is
  resolved the same again (`DatabaseIsBuilt`), an object section that is complete
  stays complete (`ObjectClientIsBuilt`), and no route reaches the client of
  another section (`RoutesAreSelected`).

### Triggers

Assumptions: `LeadershipAssumption`, `WindowAssumption`, `TaskSlotsAssumption`
(invocations are finite, limits have passed the code's validation, no task has
the name by which the model calls the global queue), `WatchAssumption`.

- `LeadershipInv`: a replica that leads holds the lease or it has lapsed, an
  inactive one is idle, and a job that admits belongs to a leader.
- `WindowInv` with `LeaseLasts`: how much of the lease is left at each place of
  the leader's loop, in terms of the configured times. `LeaseOutlivesLeader`
  is what it gives at the moment when the job admits; it is not inductive,
  since it says nothing of the time a call has taken already. The proof is
  linear arithmetic over any times, where the run has those up to nine.
- `SlotsInv`: every token belongs to one invocation and who waits for a channel
  is in its queue once. The proof counts: lemmas say how a cardinality changes
  when one invocation moves between phases.
- `WatchInv`: what a stable read has sampled is a beginning of what is on the
  disk as long as the stamp is the same (`ReadsABeginning`), so two equal
  samples are a content the file had.

`AdmissionIsSound` is the conjunction, an invariant of the composition: a step
belongs to one part and leaves the others alone.

### Only model-checked

Liveness under fairness and `ENABLED` are beyond this prover: `WaitersProceed`,
`OperationsEnd`, `RunEnds`, `ExecutionSettles`, `CoordinationSettles`,
`QueuedIsServed`, the liveness half of `ChangesAreLoaded` and of
`DeliveryIsSound` (`CopySettles`), `HandOversSettle` and the liveness in the
other compositions stay with TLC. So does what is computed by recursion, since
recursive operators and induction over data are beyond it too: the properties of
`CommandLine` and `ConfigLoad`, and of `ClientIsSound` the part that bounds a wait
which is doubled over the attempts (`WaitsAreBounded`) and, with it, the type of
that wait. No module that is proved about reaches a recursive operator.

## 5. What the violated runs show, and what was seen on the way

Each violated run states what a document or a comment says and TLC refutes it
with the code's own steps; quotations are in `PROJECT.json` ("findings").

- `verifier_ready`: the JWT verifier is started under the operation context of
  the preparation. When the preparation is over the context ends, and takes the
  background refresh with it: the verifier reports ready and never refreshes.
- `todo_complete`: a completion that joins another's running flight is answered
  with success and an empty Todo.
- `lease_window`: with times that the configuration accepts a leader's lease
  lapses while its job still admits executions. `LeaseOutlivesLeader` has the
  condition under which it cannot, `2 * acquire + renew < lease`; the default
  times satisfy it.

Modelled and seen in behaviours, without a run of their own:

- Kernel and coordinator: a start that fails after publishing components and
  cannot drain them in time leaves them unfinalized, and a later Stop reports a
  clean stop. `StoppedAfterRunMeansFinalized` is stated for processes that ran.
- Execution: a write that found the store degraded can put its record in the
  buffer after the recovery loop has seen it empty. With blocking overflow the
  recorder can wait for the recovery loop, which the stop ends only after it;
  hence the condition of `StopEndsUnlessBlocking`. With the discarding policy a
  completion that a full buffer drops is answered like one that was stored
  (`recovery.go:360-363`); only the count of the store shows it. A handler that succeeds under
  a context that has ended leaves its claim to lapse, and succeeds again.
- Listener hub: when the server moves to another address, a connection already
  accepted on the old one is closed (the exception of `HandoffLosesNothing`).
  An `Accept` that fails by itself ends the goroutine of its address for good
  (`listener_hub.go:361-367`): the address stays bound, the generation stays
  current, and no connection is taken any more.
- Generations: a commit that fails after switching the HTTP route is aborted
  without switching it back (`halfCommitted`). An abort before the server's
  goroutine runs waits out its deadline, and later finalizers get an ended
  context.
- Messaging: handlers of the old generation may still run while the new one
  consumes. A canceled monitor that decided to close may wait for `admissionMu`
  through a failed hand-over and close the restored generation; the new monitor
  took over that it is open and does nothing until the health changes, so the
  pause is not lifted (`LeftBehind` is the exception of `PauseIsLifted`). The
  run loop may start consumers just after `Deactivate` has found none. A
  provider that is closed before `run` first looks at its context keeps
  `current`, a session whose connection Close breaks (`rabbitmq.go:328`). A
  publisher may take the confirmation of an earlier publish that was given up
  (the confirmation's tag is not compared), so `AnswersAreOwn` is stated for
  clean channels; and over a channel that has closed, a confirmation that was
  already there is told as `ErrUnroutable`, since the closed channel of returns
  is read without a look at `ok` (`rabbitmq.go:291-293`).
- Schedule: `Deactivate` does not wait for running jobs, so jobs of two
  generations overlap in spite of the hub's comment. `RenewInterval*3` can
  overflow.
- Configuration: an empty or truncated file that is read stably is an empty
  configuration until the next event.
- Cache: a fill races with a deletion or a replacement (the legal values of
  `LayersAgree`); a tag key's time to live may be shortened; `GetOrLoad` fails
  with a disabled cache though the loader succeeded; the first caller's
  cancellation fails those who joined.
- Todo: a cancelled completion whose Save failed leaves a claim without a lease,
  so every later completion of that key fails; a retry after a lost answer of
  the update is a conflict although the change was stored.
- Command line: the end of a flow overtakes its queued events; a second command's end
  clears the first one's prompt. `?` while the help is shown makes help the scene
  to return to (`shell.go:232-236`), so a prompt behind it can neither be answered
  nor canceled, against the help's own text (`shell.go:747`): the exception of
  `NoPromptIsForgotten`.
- HTTP: a panicking request is not access-logged; a leader's cancelled request
  fails all who joined its refresh of the keys.
- HTTP client: `RetryMaxWaitTime` does not cap the first wait, which
  `pkg/httpx/README.md:51` calls the maximum; with a cap near the largest
  duration the doubling overflows, and then nothing is waited for
  (`WaitsAreBounded` is stated for the rest).
- Storage: an operation that has passed the check of the borrow goes on in the
  local client after `Use` has returned, since that client looks at no context;
  a check whose write fails leaves its empty file behind.
- Database: cancellation of a borrowed client is asynchronous, so a statement
  may start after `Borrow` has returned; a commit whose answer is lost looks like
  a failure.
- Telemetry: a resource whose start was refused has no run goroutine, so its
  finalizer waits out its deadline and the exporter is never shut down.
- Resources: policy names of the execution section are checked trimmed and looked
  up untrimmed.
- Plan: `bindingToken` is an empty struct, so all tokens may share one address;
  then one `Replace` in a plan refuses every later one, not only those of the
  same target (`internal/kernel/app/README.md:85`).
- Supervisor: a late result and the final deadline race in a select
  (`supervisor.go:438`). A cancellation that arrives while a participant starts
  leaves its unit failed, so `Run` returns `IncompleteShutdownError`.

## 6. Not modelled, and the plan

Not modelled: drawing and terminal input; encoding, rendering and formatting;
metrics, the formatting of logs, translation and diagnostics reports; drivers
and I/O of database, archives and spreadsheets; TLS; the code generator;
the fake messaging provider; the wiring of the composition, which builds values
once in a fixed order. MySQL's migrations are left out because the repository
does not say what they may do.

The safety of every modelled part is proved but for what section 4 leaves to TLC.
Models to come: the trigger engine's calendar if it moves into the repository, the diagnostics of the hubs.

------------------------------ MODULE Assembly ------------------------------
(***************************************************************************)
(* How an application generation is put together and taken apart           *)
(* (internal/composition/generation.go, generation_resources.go): Prepare  *)
(* goes through its steps in order and may fail at each; seven resources   *)
(* are shared between generations through pools, keyed by the digest of    *)
(* their section; what was built is closed in an order that is written     *)
(* down, not derived. Which operation may follow which is in Generation,   *)
(* what a component does when it starts and stops in Kernel.               *)
(***************************************************************************)
EXTENDS Naturals, FiniteSets, SequencesExt

CONSTANTS
    MaxGraphs,  \* bound: generations that are ever built
    Failures,   \* bound: finalizers that ever fail
    Variants    \* configurations: the digest of each section that keys a pool

ASSUME AssemblyAssumption == MaxGraphs \in Nat \ {0} /\ Variants # {}

Graphs == 1..MaxGraphs

\* f.loggerPool ... f.metricsPool, in the order of Prepare.
Shared == <<"logger", "database", "cache", "i18n", "storage", "metrics">>
Pools == ToSet(Shared) \cup {"execution"}

\* Built for one generation and closed with it.
Owned == {"telemetry", "messaging", "scheduler"}

\* Decoding, wiring and the checks of the database: they keep nothing.
Checks == {"auth", "migration", "modules", "router"}

Servers == {"server", "management"}

Steps ==
    Shared \o <<"telemetry", "auth", "migration", "execution", "messaging", "modules", "scheduler",
                "participants", "router", "server", "management">>
Parts == ToSet(Steps) \ Checks

\* The order of stop. abort differs: the management server goes first.
Teardown ==
    <<"server", "management", "participants", "scheduler", "messaging", "telemetry", "metrics",
      "storage", "i18n", "cache", "database", "logger", "execution">>

\* Which part is handed to which other when it is built.
Uses(part) ==
    CASE part = "telemetry" -> {"metrics"}
      [] part = "messaging" -> {"logger", "execution", "telemetry"}
      [] part = "scheduler" -> {"logger", "execution", "cache", "telemetry"}
      [] part = "participants" -> {"logger"}
      [] part = "server" -> {"logger", "database", "cache", "i18n", "storage", "execution", "telemetry", "participants"}
      [] part = "management" -> {"logger", "metrics", "telemetry"}
      [] OTHER -> {}

VARIABLES
    phase,     \* of each generation
    at,        \* the steps that Prepare has behind it
    digests,   \* the configuration a generation was built from
    held,      \* what it has and has not given back
    unserved,  \* its server that was made but never served
    counts,    \* the entries of the pools, by pool and digest
    left,      \* parts whose finalizer failed: nobody calls it again
    reported   \* generations whose abort or stop answered an error

assemblyVars == <<phase, at, digests, held, unserved, counts, left, reported>>

Phases == {"none", "preparing", "prepared", "serving", "aborting", "stopping", "stuck", "settled"}
Entries == Pools \X UNION {{v[p] : p \in Pools} : v \in Variants}

AssemblyTypeOK ==
    /\ phase \in [Graphs -> Phases]
    /\ at \in [Graphs -> 0..Len(Steps)]
    /\ digests \in [Graphs -> Variants]
    /\ held \in [Graphs -> SUBSET Parts]
    /\ unserved \subseteq Graphs
    /\ counts \in [Entries -> 0..2]
    /\ left \subseteq Graphs \X Parts
    /\ reported \subseteq Graphs

EntryOf(g, pool) == <<pool, digests[g][pool]>>

\* Operations run one at a time.
AtRest == \A g \in Graphs : phase[g] \in {"none", "serving", "stuck", "settled"}
Serving == {g \in Graphs : phase[g] = "serving"}

-----------------------------------------------------------------------------
(* Prepare.                                                                *)

\* The first one, or the next while one serves and none is left half stopped.
BeginPrepare(g, v) ==
    /\ AtRest
    /\ g = Cardinality({h \in Graphs : phase[h] # "none"}) + 1
    /\ g = 1 \/ Serving # {}
    /\ \A h \in Graphs : phase[h] # "stuck" /\ (phase[h] = "serving" => v # digests[h])
    /\ phase' = [phase EXCEPT ![g] = "preparing"]
    /\ digests' = [digests EXCEPT ![g] = v]
    /\ UNCHANGED <<at, held, unserved, counts, left, reported>>

Advance(g, step) ==
    /\ phase[g] = "preparing" /\ step = Steps[at[g] + 1]
    /\ at' = [at EXCEPT ![g] = @ + 1]
    /\ phase' = [phase EXCEPT ![g] = IF at[g] + 1 = Len(Steps) THEN "prepared" ELSE @]

Keep(g, part) == held' = [held EXCEPT ![g] = @ \cup {part}]

\* resourcePool.acquire: one more reference to the entry of the digest, which
\* is built when there is none.
TakeHandle(g, pool) ==
    /\ Advance(g, pool) /\ Keep(g, pool)
    /\ counts' = [counts EXCEPT ![EntryOf(g, pool)] = @ + 1]
    /\ UNCHANGED <<digests, unserved, left, reported>>

\* startImmutableComponent, started participants and a server that serves.
Build(g, part) ==
    /\ Advance(g, part) /\ Keep(g, part)
    /\ UNCHANGED <<digests, unserved, counts, left, reported>>

Pass(g, check) ==
    /\ Advance(g, check)
    /\ UNCHANGED <<digests, held, unserved, counts, left, reported>>

\* A step fails and keeps nothing.
StepFails(g) ==
    /\ phase[g] = "preparing"
    /\ phase' = [phase EXCEPT ![g] = "aborting"]
    /\ UNCHANGED <<at, digests, held, unserved, counts, left, reported>>

\* The context ends between NewServer and StartWithListener: the server is
\* there, but the goroutine that would close its runDone never starts.
ListenerRefused(g) ==
    /\ phase[g] = "preparing" /\ Steps[at[g] + 1] \in Servers
    /\ phase' = [phase EXCEPT ![g] = "aborting"]
    /\ Keep(g, Steps[at[g] + 1])
    /\ unserved' = unserved \cup {g}
    /\ UNCHANGED <<at, digests, counts, left, reported>>

\* A server ends before it is ready, the context ends, or Commit fails.
CandidateFails(g) ==
    /\ phase[g] = "prepared"
    /\ phase' = [phase EXCEPT ![g] = "aborting"]
    /\ UNCHANGED <<at, digests, held, unserved, counts, left, reported>>

\* Commit makes the generation current, and the previous one is retired.
Commit(g) ==
    /\ phase[g] = "prepared"
    /\ phase' = [h \in Graphs |-> IF h = g THEN "serving" ELSE IF phase[h] = "serving" THEN "stopping" ELSE phase[h]]
    /\ UNCHANGED <<at, digests, held, unserved, counts, left, reported>>

-----------------------------------------------------------------------------
(* abort, stop and ForceStop.                                              *)

BeginEnd(g) ==
    /\ AtRest /\ phase[g] \in {"serving", "stuck"}
    /\ phase' = [phase EXCEPT ![g] = "stopping"]
    /\ UNCHANGED <<at, digests, held, unserved, counts, left, reported>>

\* The order in which a generation is taken apart.
Order(g) == IF phase[g] = "aborting" THEN <<"management">> \o Teardown ELSE Teardown

First(g, order, part) ==
    /\ part \in held[g]
    /\ \E i \in 1..Len(order) : order[i] = part /\ \A j \in 1..(i - 1) : order[j] \notin held[g]

\* Faulty releaseResources: what was built first goes first.
NextInOrderBuilt(g, part) == First(g, Steps, part)

\* The next part to go; what was never built is passed over.
NextToGo(g, part) == First(g, Order(g), part)

\* resourceHandle.release: the entry goes with its last reference.
Drop(g, part) ==
    counts' = IF part \in Pools THEN [counts EXCEPT ![EntryOf(g, part)] = @ - 1] ELSE counts

\* A handle that is not the last does not call the finalizer.
Finalizes(g, part) == part \in Pools => counts[EntryOf(g, part)] = 1

GiveBack(g, part) ==
    /\ NextToGo(g, part)
    /\ held' = [held EXCEPT ![g] = @ \ {part}]
    /\ Drop(g, part)

\* The part is closed.
ClosePart(g, part) ==
    /\ phase[g] \in {"aborting", "stopping"}
    /\ GiveBack(g, part)
    /\ part \in Servers => g \notin unserved
    /\ UNCHANGED <<phase, at, digests, unserved, left, reported>>

\* Its finalizer fails, which is joined and never tried again. abort goes
\* through everything; stop gets to its resources only without an error.
CloseFails(g, part) ==
    /\ phase[g] \in {"aborting", "stopping"}
    /\ Cardinality(left) < Failures
    /\ phase[g] = "stopping" => part \in Pools \cup Owned
    /\ part \in Servers => g \notin unserved
    /\ GiveBack(g, part) /\ Finalizes(g, part)
    /\ left' = left \cup {<<g, part>>}
    /\ reported' = reported \cup {g}
    /\ UNCHANGED <<phase, at, digests, unserved>>

\* abort waits for a server that never served until its deadline is over; the
\* finalizers that follow get a context that has ended.
WaitsInVain(g, part) ==
    /\ phase[g] = "aborting" /\ g \in unserved /\ part \in Servers
    /\ GiveBack(g, part)
    /\ unserved' = unserved \ {g}
    /\ reported' = reported \cup {g}
    /\ UNCHANGED <<phase, at, digests, left>>

\* A server or a participant does not stop: stop leaves all the rest as it is.
\* (Which of them may stop at a later attempt is in Generation.)
StopFails(g) ==
    /\ phase[g] = "stopping"
    /\ held[g] \cap (Servers \cup {"participants"}) # {}
    /\ phase' = [phase EXCEPT ![g] = "stuck"]
    /\ reported' = reported \cup {g}
    /\ UNCHANGED <<at, digests, held, unserved, counts, left>>

Settle(g) ==
    /\ phase[g] \in {"aborting", "stopping"} /\ held[g] = {}
    /\ phase' = [phase EXCEPT ![g] = "settled"]
    /\ at' = [at EXCEPT ![g] = 0]
    /\ UNCHANGED <<digests, held, unserved, counts, left, reported>>

-----------------------------------------------------------------------------

AssemblyInit ==
    /\ phase = [g \in Graphs |-> "none"]
    /\ at = [g \in Graphs |-> 0]
    /\ digests = [g \in Graphs |-> CHOOSE v \in Variants : TRUE]
    /\ held = [g \in Graphs |-> {}]
    /\ unserved = {} /\ left = {} /\ reported = {}
    /\ counts = [e \in Entries |-> 0]

AssemblyNext ==
    \E g \in Graphs :
        \/ \E v \in Variants : BeginPrepare(g, v)
        \/ \E pool \in Pools : TakeHandle(g, pool)
        \/ \E part \in Parts \ Pools : Build(g, part)
        \/ \E part \in held[g] : ClosePart(g, part) \/ CloseFails(g, part) \/ WaitsInVain(g, part)
        \/ \E check \in Checks : Pass(g, check)
        \/ StepFails(g) \/ ListenerRefused(g) \/ CandidateFails(g) \/ Commit(g)
        \/ BeginEnd(g) \/ StopFails(g) \/ Settle(g)

AssemblySpec == AssemblyInit /\ [][AssemblyNext]_assemblyVars

-----------------------------------------------------------------------------
(* Properties.                                                             *)

\* A pool has an entry exactly as long as a generation holds a handle of it:
\* no candidate that fails, wherever it does, and no generation that is retired
\* closes what another one uses or leaves an entry that Stop would find.
PoolsAreExact ==
    \A e \in Entries : counts[e] = Cardinality({g \in Graphs : e[1] \in held[g] /\ EntryOf(g, e[1]) = e})

\* Whatever is there finds what it was given, while a generation is put
\* together, serves and is taken apart: the order of releaseResources agrees
\* with the order in which Prepare handed one part to the other.
UsersGoFirst ==
    \A g \in Graphs : \A part \in held[g] : Uses(part) \subseteq held[g]

\* Nothing is lost in silence: what a finalizer left behind was reported, and
\* a generation that is gone has nothing.
LossIsReported ==
    /\ \A l \in left : phase[l[1]] = "settled" => l[1] \in reported
    /\ \A g \in Graphs : phase[g] = "settled" => held[g] = {} /\ g \notin unserved

\* The parts of a generation as a whole, at every moment it is put together or
\* taken apart, whatever fails.
AssemblyIsSound == AssemblyTypeOK /\ PoolsAreExact /\ UsersGoFirst /\ LossIsReported
=============================================================================

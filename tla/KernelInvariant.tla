--------------------------- MODULE KernelInvariant ---------------------------
(***************************************************************************)
(* The inductive invariant behind the safety of the kernel: who holds an   *)
(* instance, what a lease in each state looks like, and what the loop of   *)
(* an operation has already established for the components it has visited. *)
(***************************************************************************)
EXTENDS Kernel

\* A callback runs on the instance that the lease gives out now.
HeldIsCurrent ==
    \A u \in Users, c \in Components : held[u][c] # None => held[u][c] = current[c]

\* The lease counts exactly the callbacks inside it, which is why a count of
\* zero means that nobody is left.
UsesCounted ==
    \A c \in Components : activeUses[c] = Cardinality(Holders(c))

\* A goroutine asks for a component below all those it holds, so it enters no
\* lease twice.
WantsBelow ==
    \A u \in Users : userState[u] # "running" => \A d \in Holding(u) : want[u] < d

UseInv == HeldIsCurrent /\ UsesCounted /\ WantsBelow

LeaseShape ==
    \A c \in Components :
        /\ leaseState[c] \in {"serving", "draining"} <=> current[c] # None
        /\ drainDone[c] => leaseState[c] = "draining" /\ activeUses[c] = 0
        /\ current[c] # None =>
                slotState[c][current[c]] \in {"serving", "waiting-for-drain"}

\* The pointers of a component name different instances, all of them built.
OwnersDistinct ==
    \A c \in Components :
        /\ candidate[c] # None => candidate[c] \notin {current[c], retired[c], stopping[c]}
        /\ current[c] # None => current[c] \notin {retired[c], stopping[c]}
        /\ \A g \in {candidate[c], current[c], retired[c], stopping[c]} :
                g <= nextGeneration[c]

LeaseInv == LeaseShape /\ OwnersDistinct

\* What a loop leaves behind it and finds before it.
LoopInv ==
    /\ op.phase # "discard" => op.todo \subseteq op.changed
    /\ kernelState = "created" /\ op.kind = "none" =>
            \A c \in Components : leaseState[c] = "pending"
    /\ op.phase = "prepare" /\ op.kind = "start" =>
            \A c \in op.todo : leaseState[c] = "pending"
    /\ op.phase \in {"drain", "terminalDrain"} =>
            \A c \in op.changed \ op.todo : drainDone[c]
    /\ op.phase \in {"commit", "prepareStop"} => \A c \in op.todo : drainDone[c]
    /\ op.phase = "commit" => \A c \in op.changed : leaseState[c] = "draining"
    /\ op.phase \in {"rollback", "resume"} =>
            \A c \in op.todo : leaseState[c] = "draining"

\* What a reload knows of the candidates it has prepared.
CandidateInv ==
    /\ op.phase = "prepare" /\ op.kind = "reload" =>
            \A c \in op.changed \ op.todo : candidate[c] # None
    /\ op.phase = "drain" /\ op.kind = "reload" =>
            \A c \in op.changed : candidate[c] # None
    /\ op.phase = "commit" => \A c \in op.todo : candidate[c] # None
    /\ op.phase = "commit" => \A c \in op.todo : retired[c] = None
    /\ op.phase \in {"prepare", "drain"} /\ op.kind = "reload" =>
            \A c \in op.changed : retired[c] = None

\* No lease is closed for good while the kernel serves or starts.
OpenInv ==
    \/ kernelState = "running"
    \/ kernelState = "created" /\ op.phase \in {"idle", "prepare", "discard", "drain"}
    => \A c \in Components : ~terminalDrain[c]

SafetyInv == UseInv /\ LeaseInv /\ LoopInv /\ CandidateInv /\ OpenInv

-----------------------------------------------------------------------------
(* What has been built and may still be published.                         *)

\* An instance that has not been built has no state yet.
FreshInv ==
    \A c \in Components, g \in Generations :
        g > nextGeneration[c] => slotState[c][g] = "unbuilt"

\* The operation may still publish or commit the candidates it has built.
MayPublish ==
    \/ op.phase \in {"prepare", "commit"}
    \/ op.phase = "drain" /\ op.kind = "reload"

NoCandidates == \A c \in Components : candidate[c] = None

\* A candidate that may still be published has not been finalized, which a
\* candidate left behind by an earlier operation may have been.
PendingInv ==
    /\ MayPublish =>
            \A c \in Components :
                candidate[c] # None => slotState[c][candidate[c]] = "finalization-pending"
    /\ kernelState = "created" /\ op.kind = "none" => NoCandidates

GateInv == FreshInv /\ PendingInv

-----------------------------------------------------------------------------
(* What makes a reload whole.                                              *)

Pointers(c) == {candidate[c], current[c], retired[c], stopping[c]}

\* Every instance that was built is owned or finalized, and none is both.
OwnersInv ==
    \A c \in Components :
        /\ retired[c] # None => retired[c] # stopping[c]
        /\ \A g \in {candidate[c], retired[c], stopping[c]} :
                g # None => slotState[c][g] # "finalized"
        /\ \A g \in Generations :
                g <= nextGeneration[c] /\ g \notin Pointers(c) => slotState[c][g] = "finalized"

\* What activate was given is in the lease, or taken out and not yet finalized.
InstalledInv ==
    \A c \in Components :
        installed[c] # None =>
            \/ installed[c] = current[c]
            \/ installed[c] = stopping[c] /\ slotState[c][stopping[c]] = "finalization-pending"

\* An instance was built from the section whose digest the component keeps, and
\* a candidate from the section of the operation that built it.
BuiltFromInv ==
    \A c \in Components \ NoReload :
        /\ current[c] # None => slotDigest[c][current[c]] = currentDigest[c]
        /\ MayPublish /\ candidate[c] # None => slotDigest[c][candidate[c]] = op.config[c]

\* The digests follow the snapshot, except for the components that a commit has
\* switched already.
DigestInv ==
    /\ kernelState = "created" => snapshot = NoConfig
    /\ \A c \in Components \ NoReload :
        /\ kernelState = "running" =>
                currentDigest[c] = IF op.phase = "commit" /\ c \in op.changed \ op.todo
                                   THEN op.config[c] ELSE snapshot[c]
        /\ op.kind = "reload" /\ op.phase \in {"prepare", "drain", "commit"} /\ c \notin op.changed =>
                op.config[c] = currentDigest[c]
        /\ op.kind = "start" /\ op.phase = "prepare" /\ current[c] # None =>
                op.config[c] = currentDigest[c]
        /\ kernelState \notin {"created", "running"} /\ snapshot # NoConfig /\ current[c] # None =>
                currentDigest[c] = snapshot[c]

\* The components that the operation under way leaves open.
LeftOpen ==
    CASE op.phase = "drain" -> {c \in Components : c \in op.changed => c \in op.todo /\ ~InReverse(c)}
      [] op.phase = "commit" -> Components \ op.changed
      [] op.phase \in {"rollback", "resume"} -> Components \ op.todo
      [] OTHER -> Components

\* A running kernel serves what its operation has not closed, and a drain has
\* closed the later components before the earlier ones.
ServingInv ==
    /\ \A c \in Components : leaseState[c] = "serving" => slotState[c][current[c]] = "serving"
    /\ kernelState = "running" => \A c \in LeftOpen : leaseState[c] = "serving"
    /\ kernelState = "running" /\ op.phase = "drain" =>
            \A d \in op.changed \ op.todo, e \in op.todo : e < d
    /\ op.kind = "start" /\ op.phase = "prepare" =>
            \A c \in Components \ op.todo : leaseState[c] = "serving"
    /\ op.phase = "commit" => \A c \in op.changed : drainDone[c]

WholeInv == OwnersInv /\ InstalledInv /\ BuiltFromInv /\ DigestInv /\ ServingInv

\* The kernel's inductive invariant.
KernelInv == SafetyInv /\ GateInv /\ WholeInv

-----------------------------------------------------------------------------
(* The gate that a component is to its users: see UseGate.                 *)

Closed == [c \in Components |->
    {g \in Generations : slotState[c][g] \in {"finalizing", "finalized", "terminal-failed"}}]

Gate == INSTANCE UseGate WITH open <- current, inside <- held, closed <- Closed

\* Every step of the kernel, of its transactions and of the goroutines in Use
\* is a step of the gate or none: whatever is prepared, committed, rolled back,
\* abandoned or stopped, in which order and with which failure.
ImplementsUseGate == Gate!GateSpec
=============================================================================

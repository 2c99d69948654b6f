---------------------------- MODULE MCExecution ----------------------------
(* Two workers and one recorder goroutine over one key.                     *)
EXTENDS Execution

\* Of a policy that waits and one that does not the two mixtures, and the policy
\* that tells the writer.
MCPolicies == {<<"discard", "block">>, <<"block", "discard">>, <<"alert", "discard">>}

MCCallers == Workers \cup Recorders
=============================================================================

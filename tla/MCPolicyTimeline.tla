-------------------------- MODULE MCPolicyTimeline --------------------------
(* A denied command and reads inside and outside the workspace, under      *)
(* policies that block with each kind of fallback; two archives, each with *)
(* room for one to three records.                                          *)
EXTENDS PolicyTimeline

MCPolicies ==
  {[requested |-> r[1], fallback |-> r[2], lists |-> {"workspace.allow_read"}] :
     r \in {<<"block", "notify">>, <<"block", "block">>, <<"block", "allow">>, <<"kill", "review">>}}
MCEvents ==
  {[name |-> "openat", matches |-> FALSE, credential |-> FALSE],
   [name |-> "openat", matches |-> TRUE, credential |-> FALSE],
   [name |-> "openat", matches |-> TRUE, credential |-> TRUE],
   [name |-> "execve", matches |-> TRUE, credential |-> FALSE],
   [name |-> "connect", matches |-> FALSE, credential |-> FALSE]}
MCSizeOf == [kind \in Kinds |-> IF kind = "raw" THEN 2 ELSE 1]
============================================================================

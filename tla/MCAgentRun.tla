---------------------------- MODULE MCAgentRun ----------------------------
(* Instances of AgentRun: a prompt, a priority and two regular steering     *)
(* messages; and a prompt, a follow-up and a passive notice.               *)
EXTENDS AgentRun

SteerSource == [prompt |-> <<"p1">>, priority |-> <<"u1">>, steer |-> <<"s1", "s2">>,
                followUp |-> <<>>, passive |-> <<>>]

FollowUpSource == [prompt |-> <<"p1">>, priority |-> <<>>, steer |-> <<>>,
                   followUp |-> <<"f1">>, passive |-> <<"x1">>]
=============================================================================

-------------------------- MODULE MCPlanExecution --------------------------
(* Responses with up to two calls, with and without "done"; plans of one   *)
(* to three leaves, flat and nested; with and without either limit.        *)
EXTENDS PlanExecution
MCBatches == {<< >>, <<"tool", "tool">>, <<"tool", "done", "tool">>}
MCDrafts  == {<<0>>, <<0, 2>>, <<2, 0>>, <<0, 0, 0>>}
MCLimits  == [iterations : {{}, {13}}, calls : {{}, {5}}]
=============================================================================

---------------------------- MODULE MCProblemStore -----------------------------
(* Arrays for small instances of ProblemStore with a limit of two cases.     *)
EXTENDS ProblemStore

MCBodies == {<<>>, <<"small">>, <<"small", "big_answer">>, <<"big_input">>,
             <<"small", "small", "small">>}
================================================================================

----------------------------- MODULE MCPipeline ------------------------------
(* Values for the constants of Pipeline that a configuration cannot write.   *)
EXTENDS Pipeline

Prints == [cat |-> <<>>, wc |-> <<1>>, ps |-> <<1>>, help |-> <<2, 2>>]

\* Every reader reads to the end.
Whole == {"cat", "wc", "help"} \X {"cat", "wc"}

CatWc  == {<<"cat", "wc">>}
=============================================================================

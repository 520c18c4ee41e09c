-------------------------- MODULE MCSessionDriver --------------------------
(* SessionDriver with a few inputs and two sorts of batches.               *)
EXTENDS SessionDriver

MCBatches == {<<"plain", "shell">>, <<"mcp", "wait">>}
=============================================================================

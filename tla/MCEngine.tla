------------------------------ MODULE MCEngine ------------------------------
(***************************************************************************)
(* Instances of Engine for TLC.                                            *)
(***************************************************************************)
EXTENDS Engine

CONSTANTS a, b

MCPromptLen == [r \in Requests |-> IF r = a THEN 3 ELSE 1]
MCMaxTokens == [r \in Requests |-> 3]
=============================================================================

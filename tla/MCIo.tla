------------------------------- MODULE MCIo -------------------------------
(***************************************************************************)
(* Instances of Io for TLC: two items of one list, a request and a caller  *)
(* in the application.                                                     *)
(***************************************************************************)
EXTENDS Io

CONSTANTS h1, a1

MCPairs == {<<"x1", "x1">>, <<"x2", "x2">>, <<"xs", "xs">>, <<"xs", "x1">>, <<"xs", "x2">>}

\* One item may not be written, deleted or read by itself.
MCWrite  == <<[path |-> "x1", allow |-> FALSE], [path |-> "xs", allow |-> TRUE]>>
MCDelete == <<[path |-> "x1", allow |-> FALSE], [path |-> "xs", allow |-> TRUE]>>
MCRead   == <<[path |-> "x1", allow |-> FALSE], [path |-> "xs", allow |-> TRUE]>>

MCRanges == {{"x1", "x2"}, {"x2"}}

MCStamps == {<<1, 2>>}

=============================================================================

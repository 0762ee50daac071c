------------------------------ MODULE MCServing -------------------------------
(***************************************************************************)
(* Instances of Serving.  Long has a budget of two tokens and a stop        *)
(* string; every other request has a budget of one.                         *)
(***************************************************************************)
EXTENDS Serving

CONSTANT Long

MCBudget == [r \in Requests |-> IF r = Long THEN 2 ELSE 1]
MCStops == [r \in Requests |-> IF r = Long THEN {<<"b">>} ELSE {}]
MCPieces == [r \in Requests |-> IF r = Long THEN {<<"a">>, <<"c", "b">>} ELSE {<<"a">>}]

\* A stop string of two symbols, which two tokens may spell.
MCStopPair == [r \in Requests |-> {<<"a", "b">>}]
MCLetters == [r \in Requests |-> {<<"a">>, <<"b">>}]
=============================================================================

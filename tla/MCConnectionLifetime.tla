------------------------- MODULE MCConnectionLifetime -------------------------
(* Instances of ConnectionLifetime for TLC. *)
EXTENDS ConnectionLifetime

\* BOUND: two connections, or three.
Two == 1 .. 2
Three == 1 .. 3

\* BOUND: every peer sends at most one request.
OneRequest == [c \in Conns |-> 1]

\* BOUND: the first peer sends a request, may stop reading, close or reset; the
\* others never say anything.
FirstTalks == [c \in Conns |-> IF c = 1 THEN 1 ELSE 0]
===============================================================================

------------------------------- MODULE MCBuffer -------------------------------
(* Instances of Buffer for TLC. *)
EXTENDS Buffer

\* Two byte values, different from the padding.
MCBytes == {1, 2}
===============================================================================

------------------------------ MODULE ByteQueue -------------------------------
(* What Buffer promises: the bytes put in come out, each once and in order. *)
EXTENDS Naturals, Sequences

CONSTANT Chunks   \* the non-empty byte sequences put in at a time

VARIABLES
    bytes,   \* what is in it
    result   \* what the last operation took out

Init == bytes = <<>> /\ result = <<>>

Put   == \E chunk \in Chunks : bytes' = bytes \o chunk /\ result' = <<>>
Unput == \E chunk \in Chunks : bytes' = chunk \o bytes /\ result' = <<>>
Take  == \E n \in 0 .. Len(bytes) :
             result' = SubSeq(bytes, 1, n) /\ bytes' = SubSeq(bytes, n + 1, Len(bytes))

Next == Put \/ Unput \/ Take

Spec == Init /\ [][Next]_<<bytes, result>>
===============================================================================

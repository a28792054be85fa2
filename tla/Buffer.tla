-------------------------------- MODULE Buffer --------------------------------
(***************************************************************************)
(* Buffer (reactor/src/Buffer.cpp): a vector with a read and a write index *)
(* and kPrependSize bytes in front.  TcpConnection reads into one, from    *)
(* which HttpContext retrieves, and writes from another, which it shrinks  *)
(* when it is drained; InputNext and OutputNext are these two uses.        *)
(*                                                                         *)
(* buf is buf_ as a sequence: buf_[i] is buf[i + 1].  The indices are      *)
(* size_t: a difference wraps round when it would be negative.             *)
(***************************************************************************)
EXTENDS Integers, Sequences, SequencesExt

CONSTANTS Bytes,          \* byte values
          kPrependSize,
          ExtraSize,      \* sizeof(extrabuf) in readFd
          MaxChunk,       \* BOUND: bytes appended at a time
          MaxIndex,       \* BOUND: writeIndex_
          Width           \* bits of size_t

ASSUME SizesAssumption ==
    /\ {kPrependSize, ExtraSize, MaxChunk, Width} \subseteq Nat \ {0}
    /\ MaxIndex \in Nat /\ kPrependSize =< MaxIndex /\ MaxIndex * 4 < 2 ^ Width

VARIABLES buf, readIndex, writeIndex,
          result,   \* what the last operation returned, or sent
          outside   \* a byte has been read or written beyond the end of buf_

vars == <<buf, readIndex, writeIndex, result, outside>>

Chunks == UNION {[1 .. n -> Bytes] : n \in 1 .. MaxChunk}

Init ==
    /\ buf = [i \in 1 .. kPrependSize |-> 0]
    /\ readIndex = kPrependSize /\ writeIndex = kPrependSize
    /\ result = <<>> /\ outside = FALSE

SizeT(n) == n % (2 ^ Width)

Readable == SizeT(writeIndex - readIndex)
Writable == SizeT(Len(buf) - writeIndex)

\* buf_.resize(n) pads with zeros.
Resized(b, n) == [i \in 1 .. n |-> IF i =< Len(b) THEN b[i] ELSE 0]

\* memcpy of data to b at index i, as far as it lies inside.
Written(b, i, data) ==
    [k \in 1 .. Len(b) |-> IF k - i \in DOMAIN data THEN data[k - i] ELSE b[k]]

\* What cap becomes when it is doubled again and again, n times.
Doubled(cap, n) ==
    LET size[k \in 0 .. n] == IF k = 0 THEN cap ELSE 2 * size[k - 1] IN size

\* while (cap < need) cap *= 2: the first of these that holds need.
Grown(cap, need) ==
    Doubled(cap, need)[CHOOSE k \in 0 .. need :
        /\ Doubled(cap, need)[k] >= need
        /\ \A i \in 0 .. k - 1 : Doubled(cap, need)[i] < need]

\* Mistake: the test for room is off by one.
WithLittleRoom(b, w, n) ==
    IF n > SizeT(Len(b) - w) + 1 THEN Resized(b, Grown(Len(b), w + n)) ELSE b

\* The vector with room for n bytes at w.
WithRoom(b, w, n) == IF n > SizeT(Len(b) - w) THEN Resized(b, Grown(Len(b), w + n)) ELSE b

\* append(data) to b with the write index at w.
AppendAt(b, w, data) ==
    LET room == WithRoom(b, w, Len(data))
    IN /\ buf' = Written(room, w, data)
       /\ writeIndex' = w + Len(data)
       /\ result' = <<>>
       /\ outside' = (outside \/ w + Len(data) > Len(room))

-------------------------------------------------------------------------------
(* The operations. *)

Append_(data) == AppendAt(buf, writeIndex, data) /\ UNCHANGED readIndex

\* One readv of readFd: what does not fit goes to extrabuf and is appended.
ReadFd(data) ==
    /\ Len(data) =< Writable + ExtraSize
    /\ IF Len(data) =< Writable
       THEN /\ buf' = Written(buf, writeIndex, data)
            /\ writeIndex' = writeIndex + Len(data)
            /\ result' = <<>>
            /\ outside' = (outside \/ writeIndex + Len(data) > Len(buf))
       ELSE AppendAt(Written(buf, writeIndex, data), Len(buf),
                     SubSeq(data, Writable + 1, Len(data)))
    /\ UNCHANGED readIndex

\* handleWrite: writeFd sends n bytes, and if that was all of them the vector is
\* shrunk.  Both branches of shrinkIfLarge resize; neither touches an index.
WriteFd(n) ==
    /\ n \in 1 .. Readable
    /\ result' = SubSeq(buf, readIndex + 1, readIndex + n)
    /\ readIndex' = readIndex + n
    /\ buf' = IF readIndex' = writeIndex THEN Resized(buf, kPrependSize) ELSE buf
    /\ outside' = (outside \/ readIndex + n > Len(buf))
    /\ UNCHANGED writeIndex

\* Mistake: the indices are reset although a byte is left.
RetrieveResets(n) ==
    /\ n > 0 /\ Readable > 0
    /\ result' = SubSeq(buf, readIndex + 1, readIndex + n)
    /\ IF readIndex + n + 1 >= writeIndex
       THEN readIndex' = kPrependSize /\ writeIndex' = kPrependSize
       ELSE readIndex' = readIndex + n /\ UNCHANGED writeIndex
    /\ UNCHANGED <<buf, outside>>

Retrieve(n) ==
    /\ n > 0 /\ Readable > 0
    /\ LET len == IF n > Readable THEN Readable ELSE n IN
       /\ result' = SubSeq(buf, readIndex + 1, readIndex + len)
       /\ IF readIndex + len = writeIndex
          THEN readIndex' = kPrependSize /\ writeIndex' = kPrependSize
          ELSE readIndex' = readIndex + len /\ UNCHANGED writeIndex
    /\ UNCHANGED <<buf, outside>>

\* retrieveAll() resets the indices before it resizes; what shrinkIfLarge adds
\* is the capacity.
RetrieveAll ==
    /\ result' = SubSeq(buf, readIndex + 1, writeIndex)
    /\ readIndex' = kPrependSize /\ writeIndex' = kPrependSize
    /\ buf' = Resized(buf, kPrependSize)
    /\ UNCHANGED outside

\* Mistake: one byte more than the prependable region holds.
PrependTight(data) ==
    /\ Len(data) =< readIndex + 1
    /\ readIndex' = readIndex - Len(data)
    /\ buf' = Written(buf, readIndex', data)
    /\ result' = <<>>
    /\ UNCHANGED <<writeIndex, outside>>

Prepend(data) ==
    /\ IF Len(data) =< readIndex
       THEN /\ readIndex' = readIndex - Len(data)
            /\ buf' = Written(buf, readIndex', data)
            /\ UNCHANGED writeIndex
       ELSE LET front == Len(data) + kPrependSize IN
            /\ buf' = [i \in 1 .. kPrependSize |-> 0] \o data
                        \o SubSeq(buf, readIndex + 1, writeIndex)
            /\ readIndex' = front - Len(data)
            /\ writeIndex' = front + Readable
    /\ result' = <<>> /\ UNCHANGED outside

-------------------------------------------------------------------------------
(* The two uses. *)

Fits(data) == writeIndex + Len(data) =< MaxIndex

InputNext ==
    \/ \E data \in Chunks : Fits(data) /\ (ReadFd(data) \/ Append_(data) \/ Prepend(data))
    \/ \E n \in 1 .. MaxChunk : Retrieve(n)
    \/ RetrieveAll

InputSpec == Init /\ [][InputNext]_vars

OutputNext ==
    \/ \E data \in Chunks : Fits(data) /\ Append_(data)
    \/ \E n \in 1 .. MaxIndex : WriteFd(n)

OutputSpec == Init /\ [][OutputNext]_vars

-------------------------------------------------------------------------------
(* Properties. *)

\* The type invariant.
TypeOK ==
    /\ buf \in Seq(Bytes \cup {0}) /\ outside \in BOOLEAN
    /\ readIndex \in Nat /\ writeIndex \in Nat /\ result \in Seq(Bytes \cup {0})

\* The three regions of the vector, prependable, readable and writable, are in
\* order and end where it ends, and no byte outside was touched.
RegionsInOrder ==
    readIndex =< writeIndex /\ writeIndex =< Len(buf) /\ ~outside

\* No byte is read or written beyond the end of the vector.
NoOverrun == ~outside

Queue == INSTANCE ByteQueue WITH bytes <- SubSeq(buf, readIndex + 1, writeIndex)

\* What is read out of the buffer is what was put in, in order: no growth, reset
\* or move of the data loses, repeats or reorders a byte.
ImplementsByteQueue == Queue!Spec
===============================================================================

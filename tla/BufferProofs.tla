----------------------------- MODULE BufferProofs ------------------------------
(***************************************************************************)
(* What the input buffer promises, for any bytes, any sizes and any order  *)
(* of the operations: its regions stay in order, nothing outside of the    *)
(* vector is touched, and it is a queue of bytes.                          *)
(***************************************************************************)
EXTENDS Buffer, SequenceTheorems, WellFoundedInduction, TLAPS

-------------------------------------------------------------------------------
(* The inductive invariant. *)

\* What keeps the regions in order: no difference of the indices wraps round, because the vector
\* is at most twice what it must hold, and an empty one is never doubled.
Sized == kPrependSize =< writeIndex /\ Len(buf) =< 3 * MaxIndex

IInv == TypeOK /\ RegionsInOrder /\ Sized

-------------------------------------------------------------------------------
(* Induction over the naturals, for sets in the place of predicates. *)

Less == {p \in Nat \X Nat : p[1] < p[2]}

LEMMA LeastNumber ==
    ASSUME NEW S \in SUBSET Nat, S # {}
    PROVE  \E m \in S : \A n \in S : m =< n
<1>1. IsWellFoundedOn(Less, Nat)
  BY NatLessThanWellFounded DEF OpToRel, Less
<1>2. PICK m \in S : \A n \in S : <<n, m>> \notin Less
  BY <1>1, WFMin
<1>3. \A n \in S : ~ (n < m)
  BY <1>2 DEF Less
<1> QED
  BY <1>3

LEMMA Induction ==
    ASSUME NEW S \in SUBSET Nat, 0 \in S, \A k \in S : k + 1 \in S
    PROVE  S = Nat
<1> SUFFICES ASSUME Nat \ S # {} PROVE FALSE
  OBVIOUS
<1>1. PICK m \in Nat \ S : \A n \in Nat \ S : m =< n
  BY LeastNumber
<1>2. m - 1 \in Nat /\ m - 1 \in S
  BY <1>1
<1> QED
  BY <1>1, <1>2

-------------------------------------------------------------------------------
(* The capacity that append() doubles. *)

Doubles(size, cap, n) ==
    size = [k \in 0 .. n |-> IF k = 0 THEN cap ELSE 2 * size[k - 1]]

LEMMA DoublingExists ==
    ASSUME NEW cap \in Nat, NEW n \in Nat
    PROVE  \E size : Doubles(size, cap, n)
<1> DEFINE S == {i \in Nat : \E size : Doubles(size, cap, i)}
<1>1. 0 \in S
  <2>1. Doubles([k \in 0 .. 0 |-> cap], cap, 0)
    BY DEF Doubles
  <2> QED
    BY <2>1
<1>2. ASSUME NEW i \in S PROVE i + 1 \in S
  <2>1. PICK size : Doubles(size, cap, i)
    OBVIOUS
  <2>2. PICK more : more = [k \in 0 .. i + 1 |-> IF k = 0 THEN cap ELSE 2 * size[k - 1]]
    OBVIOUS
  <2>3. \A k \in 0 .. i : more[k] = size[k]
    BY <2>1, <2>2 DEF Doubles
  <2>4. \A k \in 0 .. i + 1 : k # 0 => k - 1 \in 0 .. i
    OBVIOUS
  <2>5. more = [k \in 0 .. i + 1 |-> IF k = 0 THEN cap ELSE 2 * more[k - 1]]
    BY <2>2, <2>3, <2>4
  <2> QED
    BY <2>5 DEF Doubles
<1> HIDE DEF S
<1>3. S = Nat
  BY <1>1, <1>2, Induction DEF S
<1> QED
  BY <1>3 DEF S

LEMMA DoubledStep ==
    ASSUME NEW cap \in Nat, NEW n \in Nat
    PROVE  /\ Doubled(cap, n)[0] = cap
           /\ \A k \in 1 .. n : Doubled(cap, n)[k] = 2 * Doubled(cap, n)[k - 1]
<1>1. Doubles(Doubled(cap, n), cap, n)
  BY DoublingExists DEF Doubled, Doubles
<1>2. PICK size : size = Doubled(cap, n)
  OBVIOUS
<1>3. size = [k \in 0 .. n |-> IF k = 0 THEN cap ELSE 2 * size[k - 1]]
  BY <1>1, <1>2 DEF Doubles
<1>4. size[0] = cap /\ \A k \in 1 .. n : size[k] = 2 * size[k - 1]
  BY <1>3
<1> QED
  BY <1>2, <1>4

\* A capacity that is not zero grows with each doubling.
LEMMA DoubledGrows ==
    ASSUME NEW cap \in Nat \ {0}, NEW n \in Nat
    PROVE  \A k \in 0 .. n : Doubled(cap, n)[k] \in Nat /\ Doubled(cap, n)[k] >= cap + k
<1> DEFINE size == Doubled(cap, n)
<1> DEFINE S == {i \in Nat : i =< n => size[i] \in Nat /\ size[i] >= cap + i}
<1>1. size[0] = cap /\ \A k \in 1 .. n : size[k] = 2 * size[k - 1]
  BY DoubledStep
<1> HIDE DEF size
<1>2. 0 \in S
  BY <1>1
<1>3. ASSUME NEW i \in S PROVE i + 1 \in S
  <2> SUFFICES ASSUME i + 1 =< n PROVE size[i + 1] \in Nat /\ size[i + 1] >= cap + (i + 1)
    OBVIOUS
  <2>1. size[i + 1] = 2 * size[i] /\ size[i] \in Nat /\ size[i] >= cap + i
    BY <1>1
  <2> QED
    BY <2>1
<1> HIDE DEF S
<1>4. S = Nat
  BY <1>2, <1>3, Induction DEF S
<1> QED
  BY <1>4 DEF S, size

\* The loop ends with a capacity that holds need, and that was not enough before
\* its last doubling.
LEMMA GrownHolds ==
    ASSUME NEW cap \in Nat \ {0}, NEW need \in Nat
    PROVE  /\ Grown(cap, need) \in Nat /\ Grown(cap, need) >= need /\ Grown(cap, need) >= cap
           /\ Grown(cap, need) = cap \/ Grown(cap, need) < 2 * need
<1> DEFINE size == Doubled(cap, need)
<1> DEFINE S == {k \in 0 .. need : size[k] >= need}
<1>1. \A k \in 0 .. need : size[k] \in Nat /\ size[k] >= cap + k
  BY DoubledGrows
<1>2. size[0] = cap /\ \A k \in 1 .. need : size[k] = 2 * size[k - 1]
  BY DoubledStep
<1> HIDE DEF size
<1>3. need \in S /\ S \in SUBSET Nat
  BY <1>1
<1>4. PICK m \in S : \A k \in S : m =< k
  <2> HIDE DEF S
  <2> QED
    BY <1>3, LeastNumber
<1>5. m \in 0 .. need /\ size[m] >= need /\ \A i \in 0 .. m - 1 : size[i] < need
  <2>1. ASSUME NEW i \in 0 .. m - 1 PROVE size[i] < need
    <3>1. i \in 0 .. need /\ i \notin S
      BY <1>4
    <3> QED
      BY <1>1, <3>1
  <2> QED
    BY <1>4, <2>1
<1>6. PICK k \in 0 .. need : /\ size[k] >= need /\ \A i \in 0 .. k - 1 : size[i] < need
                             /\ Grown(cap, need) = size[k]
  BY <1>5 DEF Grown, size
<1>7. size[k] = cap \/ size[k] < 2 * need
  <2>1. CASE k = 0
    BY <1>2, <2>1
  <2>2. CASE k # 0
    <3>1. size[k] = 2 * size[k - 1] /\ k - 1 \in 0 .. k - 1 /\ k - 1 \in 0 .. need
      BY <1>2, <2>2
    <3>2. size[k - 1] < need /\ size[k - 1] \in Nat
      BY <1>1, <1>6, <3>1
    <3> QED
      BY <3>1, <3>2
  <2> QED
    BY <2>1, <2>2
<1> QED
  BY <1>1, <1>6, <1>7
-------------------------------------------------------------------------------
(* Bytes in a vector. *)

Byte == Bytes \cup {0}

LEMMA ChunkIsSeq ==
    ASSUME NEW data \in Chunks
    PROVE  data \in Seq(Byte) /\ Len(data) \in 1 .. MaxChunk /\ DOMAIN data = 1 .. Len(data)
<1>1. PICK n \in 1 .. MaxChunk : data \in [1 .. n -> Bytes]
  BY DEF Chunks
<1>2. n \in Nat
  BY SizesAssumption
<1>3. data \in Seq(Byte)
  BY <1>1, <1>2 DEF Byte
<1> QED
  BY <1>1, <1>2, <1>3

LEMMA ResizedIs ==
    ASSUME NEW b \in Seq(Byte), NEW n \in Nat
    PROVE  /\ Resized(b, n) \in Seq(Byte) /\ Len(Resized(b, n)) = n
           /\ \A i \in 1 .. n : Resized(b, n)[i] = IF i =< Len(b) THEN b[i] ELSE 0
<1>1. Resized(b, n) \in [1 .. n -> Byte]
  <2>1. ASSUME NEW i \in 1 .. n PROVE (IF i =< Len(b) THEN b[i] ELSE 0) \in Byte
    BY DEF Byte
  <2> QED
    BY <2>1 DEF Resized
<1>2. \A i \in 1 .. n : Resized(b, n)[i] = IF i =< Len(b) THEN b[i] ELSE 0
  BY DEF Resized
<1>3. Resized(b, n) \in Seq(Byte) /\ Len(Resized(b, n)) = n
  BY <1>1
<1> QED
  BY <1>2, <1>3

LEMMA WrittenIs ==
    ASSUME NEW b \in Seq(Byte), NEW i \in Nat, NEW data \in Seq(Byte)
    PROVE  /\ Written(b, i, data) \in Seq(Byte) /\ Len(Written(b, i, data)) = Len(b)
           /\ \A k \in 1 .. Len(b) : Written(b, i, data)[k] =
                  IF k - i \in 1 .. Len(data) THEN data[k - i] ELSE b[k]
<1>1. DOMAIN data = 1 .. Len(data) /\ Len(b) \in Nat
  OBVIOUS
<1>2. Written(b, i, data) =
        [k \in 1 .. Len(b) |-> IF k - i \in 1 .. Len(data) THEN data[k - i] ELSE b[k]]
  BY <1>1 DEF Written
<1>3. \A k \in 1 .. Len(b) : (IF k - i \in 1 .. Len(data) THEN data[k - i] ELSE b[k]) \in Byte
  OBVIOUS
<1>4. Written(b, i, data) \in [1 .. Len(b) -> Byte]
  BY <1>2, <1>3
<1>5. Written(b, i, data) \in Seq(Byte) /\ Len(Written(b, i, data)) = Len(b)
  BY <1>1, <1>4
<1> QED
  BY <1>2, <1>5

\* The bytes between two indices that lie in the vector.
LEMMA SliceIs ==
    ASSUME NEW b \in Seq(Byte), NEW r \in Nat, NEW w \in Nat, r =< w, w =< Len(b)
    PROVE  /\ SubSeq(b, r + 1, w) \in Seq(Byte) /\ Len(SubSeq(b, r + 1, w)) = w - r
           /\ \A i \in 1 .. w - r : SubSeq(b, r + 1, w)[i] = b[r + i]
<1>1. \A i \in r + 1 .. w : b[i] \in Byte
  OBVIOUS
<1>2. /\ SubSeq(b, r + 1, w) \in Seq(Byte)
      /\ Len(SubSeq(b, r + 1, w)) = IF r + 1 =< w THEN w - (r + 1) + 1 ELSE 0
      /\ \A i \in 1 .. w - (r + 1) + 1 : SubSeq(b, r + 1, w)[i] = b[(r + 1) + i - 1]
  BY <1>1, SubSeqProperties
<1>3. \A i \in 1 .. w - r : (r + 1) + i - 1 = r + i
  OBVIOUS
<1> QED
  BY <1>2, <1>3
\* A difference that is not negative and less than a whole size_t is itself.
LEMMA RemainderSmall ==
    ASSUME NEW n \in Nat, n =< 3 * MaxIndex
    PROVE  SizeT(n) = n
<1>1. \A m \in Int : n < m => n % m = n
  OBVIOUS
<1>2. MaxIndex \in Nat /\ kPrependSize \in Nat \ {0} /\ kPrependSize =< MaxIndex
      /\ MaxIndex * 4 < 2 ^ Width /\ 2 ^ Width \in Int
  BY SizesAssumption
<1> QED
  BY <1>1, <1>2 DEF SizeT

\* Two pieces that stand one behind the other in a vector.
LEMMA Joined ==
    ASSUME NEW new \in Seq(Byte), NEW r \in Nat, NEW s \in Seq(Byte), NEW t \in Seq(Byte),
           r + Len(s) + Len(t) =< Len(new),
           \A k \in 1 .. Len(s) : new[r + k] = s[k],
           \A k \in 1 .. Len(t) : new[r + Len(s) + k] = t[k]
    PROVE  SubSeq(new, r + 1, r + Len(s) + Len(t)) = s \o t
<1> DEFINE all == SubSeq(new, r + 1, r + Len(s) + Len(t))
           u   == s \o t
<1>1. /\ Len(s) \in Nat /\ Len(t) \in Nat /\ r + Len(s) + Len(t) \in Nat
      /\ r =< r + Len(s) + Len(t) /\ (r + Len(s) + Len(t)) - r = Len(s) + Len(t)
  OBVIOUS
<1>2. /\ all \in Seq(Byte) /\ Len(all) = Len(s) + Len(t)
      /\ \A i \in 1 .. Len(s) + Len(t) : all[i] = new[r + i]
  BY <1>1, SliceIs
<1>3. /\ u \in Seq(Byte) /\ Len(u) = Len(s) + Len(t)
      /\ \A i \in 1 .. Len(s) + Len(t) : u[i] = IF i <= Len(s) THEN s[i] ELSE t[i - Len(s)]
  BY ONLY s \in Seq(Byte), t \in Seq(Byte), ConcatProperties
<1> HIDE DEF all, u
<1>4. ASSUME NEW i \in 1 .. Len(s) + Len(t) PROVE all[i] = u[i]
  <2>0. i \in Int /\ all[i] = new[r + i]
    BY <1>1, <1>2
  <2>1. CASE i =< Len(s)
    <3>1. i \in 1 .. Len(s)
      BY <1>1, <2>1
    <3> QED
      BY <1>3, <2>0, <2>1, <3>1
  <2>2. CASE ~ (i =< Len(s))
    <3>1. i - Len(s) \in 1 .. Len(t) /\ r + Len(s) + (i - Len(s)) = r + i
      BY <1>1, <2>0, <2>2
    <3>2. u[i] = t[i - Len(s)]
      BY <1>3, <2>2
    <3> QED
      BY <2>0, <3>1, <3>2
  <2> QED
    BY <2>1, <2>2
<1>5. all = u
  BY <1>2, <1>3, <1>4, SeqEqual
<1> QED
  BY <1>5 DEF all, u

\* A piece of a piece.
LEMMA SliceOfSlice ==
    ASSUME NEW b \in Seq(Byte), NEW r \in Nat, NEW w \in Nat, r =< w, w =< Len(b),
           NEW i \in Nat, NEW j \in Nat, i =< j, j =< w - r
    PROVE  SubSeq(SubSeq(b, r + 1, w), i + 1, j) = SubSeq(b, (r + i) + 1, r + j)
<1> DEFINE s == SubSeq(b, r + 1, w)
           x == SubSeq(s, i + 1, j)
           y == SubSeq(b, (r + i) + 1, r + j)
<1>1. s \in Seq(Byte) /\ Len(s) = w - r /\ \A k \in 1 .. w - r : s[k] = b[r + k]
  BY SliceIs
<1> HIDE DEF s
<1>2. x \in Seq(Byte) /\ Len(x) = j - i /\ \A k \in 1 .. j - i : x[k] = s[i + k]
  BY <1>1, SliceIs
<1>3. /\ y \in Seq(Byte) /\ Len(y) = (r + j) - (r + i)
      /\ \A k \in 1 .. (r + j) - (r + i) : y[k] = b[(r + i) + k]
  <2>1. r + i \in Nat /\ r + j \in Nat /\ r + i =< r + j /\ r + j =< Len(b)
    OBVIOUS
  <2> QED
    BY <2>1, SliceIs
<1> HIDE DEF x, y
<1>4. (r + j) - (r + i) = j - i
  OBVIOUS
<1>5. ASSUME NEW k \in 1 .. j - i PROVE x[k] = y[k]
  <2>1. i + k \in 1 .. w - r /\ r + (i + k) = (r + i) + k
    OBVIOUS
  <2> QED
    BY <1>1, <1>2, <1>3, <1>4, <2>1
<1>6. x = y
  BY <1>2, <1>3, <1>4, <1>5, SeqEqual
<1> QED
  BY <1>6 DEF s, x, y

\* What append() leaves in the vector, which may have been enlarged for it.
LEMMA AppendedIs ==
    ASSUME NEW b \in Seq(Byte), Len(b) >= 1, Len(b) =< 3 * MaxIndex,
           NEW w \in Nat, w =< Len(b), NEW data \in Seq(Byte), w + Len(data) =< MaxIndex
    PROVE  LET room == WithRoom(b, w, Len(data))
               new  == Written(room, w, data)
           IN  /\ new \in Seq(Byte) /\ Len(new) = Len(room)
               /\ w + Len(data) =< Len(new) /\ Len(b) =< Len(new) /\ Len(new) =< 3 * MaxIndex
               /\ \A k \in 1 .. w : new[k] = b[k]
               /\ \A k \in 1 .. Len(data) : new[w + k] = data[k]
<1> DEFINE room == WithRoom(b, w, Len(data))
           new  == Written(room, w, data)
<1>0. Len(b) \in Nat /\ Len(data) \in Nat /\ MaxIndex \in Nat
  BY SizesAssumption
<1>1. SizeT(Len(b) - w) = Len(b) - w
  BY <1>0, RemainderSmall
<1>2. /\ room \in Seq(Byte) /\ w + Len(data) =< Len(room) /\ Len(b) =< Len(room)
      /\ Len(room) =< 3 * MaxIndex /\ \A k \in 1 .. Len(b) : room[k] = b[k]
  <2>1. CASE Len(data) > Len(b) - w
    <3> DEFINE cap == Grown(Len(b), w + Len(data))
    <3>1. /\ cap \in Nat /\ cap >= w + Len(data) /\ cap >= Len(b)
          /\ cap = Len(b) \/ cap < 2 * (w + Len(data))
      BY <1>0, GrownHolds
    <3>2. room = Resized(b, cap)
      BY <1>1, <2>1 DEF WithRoom
    <3> HIDE DEF cap
    <3>3. /\ room \in Seq(Byte) /\ Len(room) = cap
          /\ \A i \in 1 .. cap : room[i] = IF i =< Len(b) THEN b[i] ELSE 0
      BY <3>1, <3>2, ResizedIs
    <3>4. \A k \in 1 .. Len(b) : k \in 1 .. cap /\ k =< Len(b)
      BY <1>0, <3>1
    <3> HIDE DEF room
    <3>5. \A k \in 1 .. Len(b) : room[k] = b[k]
      BY <3>3, <3>4
    <3>6. cap =< 3 * MaxIndex
      BY <1>0, <3>1
    <3> QED
      BY <3>1, <3>3, <3>5, <3>6
  <2>2. CASE ~ (Len(data) > Len(b) - w)
    <3>1. room = b
      BY <1>1, <2>2 DEF WithRoom
    <3> HIDE DEF room
    <3> QED
      BY <1>0, <2>2, <3>1
  <2> QED
    BY <2>1, <2>2
<1> HIDE DEF room
<1>3. /\ new \in Seq(Byte) /\ Len(new) = Len(room)
      /\ \A k \in 1 .. Len(room) : new[k] =
            IF k - w \in 1 .. Len(data) THEN data[k - w] ELSE room[k]
  BY <1>2, WrittenIs
<1> HIDE DEF new
<1>4. ASSUME NEW k \in 1 .. w PROVE new[k] = b[k]
  <2>1. k \in 1 .. Len(b) /\ k \in 1 .. Len(room) /\ k - w \notin 1 .. Len(data)
    BY <1>0, <1>2
  <2> QED
    BY <1>2, <1>3, <2>1
<1>5. ASSUME NEW k \in 1 .. Len(data) PROVE new[w + k] = data[k]
  <2>1. w + k \in 1 .. Len(room) /\ (w + k) - w = k
    BY <1>0, <1>2
  <2> QED
    BY <1>3, <2>1
<1> QED
  BY <1>2, <1>3, <1>4, <1>5 DEF new, room
-------------------------------------------------------------------------------
(* The steps: each keeps the invariant and is one of the queue's. *)

Content == SubSeq(buf, readIndex + 1, writeIndex)

LEMMA InitInv == Init => IInv /\ Queue!Init
<1> SUFFICES ASSUME Init PROVE IInv /\ Queue!Init
  OBVIOUS
<1>1. kPrependSize \in Nat \ {0} /\ MaxIndex \in Nat /\ kPrependSize =< MaxIndex
  BY SizesAssumption
<1>2. buf \in Seq(Byte) /\ Len(buf) = kPrependSize
  <2>1. buf \in [1 .. kPrependSize -> Byte]
    BY DEF Init, Byte
  <2> QED
    BY <1>1, <2>1
<1>3. result = <<>> /\ <<>> \in Seq(Byte)
  BY DEF Init
<1>4. readIndex = kPrependSize /\ writeIndex = kPrependSize /\ outside = FALSE
  BY DEF Init
<1>5. IInv
  <2>1. TypeOK
    BY <1>1, <1>2, <1>3, <1>4 DEF TypeOK, Byte
  <2>2. RegionsInOrder
    BY <1>1, <1>2, <1>4 DEF RegionsInOrder
  <2>3. Sized
    BY <1>1, <1>2, <1>4 DEF Sized
  <2> QED
    BY <2>1, <2>2, <2>3 DEF IInv
<1>6. SubSeq(buf, readIndex + 1, writeIndex) = <<>>
  BY <1>1, <1>4, SubSeqEmpty
<1> QED
  BY <1>3, <1>5, <1>6 DEF Queue!Init

\* The regions and their sizes, in numbers.
LEMMA Regions ==
    ASSUME IInv
    PROVE  /\ buf \in Seq(Byte) /\ Len(buf) \in Nat /\ readIndex \in Nat /\ writeIndex \in Nat
           /\ readIndex =< writeIndex /\ writeIndex =< Len(buf) /\ outside = FALSE
           /\ kPrependSize =< writeIndex /\ Len(buf) >= 1 /\ Len(buf) =< 3 * MaxIndex
           /\ kPrependSize \in Nat \ {0} /\ MaxIndex \in Nat /\ kPrependSize =< MaxIndex
           /\ Readable = writeIndex - readIndex /\ Writable = Len(buf) - writeIndex
           /\ Content \in Seq(Byte) /\ Len(Content) = writeIndex - readIndex
           /\ \A i \in 1 .. writeIndex - readIndex : Content[i] = buf[readIndex + i]
<1>1. /\ buf \in Seq(Byte) /\ Len(buf) \in Nat /\ readIndex \in Nat /\ writeIndex \in Nat
      /\ readIndex =< writeIndex /\ writeIndex =< Len(buf) /\ outside = FALSE
      /\ kPrependSize =< writeIndex /\ Len(buf) =< 3 * MaxIndex
  BY DEF IInv, TypeOK, RegionsInOrder, Sized, Byte
<1>2. kPrependSize \in Nat \ {0} /\ MaxIndex \in Nat /\ kPrependSize =< MaxIndex
  BY SizesAssumption
<1>3. Readable = writeIndex - readIndex /\ Writable = Len(buf) - writeIndex
  <2>1. /\ writeIndex - readIndex \in Nat /\ writeIndex - readIndex =< 3 * MaxIndex
        /\ Len(buf) - writeIndex \in Nat /\ Len(buf) - writeIndex =< 3 * MaxIndex
    BY <1>1, <1>2
  <2> QED
    BY <2>1, RemainderSmall DEF Readable, Writable
<1>4. /\ Content \in Seq(Byte) /\ Len(Content) = writeIndex - readIndex
      /\ \A i \in 1 .. writeIndex - readIndex : Content[i] = buf[readIndex + i]
  BY <1>1, SliceIs DEF Content
<1>5. Len(buf) >= 1
  BY <1>1, <1>2
<1> QED
  BY <1>1, <1>2, <1>3, <1>4, <1>5

LEMMA Numbers ==
    ASSUME IInv
    PROVE  /\ Len(buf) \in Nat /\ readIndex \in Nat /\ writeIndex \in Nat
           /\ readIndex =< writeIndex /\ writeIndex =< Len(buf)
           /\ kPrependSize =< writeIndex /\ Len(buf) >= 1 /\ Len(buf) =< 3 * MaxIndex
           /\ kPrependSize \in Nat \ {0} /\ MaxIndex \in Nat /\ kPrependSize =< MaxIndex
           /\ Readable = writeIndex - readIndex /\ Writable = Len(buf) - writeIndex
           /\ Len(Content) = writeIndex - readIndex
  BY Regions

\* What a step leaves of the invariant, when it touches nothing outside.
LEMMA InvOf ==
    ASSUME buf' \in Seq(Byte), result' \in Seq(Byte),
           readIndex' \in Nat, writeIndex' \in Nat, outside' = FALSE,
           readIndex' =< writeIndex', writeIndex' =< Len(buf'),
           kPrependSize =< writeIndex', Len(buf') =< 3 * MaxIndex
    PROVE  IInv'
  BY DEF IInv, TypeOK, RegionsInOrder, Sized, Byte

\* A byte at the end is not outside.
LEMMA Inside ==
    ASSUME IInv, NEW a \in Int, NEW b \in Int, a =< b, outside' = (outside \/ a > b)
    PROVE  outside' = FALSE
<1>1. ~ (a > b)
  OBVIOUS
<1>2. outside = FALSE
  BY Regions
<1> QED
  BY <1>1, <1>2, Zenon

\* A chunk that is written behind the readable bytes.
LEMMA PutStep ==
    ASSUME IInv, NEW data \in Chunks, buf' \in Seq(Byte),
           readIndex' = readIndex, writeIndex' = writeIndex + Len(data),
           result' = <<>>, outside' = FALSE,
           writeIndex + Len(data) =< Len(buf'), Len(buf') =< 3 * MaxIndex,
           \A k \in 1 .. writeIndex : buf'[k] = buf[k],
           \A k \in 1 .. Len(data) : buf'[writeIndex + k] = data[k]
    PROVE  IInv' /\ Queue!Put
<1>1. data \in Seq(Byte) /\ Len(data) \in Nat
  BY ChunkIsSeq
<1>2. IInv'
  <2>1. result' \in Seq(Byte)
    OBVIOUS
  <2>2. /\ readIndex' \in Nat /\ writeIndex' \in Nat /\ readIndex' =< writeIndex'
        /\ writeIndex' =< Len(buf') /\ kPrependSize =< writeIndex'
    BY <1>1, Regions
  <2> QED
    BY <2>1, <2>2, InvOf
<1>3. SubSeq(buf', readIndex' + 1, writeIndex') = Content \o data
  <2>1. readIndex + Len(Content) = writeIndex /\ readIndex + Len(Content) + Len(data) = writeIndex'
    BY <1>1, Regions
  <2>2. ASSUME NEW k \in 1 .. Len(Content) PROVE buf'[readIndex + k] = Content[k]
    <3>1. /\ readIndex \in Nat /\ writeIndex \in Nat /\ readIndex =< writeIndex
          /\ k \in 1 .. writeIndex - readIndex
      BY Numbers
    <3>2. readIndex + k \in 1 .. writeIndex
      BY ONLY <3>1
    <3> QED
      BY <3>1, <3>2, Regions
  <2>3. ASSUME NEW k \in 1 .. Len(data) PROVE buf'[readIndex + Len(Content) + k] = data[k]
    BY <2>1
  <2>4. SubSeq(buf', readIndex + 1, readIndex + Len(Content) + Len(data)) = Content \o data
    <3>1. readIndex + Len(Content) + Len(data) =< Len(buf') /\ readIndex \in Nat
          /\ Content \in Seq(Byte) /\ buf' \in Seq(Byte)
      BY <2>1, Regions
    <3> QED
      BY ONLY <1>1, <2>2, <2>3, <3>1, Joined
  <2> QED
    BY <2>1, <2>4
<1> QED
  BY <1>2, <1>3 DEF Queue!Put, Content

\* append().
LEMMA AppendStep ==
    ASSUME IInv, NEW data \in Chunks, Fits(data), Append_(data)
    PROVE  IInv' /\ Queue!Put
<1>1. data \in Seq(Byte) /\ Len(data) \in Nat /\ writeIndex + Len(data) =< MaxIndex
  BY ChunkIsSeq DEF Fits
<1> DEFINE room == WithRoom(buf, writeIndex, Len(data))
           new  == Written(room, writeIndex, data)
<1>2. /\ new \in Seq(Byte) /\ Len(new) = Len(room)
      /\ writeIndex + Len(data) =< Len(new) /\ Len(buf) =< Len(new) /\ Len(new) =< 3 * MaxIndex
      /\ \A k \in 1 .. writeIndex : new[k] = buf[k]
      /\ \A k \in 1 .. Len(data) : new[writeIndex + k] = data[k]
  BY <1>1, Regions, AppendedIs
<1>3. /\ buf' = new /\ writeIndex' = writeIndex + Len(data) /\ result' = <<>>
      /\ outside' = (outside \/ writeIndex + Len(data) > Len(room))
      /\ readIndex' = readIndex
  BY DEF Append_, AppendAt
<1> HIDE DEF new, room
<1>4. outside' = FALSE
  <2>1. writeIndex + Len(data) \in Int /\ Len(room) \in Int /\ writeIndex + Len(data) =< Len(room)
    BY <1>1, <1>2, Regions
  <2> QED
    BY <1>3, <2>1, Inside
<1> QED
  BY <1>2, <1>3, <1>4, PutStep

\* readFd(): what does not fit is appended to the full vector.
LEMMA ReadFdStep ==
    ASSUME IInv, NEW data \in Chunks, Fits(data), ReadFd(data)
    PROVE  IInv' /\ Queue!Put
<1>1. data \in Seq(Byte) /\ Len(data) \in Nat /\ writeIndex + Len(data) =< MaxIndex
  BY ChunkIsSeq DEF Fits
<1> DEFINE full == Written(buf, writeIndex, data)
<1>2. /\ full \in Seq(Byte) /\ Len(full) = Len(buf)
      /\ \A k \in 1 .. Len(buf) : full[k] =
            IF k - writeIndex \in 1 .. Len(data) THEN data[k - writeIndex] ELSE buf[k]
  BY <1>1, Regions, WrittenIs
<1>3. readIndex' = readIndex
  BY DEF ReadFd
<1>4. \A k \in 1 .. writeIndex : full[k] = buf[k]
  <2>1. ASSUME NEW k \in 1 .. writeIndex
        PROVE  k \in 1 .. Len(buf) /\ k - writeIndex \notin 1 .. Len(data)
    BY <1>1, Regions
  <2> QED
    BY <1>2, <2>1
<1>5. CASE Len(data) =< Writable
  <2>1. /\ buf' = full /\ writeIndex' = writeIndex + Len(data) /\ result' = <<>>
        /\ outside' = (outside \/ writeIndex + Len(data) > Len(buf))
    BY <1>5 DEF ReadFd
  <2> HIDE DEF full
  <2>2. writeIndex + Len(data) =< Len(buf)
    BY <1>1, <1>5, Regions
  <2>3. outside' = FALSE
    <3>1. writeIndex + Len(data) \in Int /\ Len(buf) \in Int
      BY <1>1, Regions
    <3> QED
      BY <2>1, <2>2, <3>1, Inside
  <2>4. ASSUME NEW k \in 1 .. Len(data) PROVE full[writeIndex + k] = data[k]
    <3>1. writeIndex + k \in 1 .. Len(buf) /\ (writeIndex + k) - writeIndex = k
      BY <1>1, <2>2, Regions
    <3> QED
      BY <1>2, <3>1
  <2> QED
    BY <1>2, <1>3, <1>4, <2>1, <2>2, <2>3, <2>4, Regions, PutStep
<1>6. CASE ~ (Len(data) =< Writable)
  <2> DEFINE rest == SubSeq(data, Writable + 1, Len(data))
             room == WithRoom(full, Len(buf), Len(rest))
             new  == Written(room, Len(buf), rest)
  <2>1. /\ buf' = new /\ writeIndex' = Len(buf) + Len(rest) /\ result' = <<>>
        /\ outside' = (outside \/ Len(buf) + Len(rest) > Len(room))
    BY <1>6 DEF ReadFd, AppendAt
  <2>2. /\ rest \in Seq(Byte) /\ Len(rest) = Len(data) - Writable
        /\ \A i \in 1 .. Len(data) - Writable : rest[i] = data[Writable + i]
    <3>1. Writable \in Nat /\ Writable =< Len(data)
      BY <1>1, <1>6, Regions
    <3> QED
      BY <1>1, <3>1, SliceIs
  <2> HIDE DEF full, rest
  <2>3. Len(buf) + Len(rest) = writeIndex + Len(data)
    BY <1>1, <2>2, Regions
  <2>4. /\ new \in Seq(Byte) /\ Len(new) = Len(room)
        /\ Len(buf) + Len(rest) =< Len(new) /\ Len(new) =< 3 * MaxIndex
        /\ \A k \in 1 .. Len(buf) : new[k] = full[k]
        /\ \A k \in 1 .. Len(rest) : new[Len(buf) + k] = rest[k]
    <3>1. /\ full \in Seq(Byte) /\ Len(full) >= 1 /\ Len(full) =< 3 * MaxIndex
          /\ Len(buf) \in Nat /\ Len(buf) =< Len(full) /\ rest \in Seq(Byte)
          /\ Len(buf) + Len(rest) =< MaxIndex
      BY <1>1, <1>2, <2>2, <2>3, Regions
    <3> QED
      BY ONLY <3>1, AppendedIs
  <2> HIDE DEF new, room
  <2>5. outside' = FALSE
    <3>1. Len(buf) + Len(rest) \in Int /\ Len(room) \in Int /\ Len(buf) + Len(rest) =< Len(room)
      BY <2>2, <2>4, Regions
    <3> QED
      BY <2>1, <3>1, Inside
  <2>6. ASSUME NEW k \in 1 .. Len(data) PROVE new[writeIndex + k] = data[k]
    <3>0. k \in Int
      OBVIOUS
    <3>1. CASE k =< Writable
      <4>1. writeIndex + k \in 1 .. Len(buf) /\ (writeIndex + k) - writeIndex = k
        BY <1>1, <3>1, Regions
      <4> QED
        BY <1>2, <2>4, <4>1
    <3>2. CASE ~ (k =< Writable)
      <4>1. k - Writable \in 1 .. Len(data) - Writable /\ Writable + (k - Writable) = k
            /\ Len(buf) + (k - Writable) = writeIndex + k
        <5>1. /\ Len(buf) \in Nat /\ writeIndex \in Nat /\ writeIndex =< Len(buf)
              /\ Writable = Len(buf) - writeIndex /\ Len(data) \in Nat
          BY <1>1, Numbers
        <5> QED
          BY ONLY <3>0, <3>2, <5>1, k \in 1 .. Len(data)
      <4> QED
        BY <2>2, <2>4, <4>1
    <3> QED
      BY <3>1, <3>2
  <2>7. \A k \in 1 .. writeIndex : new[k] = buf[k]
    <3>1. ASSUME NEW k \in 1 .. writeIndex PROVE k \in 1 .. Len(buf)
      BY Regions
    <3> QED
      BY <1>4, <2>4, <3>1
  <2> QED
    BY <1>3, <2>1, <2>3, <2>4, <2>5, <2>6, <2>7, PutStep
<1> QED
  BY <1>5, <1>6
\* Bytes are taken from the front, wherever the others are afterwards.
LEMMA TakeStep ==
    ASSUME IInv, NEW n \in 0 .. writeIndex - readIndex,
           result' = SubSeq(buf, readIndex + 1, readIndex + n),
           SubSeq(buf', readIndex' + 1, writeIndex') = SubSeq(buf, (readIndex + n) + 1, writeIndex)
    PROVE  result' \in Seq(Byte) /\ Queue!Take
<1>1. n \in Nat /\ readIndex + n \in Nat /\ readIndex + n =< writeIndex /\ readIndex =< readIndex + n
      /\ readIndex + n =< Len(buf)
  BY Numbers
<1>2. result' \in Seq(Byte)
  BY <1>1, Regions, SliceIs
<1>3. SubSeq(Content, 1, n) = result'
  <2>1. SubSeq(Content, 0 + 1, n) = SubSeq(buf, (readIndex + 0) + 1, readIndex + n)
    <3>1. /\ 0 \in Nat /\ 0 =< n /\ n =< writeIndex - readIndex /\ buf \in Seq(Byte)
          /\ readIndex \in Nat /\ writeIndex \in Nat /\ readIndex =< writeIndex
          /\ writeIndex =< Len(buf)
      BY <1>1, Numbers, Regions
    <3> QED
      BY ONLY <1>1, <3>1, SliceOfSlice DEF Content
  <2>2. readIndex + 0 = readIndex /\ 0 + 1 = 1
    BY Regions
  <2> QED
    BY <2>1, <2>2
<1>4. SubSeq(Content, n + 1, Len(Content)) = SubSeq(buf', readIndex' + 1, writeIndex')
  <2>1. /\ writeIndex - readIndex \in Nat /\ n =< writeIndex - readIndex
        /\ readIndex + (writeIndex - readIndex) = writeIndex /\ Len(Content) = writeIndex - readIndex
    BY <1>1, Regions
  <2>2. SubSeq(Content, n + 1, writeIndex - readIndex) =
          SubSeq(buf, (readIndex + n) + 1, readIndex + (writeIndex - readIndex))
    <3>1. /\ buf \in Seq(Byte) /\ readIndex \in Nat /\ writeIndex \in Nat
          /\ readIndex =< writeIndex /\ writeIndex =< Len(buf)
          /\ writeIndex - readIndex =< writeIndex - readIndex
      BY <2>1, Numbers, Regions
    <3> QED
      BY ONLY <1>1, <2>1, <3>1, SliceOfSlice DEF Content
  <2> QED
    BY <2>1, <2>2
<1>5. n \in 0 .. Len(Content)
  BY Regions
<1>6. result' = SubSeq(Content, 1, n) /\ Content' = SubSeq(Content, n + 1, Len(Content))
  BY <1>3, <1>4 DEF Content
<1> QED
  BY <1>2, <1>5, <1>6 DEF Queue!Take, Content

\* retrieve(): the indices go back to the front when the last byte is taken.
LEMMA RetrieveStep ==
    ASSUME IInv, NEW n \in Nat, Retrieve(n)
    PROVE  IInv' /\ Queue!Take
<1>1. PICK len : len = IF n > Readable THEN Readable ELSE n
  OBVIOUS
<1>2. /\ n > 0 /\ Readable > 0 /\ result' = SubSeq(buf, readIndex + 1, readIndex + len)
      /\ IF readIndex + len = writeIndex
         THEN readIndex' = kPrependSize /\ writeIndex' = kPrependSize
         ELSE readIndex' = readIndex + len /\ writeIndex' = writeIndex
      /\ buf' = buf /\ outside' = outside
  BY <1>1 DEF Retrieve
<1>3. len \in 0 .. writeIndex - readIndex
  BY <1>1, <1>2, Regions
<1>4. SubSeq(buf', readIndex' + 1, writeIndex') = SubSeq(buf, (readIndex + len) + 1, writeIndex)
  <2>1. CASE readIndex + len = writeIndex
    <3>1. SubSeq(buf', kPrependSize + 1, kPrependSize) = <<>>
      BY Regions, SubSeqEmpty
    <3>2. SubSeq(buf, writeIndex + 1, writeIndex) = <<>>
      BY Regions, SubSeqEmpty
    <3> QED
      BY <1>2, <2>1, <3>1, <3>2
  <2>2. CASE readIndex + len # writeIndex
    BY <1>2, <2>2
  <2> QED
    BY <2>1, <2>2
<1>5. result' \in Seq(Byte) /\ Queue!Take
  BY <1>2, <1>3, <1>4, TakeStep
<1>6. outside' = FALSE
  BY <1>2, Regions
<1>7. /\ readIndex' \in Nat /\ writeIndex' \in Nat /\ readIndex' =< writeIndex'
      /\ writeIndex' =< Len(buf') /\ kPrependSize =< writeIndex'
  <2>1. /\ IF readIndex + len = writeIndex
           THEN readIndex' = kPrependSize /\ writeIndex' = kPrependSize
           ELSE readIndex' = readIndex + len /\ writeIndex' = writeIndex
        /\ Len(buf') = Len(buf)
    BY <1>2
  <2> QED
    BY ONLY IInv, <1>3, <2>1, Numbers
<1> QED
  BY <1>2, <1>5, <1>6, <1>7, Regions, InvOf

\* retrieveAll().
LEMMA RetrieveAllStep ==
    ASSUME IInv, RetrieveAll
    PROVE  IInv' /\ Queue!Take
<1>1. /\ result' = SubSeq(buf, readIndex + 1, writeIndex)
      /\ readIndex' = kPrependSize /\ writeIndex' = kPrependSize
      /\ buf' = Resized(buf, kPrependSize) /\ outside' = outside
  BY DEF RetrieveAll
<1>2. buf' \in Seq(Byte) /\ Len(buf') = kPrependSize
  BY <1>1, Regions, ResizedIs
<1> DEFINE n == writeIndex - readIndex
<1>3. n \in 0 .. writeIndex - readIndex /\ readIndex + n = writeIndex
  BY Regions
<1>4. SubSeq(buf', readIndex' + 1, writeIndex') = SubSeq(buf, (readIndex + n) + 1, writeIndex)
  <2>1. SubSeq(buf', kPrependSize + 1, kPrependSize) = <<>>
    BY Regions, SubSeqEmpty
  <2>2. SubSeq(buf, writeIndex + 1, writeIndex) = <<>>
    BY Regions, SubSeqEmpty
  <2> QED
    BY <1>1, <1>3, <2>1, <2>2
<1> HIDE DEF n
<1>5. result' \in Seq(Byte) /\ Queue!Take
  BY <1>1, <1>3, <1>4, TakeStep
<1>6. outside' = FALSE
  BY <1>1, Regions
<1>7. /\ readIndex' \in Nat /\ writeIndex' \in Nat /\ readIndex' =< writeIndex'
      /\ writeIndex' =< Len(buf') /\ kPrependSize =< writeIndex' /\ Len(buf') =< 3 * MaxIndex
  BY <1>1, <1>2, Numbers
<1> QED
  BY ONLY <1>2, <1>5, <1>6, <1>7, InvOf

\* prepend(): into the region in front, or with everything to a new vector.
LEMMA PrependStep ==
    ASSUME IInv, NEW data \in Chunks, Fits(data), Prepend(data)
    PROVE  IInv' /\ Queue!Unput
<1>1. data \in Seq(Byte) /\ Len(data) \in Nat /\ writeIndex + Len(data) =< MaxIndex
  BY ChunkIsSeq DEF Fits
<1>4. Len(data) \in Nat /\ writeIndex + Len(data) =< MaxIndex
  BY <1>1
<1>5. /\ Len(buf) \in Nat /\ readIndex \in Nat /\ writeIndex \in Nat
      /\ readIndex =< writeIndex /\ writeIndex =< Len(buf)
      /\ kPrependSize \in Nat \ {0} /\ MaxIndex \in Nat /\ kPrependSize =< MaxIndex
      /\ Readable = writeIndex - readIndex /\ Len(Content) = writeIndex - readIndex
  BY Numbers
<1>2. result' = <<>> /\ result' \in Seq(Byte) /\ outside' = FALSE
  <2>1. result' = <<>> /\ outside' = outside
    BY DEF Prepend
  <2> QED
    BY <2>1, Regions
<1>3. IInv' /\ SubSeq(buf', readIndex' + 1, writeIndex') = data \o Content
  <2>1. CASE Len(data) =< readIndex
    <3>1. PICK front : front = readIndex'
      OBVIOUS
    <3>2. front = readIndex - Len(data) /\ buf' = Written(buf, front, data) /\ writeIndex' = writeIndex
      BY <2>1, <3>1 DEF Prepend
    <3>3. /\ front \in Nat /\ front + Len(data) = readIndex /\ front =< writeIndex
          /\ front + Len(data) + Len(Content) = writeIndex
      <4>1. front = readIndex - Len(data) /\ Len(data) =< readIndex
        BY <2>1, <3>2
      <4> QED
        BY ONLY <1>4, <1>5, <4>1
    <3>4. /\ buf' \in Seq(Byte) /\ Len(buf') = Len(buf)
          /\ \A k \in 1 .. Len(buf) :
                buf'[k] = IF k - front \in 1 .. Len(data) THEN data[k - front] ELSE buf[k]
      <4>1. data \in Seq(Byte) /\ front \in Nat /\ buf' = Written(buf, front, data) /\ buf \in Seq(Byte)
        BY <1>1, <3>2, <3>3, Regions
      <4> QED
        BY ONLY <4>1, WrittenIs
    <3>5. ASSUME NEW k \in 1 .. Len(data) PROVE buf'[front + k] = data[k]
      <4>1. front + k \in 1 .. Len(buf) /\ (front + k) - front = k
        BY ONLY <1>4, <1>5, <3>3, k \in 1 .. Len(data)
      <4> QED
        BY <3>4, <4>1
    <3>6. ASSUME NEW k \in 1 .. Len(Content) PROVE buf'[front + Len(data) + k] = Content[k]
      <4>1. /\ readIndex + k \in 1 .. Len(buf) /\ (readIndex + k) - front \notin 1 .. Len(data)
            /\ front + Len(data) + k = readIndex + k /\ k \in 1 .. writeIndex - readIndex
        BY ONLY <1>4, <1>5, <3>3, k \in 1 .. Len(Content)
      <4>2. buf'[readIndex + k] = buf[readIndex + k]
        BY <3>4, <4>1
      <4> QED
        BY <4>1, <4>2, Regions
    <3>7. SubSeq(buf', front + 1, front + Len(data) + Len(Content)) = data \o Content
      <4>1. /\ front + Len(data) + Len(Content) =< Len(buf') /\ Content \in Seq(Byte)
            /\ data \in Seq(Byte) /\ buf' \in Seq(Byte) /\ front \in Nat
        BY <1>1, <1>5, <3>3, <3>4, Regions
      <4> QED
        BY ONLY <3>5, <3>6, <4>1, Joined
    <3>8. IInv'
      <4>1. /\ readIndex' \in Nat /\ readIndex' =< writeIndex' /\ writeIndex' \in Nat
            /\ writeIndex' =< Len(buf') /\ kPrependSize =< writeIndex' /\ Len(buf') =< 3 * MaxIndex
        BY <3>1, <3>2, <3>3, <3>4, Numbers
      <4> QED
        BY <1>2, <3>4, <4>1, InvOf
    <3> QED
      BY <3>1, <3>2, <3>3, <3>7, <3>8
  <2>2. CASE ~ (Len(data) =< readIndex)
    <3> DEFINE zeros == [i \in 1 .. kPrependSize |-> 0]
               first == zeros \o data
               all   == first \o Content
    <3>1. /\ buf' = all /\ readIndex' = (Len(data) + kPrependSize) - Len(data)
          /\ writeIndex' = (Len(data) + kPrependSize) + Readable
      BY <2>2 DEF Prepend, Content
    <3>2. zeros \in Seq(Byte) /\ Len(zeros) = kPrependSize
      <4>1. kPrependSize \in Nat /\ zeros \in [1 .. kPrependSize -> Byte]
        BY Regions DEF Byte
      <4> QED
        BY <4>1
    <3> HIDE DEF zeros
    <3>3. /\ first \in Seq(Byte) /\ Len(first) = Len(zeros) + Len(data)
          /\ \A i \in 1 .. Len(zeros) + Len(data) :
                first[i] = IF i <= Len(zeros) THEN zeros[i] ELSE data[i - Len(zeros)]
      BY ONLY <1>1, <3>2, ConcatProperties
    <3> HIDE DEF first
    <3>4. Content \in Seq(Byte) /\ first \in Seq(Byte)
      BY <3>3, Regions
    <3>5. /\ all \in Seq(Byte) /\ Len(all) = Len(first) + Len(Content)
          /\ \A i \in 1 .. Len(first) + Len(Content) :
                all[i] = IF i <= Len(first) THEN first[i] ELSE Content[i - Len(first)]
      BY ONLY <3>4, ConcatProperties
    <3> HIDE DEF all
    <3>6. /\ readIndex' = kPrependSize /\ Len(first) = kPrependSize + Len(data)
          /\ writeIndex' = kPrependSize + Len(data) + Len(Content)
          /\ Len(all) = kPrependSize + Len(data) + Len(Content) /\ Len(Content) \in Nat
          /\ Len(Content) =< writeIndex
      <4>1. /\ readIndex' = (Len(data) + kPrependSize) - Len(data)
            /\ writeIndex' = (Len(data) + kPrependSize) + Readable
            /\ Len(zeros) = kPrependSize /\ Len(first) = Len(zeros) + Len(data)
            /\ Len(all) = Len(first) + Len(Content)
        BY <3>1, <3>2, <3>3, <3>5
      <4> QED
        BY ONLY <1>4, <1>5, <4>1
    <3>7. ASSUME NEW k \in 1 .. Len(data) PROVE all[kPrependSize + k] = data[k]
      <4>1. /\ kPrependSize + k \in 1 .. Len(first) + Len(Content) /\ kPrependSize + k <= Len(first)
            /\ kPrependSize + k \in 1 .. Len(zeros) + Len(data)
            /\ ~ (kPrependSize + k <= Len(zeros)) /\ (kPrependSize + k) - Len(zeros) = k
        <5>1. Len(zeros) = kPrependSize
          BY <3>2
        <5> QED
          BY ONLY <1>4, <1>5, <3>6, <5>1, k \in 1 .. Len(data)
      <4> QED
        BY <3>3, <3>5, <4>1
    <3>8. ASSUME NEW k \in 1 .. Len(Content) PROVE all[kPrependSize + Len(data) + k] = Content[k]
      <4>1. /\ kPrependSize + Len(data) + k \in 1 .. Len(first) + Len(Content)
            /\ ~ (kPrependSize + Len(data) + k <= Len(first))
            /\ (kPrependSize + Len(data) + k) - Len(first) = k
        BY ONLY <1>4, <1>5, <3>6, k \in 1 .. Len(Content)
      <4> QED
        BY <3>5, <4>1
    <3>9. SubSeq(all, kPrependSize + 1, kPrependSize + Len(data) + Len(Content)) = data \o Content
      <4>1. /\ kPrependSize + Len(data) + Len(Content) =< Len(all) /\ kPrependSize \in Nat
            /\ all \in Seq(Byte) /\ data \in Seq(Byte)
        BY <1>1, <1>5, <3>5, <3>6
      <4> QED
        BY ONLY <3>4, <3>7, <3>8, <4>1, Joined
    <3>10. IInv'
      <4>1. /\ readIndex' \in Nat /\ writeIndex' \in Nat /\ readIndex' =< writeIndex'
            /\ writeIndex' =< Len(buf') /\ kPrependSize =< writeIndex' /\ Len(buf') =< 3 * MaxIndex
        <5>1. kPrependSize + Len(data) + Len(Content) \in Nat /\ kPrependSize + Len(data) + Len(Content) =< 2 * MaxIndex
          BY ONLY <1>4, <1>5
        <5>2. buf' = all
          BY <3>1
        <5> QED
          BY ONLY <1>4, <1>5, <3>6, <5>1, <5>2
      <4> QED
        BY <1>2, <3>1, <3>5, <4>1, InvOf
    <3> QED
      BY <3>1, <3>6, <3>9, <3>10
  <2> QED
    BY <2>1, <2>2
<1> QED
  BY <1>2, <1>3 DEF Queue!Unput, Content

-------------------------------------------------------------------------------
(* The theorems. *)

LEMMA StepInv == IInv /\ [InputNext]_vars => IInv' /\ [Queue!Next]_<<Content, result>>
<1> SUFFICES ASSUME IInv, [InputNext]_vars PROVE IInv' /\ [Queue!Next]_<<Content, result>>
  OBVIOUS
<1>1. ASSUME NEW data \in Chunks, Fits(data), ReadFd(data) \/ Append_(data)
      PROVE  IInv' /\ Queue!Put
  BY <1>1, ReadFdStep, AppendStep
<1>2. ASSUME NEW data \in Chunks, Fits(data), Prepend(data) PROVE IInv' /\ Queue!Unput
  BY <1>2, PrependStep
<1>3. ASSUME NEW n \in 1 .. MaxChunk, Retrieve(n) PROVE IInv' /\ Queue!Take
  BY <1>3, RetrieveStep
<1>4. ASSUME RetrieveAll PROVE IInv' /\ Queue!Take
  BY <1>4, RetrieveAllStep
<1>5. CASE UNCHANGED vars
  <2>1. Content' = Content /\ result' = result
    BY <1>5 DEF vars, Content
  <2>2. IInv'
    BY <1>5 DEF vars, IInv, TypeOK, RegionsInOrder, Sized
  <2> QED
    BY <2>1, <2>2
<1> QED
  BY <1>1, <1>2, <1>3, <1>4, <1>5 DEF InputNext, Queue!Next

\* The invariant holds in every state of the input buffer, whatever is read,
\* appended, prepended and retrieved, for any sizes.
THEOREM Invariance == InputSpec => []IInv
<1>1. IInv /\ [InputNext]_vars => IInv'
  BY StepInv
<1> QED
  BY <1>1, InitInv, PTL DEF InputSpec

\* The indices and the bytes keep their types.
THEOREM TypeCorrect == InputSpec => []TypeOK
<1>1. IInv => TypeOK
  BY DEF IInv
<1> QED
  BY <1>1, Invariance, PTL

\* The prependable, the readable and the writable region of the input buffer are in
\* order, and neither append(), readFd() nor prepend() writes outside of the vector.
THEOREM RegionsStayInOrder == InputSpec => []RegionsInOrder
<1>1. IInv => RegionsInOrder
  BY DEF IInv
<1> QED
  BY <1>1, Invariance, PTL

\* Reallocation, readv into two places, resets of the indices and moves of the data
\* lose, repeat and reorder no byte: the input buffer is a queue of bytes.
THEOREM Refinement == InputSpec => ImplementsByteQueue
<1>1. Init => Queue!Init
  BY InitInv
<1>2. IInv /\ [InputNext]_vars => [Queue!Next]_<<Content, result>>
  BY StepInv
<1> QED
  BY <1>1, <1>2, Invariance, PTL DEF InputSpec, ImplementsByteQueue, Queue!Spec, Content
===============================================================================

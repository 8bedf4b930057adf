---------------------------- MODULE BufferProofs ----------------------------
(***************************************************************************)
(* Proofs about Buffer, for any prepend area, initial size, second buffer  *)
(* and bounds: the indices stay in order, makeSpace() makes the space, and *)
(* every write appends exactly its bytes.                                  *)
(***************************************************************************)
EXTENDS Buffer, SequenceTheorems, TLAPS

(* The inductive invariant.  TypeOK alone is not inductive: retrieveAll()  *)
(* moves both indices to kCheapPrepend, which must be inside the vector.   *)
Buf == [cells : Seq(Bytes), r : Nat, w : Nat]
Valid(u) == u \in Buf /\ u.r <= u.w /\ u.w <= Len(u.cells)
              /\ kCheapPrepend <= Len(u.cells)

(* A function on 1..n is a sequence of length n. *)
LEMMA FunctionIsSeq ==
  ASSUME NEW S, NEW n \in Nat, NEW f \in [1..n -> S]
  PROVE  f \in Seq(S) /\ Len(f) = n
<1>1. f \in Seq(S)
  BY SeqDef
<1>2. Len(f) \in Nat /\ DOMAIN f = 1..Len(f)
  BY <1>1, LenProperties
<1>3. 1..Len(f) = 1..n
  BY <1>2
<1> QED
  BY <1>1, <1>2, <1>3

(* What one call writes is a sequence of bytes. *)
LEMMA ChunkIsSeq ==
  ASSUME NEW s \in Chunk
  PROVE  s \in Seq(Bytes) /\ Len(s) \in Nat
<1>1. PICK n \in 0..MaxChunk : s \in [1..n -> Bytes]
  BY DEF Chunk
<1>2. n \in Nat
  BY BufferAssumption
<1> QED
  BY <1>1, <1>2, FunctionIsSeq

(* A stretch of the vector, byte by byte. *)
LEMMA SliceProperties ==
  ASSUME NEW c \in Seq(Bytes), NEW r \in Nat, NEW w \in Nat, r <= w, w <= Len(c)
  PROVE  /\ SubSeq(c, r + 1, w) \in Seq(Bytes)
         /\ Len(SubSeq(c, r + 1, w)) = w - r
         /\ \A i \in 1..w - r : SubSeq(c, r + 1, w)[i] = c[r + i]
<1> DEFINE m == r + 1
<1>1. m \in Int /\ w \in Int /\ Len(c) \in Nat
  BY LenProperties
<1>2. \A i \in m..w : i \in 1..Len(c)
  BY <1>1
<1>3. \A i \in m..w : c[i] \in Bytes
  BY <1>2, ElementOfSeq
<1> HIDE DEF m
<1>4. /\ SubSeq(c, m, w) \in Seq(Bytes)
      /\ Len(SubSeq(c, m, w)) = IF m <= w THEN w - m + 1 ELSE 0
      /\ \A i \in 1..w - m + 1 : SubSeq(c, m, w)[i] = c[m + i - 1]
  BY <1>1, <1>3, SubSeqProperties
<1>5. w - m + 1 = w - r /\ \A i \in Int : m + i - 1 = r + i
  BY DEF m
<1>6. Len(SubSeq(c, m, w)) = w - r
  BY <1>4 DEF m
<1>7. \A i \in 1..w - r : SubSeq(c, m, w)[i] = c[r + i]
  BY <1>4, <1>5
<1> QED
  BY <1>4, <1>6, <1>7 DEF m

(* The readable bytes of a valid buffer, one by one. *)
LEMMA ReadableProperties ==
  ASSUME NEW u, Valid(u)
  PROVE  /\ Readable(u) \in Seq(Bytes)
         /\ Len(Readable(u)) = u.w - u.r
         /\ \A i \in 1..u.w - u.r : Readable(u)[i] = u.cells[u.r + i]
<1>1. /\ u.cells \in Seq(Bytes) /\ u.r \in Nat /\ u.w \in Nat
      /\ u.r <= u.w /\ u.w <= Len(u.cells)
  BY DEF Valid, Buf
<1> QED
  BY <1>1, SliceProperties DEF Readable

(* std::copy changes the bytes it covers and keeps the size. *)
LEMMA CopyAtProperties ==
  ASSUME NEW cells \in Seq(Bytes), NEW k \in Nat, NEW s \in Seq(Bytes)
  PROVE  /\ CopyAt(cells, k, s) \in Seq(Bytes)
         /\ Len(CopyAt(cells, k, s)) = Len(cells)
         /\ \A i \in 1..Len(cells) :
              CopyAt(cells, k, s)[i] = IF i - k \in 1..Len(s) THEN s[i - k] ELSE cells[i]
<1>1. Len(cells) \in Nat /\ Len(s) \in Nat
  BY LenProperties
<1>2. \A i \in 1..Len(cells) :
        (IF i - k \in 1..Len(s) THEN s[i - k] ELSE cells[i]) \in Bytes
  BY <1>1, ElementOfSeq
<1>3. CopyAt(cells, k, s) \in [1..Len(cells) -> Bytes]
  BY <1>2 DEF CopyAt
<1> QED
  BY <1>1, <1>3, FunctionIsSeq DEF CopyAt

(* resize() keeps the bytes that were there. *)
LEMMA ResizedProperties ==
  ASSUME NEW cells \in Seq(Bytes), NEW n \in Nat
  PROVE  /\ Resized(cells, n) \in Seq(Bytes)
         /\ Len(Resized(cells, n)) = n
         /\ \A i \in 1..n : i <= Len(cells) => Resized(cells, n)[i] = cells[i]
<1>1. Len(cells) \in Nat
  BY LenProperties
<1>2. \A i \in 1..n : (IF i <= Len(cells) THEN cells[i] ELSE 0) \in Bytes
  BY <1>1, ElementOfSeq, BufferAssumption
<1>3. Resized(cells, n) \in [1..n -> Bytes]
  BY <1>2 DEF Resized
<1> QED
  BY <1>1, <1>3, FunctionIsSeq DEF Resized

(* makeSpace(): room for len bytes, and the same readable bytes. *)
LEMMA MakeSpaceProperties ==
  ASSUME NEW u, Valid(u), NEW len \in Nat, WritableBytes(u) < len
  PROVE  /\ Valid(MakeSpace(u, len))
         /\ WritableBytes(MakeSpace(u, len)) >= len
         /\ Readable(MakeSpace(u, len)) = Readable(u)
<1> DEFINE e == MakeSpace(u, len)
<1>1. /\ u.cells \in Seq(Bytes) /\ u.r \in Nat /\ u.w \in Nat /\ Len(u.cells) \in Nat
      /\ u.r <= u.w /\ u.w <= Len(u.cells) /\ kCheapPrepend \in Nat
      /\ kCheapPrepend <= Len(u.cells)
      /\ u = [cells |-> u.cells, r |-> u.r, w |-> u.w]
  BY LenProperties, BufferAssumption DEF Valid, Buf
<1>2. /\ Readable(u) \in Seq(Bytes)
      /\ Len(Readable(u)) = u.w - u.r
      /\ \A i \in 1..u.w - u.r : Readable(u)[i] = u.cells[u.r + i]
  BY ReadableProperties
<1>3. CASE MustGrow(u, len)
  <2>1. /\ e.cells = Resized(u.cells, u.w + len) /\ e.r = u.r /\ e.w = u.w
        /\ e = [cells |-> e.cells, r |-> e.r, w |-> e.w]
    BY <1>1, <1>3 DEF MakeSpace
  <2> DEFINE n == u.w + len
  <2>2. n \in Nat
    BY <1>1
  <2> HIDE DEF n
  <2>3. /\ Resized(u.cells, n) \in Seq(Bytes) /\ Len(Resized(u.cells, n)) = n
        /\ \A i \in 1..n : i <= Len(u.cells) => Resized(u.cells, n)[i] = u.cells[i]
    BY <1>1, <2>2, ResizedProperties
  <2>4. /\ e.cells \in Seq(Bytes) /\ Len(e.cells) = u.w + len
        /\ \A i \in 1..u.w + len : i <= Len(u.cells) => e.cells[i] = u.cells[i]
    BY <2>1, <2>3 DEF n
  <2>5. Valid(e)
    BY <1>1, <2>1, <2>4 DEF Valid, Buf, WritableBytes
  <2>6. WritableBytes(e) >= len
    BY <1>1, <2>1, <2>4 DEF WritableBytes
  <2>7. /\ Readable(e) \in Seq(Bytes) /\ Len(Readable(e)) = e.w - e.r
        /\ \A i \in 1..e.w - e.r : Readable(e)[i] = e.cells[e.r + i]
    BY <2>5, ReadableProperties
  <2>8. ASSUME NEW i \in 1..u.w - u.r
        PROVE  Readable(e)[i] = Readable(u)[i]
    <3>1. u.r + i \in 1..u.w + len /\ u.r + i <= Len(u.cells)
      BY <1>1
    <3>2. e.cells[u.r + i] = u.cells[u.r + i]
      BY <2>4, <3>1
    <3> QED
      BY <1>2, <2>1, <2>7, <3>2
  <2>9. Readable(e) = Readable(u)
    BY <1>2, <2>1, <2>7, <2>8, SeqEqual
  <2> QED
    BY <2>5, <2>6, <2>9
<1>4. CASE ~MustGrow(u, len)
  <2>1. /\ e.cells = CopyAt(u.cells, kCheapPrepend, Readable(u))
        /\ e.r = kCheapPrepend /\ e.w = kCheapPrepend + (u.w - u.r)
        /\ e = [cells |-> e.cells, r |-> e.r, w |-> e.w]
    BY <1>1, <1>4 DEF MakeSpace, ReadableBytes
  <2>2. /\ e.cells \in Seq(Bytes) /\ Len(e.cells) = Len(u.cells)
        /\ \A i \in 1..Len(u.cells) : e.cells[i] =
             IF i - kCheapPrepend \in 1..Len(Readable(u))
             THEN Readable(u)[i - kCheapPrepend] ELSE u.cells[i]
    BY SMTT(30), <1>1, <1>2, <2>1, CopyAtProperties
  <2>3. Len(u.cells) - u.w + u.r >= len + kCheapPrepend
    BY <1>1, <1>4 DEF MustGrow, WritableBytes
  <2>4. Valid(e)
    BY <1>1, <2>1, <2>2, <2>3 DEF Valid, Buf
  <2>5. WritableBytes(e) >= len
    BY <1>1, <2>1, <2>2, <2>3 DEF WritableBytes
  <2>6. /\ Readable(e) \in Seq(Bytes) /\ Len(Readable(e)) = e.w - e.r
        /\ \A i \in 1..e.w - e.r : Readable(e)[i] = e.cells[e.r + i]
    BY <2>4, ReadableProperties
  <2>7. ASSUME NEW i \in 1..u.w - u.r
        PROVE  Readable(e)[i] = Readable(u)[i]
    <3>1. kCheapPrepend + i \in 1..Len(u.cells)
      BY <1>1, <2>3
    <3>2. (kCheapPrepend + i) - kCheapPrepend = i
      BY <1>1
    <3>3. Readable(e)[i] = e.cells[kCheapPrepend + i]
      BY <1>1, <2>1, <2>6
    <3> QED
      BY <1>1, <1>2, <2>2, <3>1, <3>2, <3>3
  <2>8. Len(Readable(e)) = u.w - u.r
    BY <1>1, <2>1, <2>6
  <2>9. Readable(e) = Readable(u)
    BY <1>2, <2>6, <2>7, <2>8, SeqEqual
  <2> QED
    BY <2>4, <2>5, <2>9
<1> QED
  BY <1>3, <1>4

(* ensureWritableBytes(): the same, whether it has to make space or not. *)
LEMMA EnsureWritableProperties ==
  ASSUME NEW u, Valid(u), NEW len \in Nat
  PROVE  LET e == EnsureWritableBytes(u, len)
         IN  /\ Valid(e)
             /\ WritableBytes(e) >= len
             /\ Readable(e) = Readable(u)
<1>1. WritableBytes(u) \in Nat
  BY LenProperties DEF Valid, Buf, WritableBytes
<1>2. CASE WritableBytes(u) < len
  BY <1>2, MakeSpaceProperties DEF EnsureWritableBytes
<1>3. CASE ~(WritableBytes(u) < len)
  BY <1>1, <1>3 DEF EnsureWritableBytes
<1> QED
  BY <1>2, <1>3

(* Bytes copied behind the readable ones of a buffer that has the room. *)
LEMMA CopyBehind ==
  ASSUME NEW u, Valid(u), NEW s \in Seq(Bytes), Len(s) <= WritableBytes(u),
         NEW e, e = [u EXCEPT !.cells = CopyAt(@, u.w, s), !.w = @ + Len(s)]
  PROVE  Valid(e) /\ Readable(e) = Readable(u) \o s
<1>1. /\ u.cells \in Seq(Bytes) /\ u.r \in Nat /\ u.w \in Nat /\ Len(u.cells) \in Nat
      /\ u.r <= u.w /\ u.w <= Len(u.cells) /\ Len(s) \in Nat
      /\ u.w + Len(s) <= Len(u.cells) /\ kCheapPrepend <= Len(u.cells)
      /\ u = [cells |-> u.cells, r |-> u.r, w |-> u.w]
  BY LenProperties DEF Valid, Buf, WritableBytes
<1>2. /\ e.cells = CopyAt(u.cells, u.w, s) /\ e.r = u.r /\ e.w = u.w + Len(s)
      /\ e = [cells |-> e.cells, r |-> e.r, w |-> e.w]
  BY <1>1
<1>3. /\ e.cells \in Seq(Bytes) /\ Len(e.cells) = Len(u.cells)
      /\ \A i \in 1..Len(u.cells) :
           e.cells[i] = IF i - u.w \in 1..Len(s) THEN s[i - u.w] ELSE u.cells[i]
  BY <1>1, <1>2, CopyAtProperties
<1>4. Valid(e)
  BY <1>1, <1>2, <1>3 DEF Valid, Buf
<1>5. /\ Readable(e) \in Seq(Bytes) /\ Len(Readable(e)) = e.w - e.r
      /\ \A i \in 1..e.w - e.r : Readable(e)[i] = e.cells[e.r + i]
  BY <1>4, ReadableProperties
<1>6. /\ Readable(u) \in Seq(Bytes) /\ Len(Readable(u)) = u.w - u.r
      /\ \A i \in 1..u.w - u.r : Readable(u)[i] = u.cells[u.r + i]
  BY ReadableProperties
<1>7. /\ Readable(u) \o s \in Seq(Bytes)
      /\ Len(Readable(u) \o s) = Len(Readable(u)) + Len(s)
      /\ \A i \in 1..Len(Readable(u)) + Len(s) : (Readable(u) \o s)[i] =
           IF i <= Len(Readable(u)) THEN Readable(u)[i] ELSE s[i - Len(Readable(u))]
  BY <1>6, ConcatProperties
<1>8. ASSUME NEW i \in 1..(u.w - u.r) + Len(s)
      PROVE  Readable(e)[i] = (Readable(u) \o s)[i]
  <2>1. /\ Readable(e)[i] = e.cells[u.r + i]
        /\ u.r + i \in 1..Len(u.cells)
    BY <1>1, <1>2, <1>5
  <2>2. CASE i <= u.w - u.r
    <3>1. e.cells[u.r + i] = u.cells[u.r + i]
      BY <1>1, <1>3, <2>1, <2>2
    <3>2. (Readable(u) \o s)[i] = Readable(u)[i]
      BY <1>1, <1>6, <1>7, <2>2
    <3> QED
      BY <1>1, <1>6, <2>1, <2>2, <3>1, <3>2
  <2>3. CASE i > u.w - u.r
    <3>1. (u.r + i) - u.w = i - (u.w - u.r) /\ (u.r + i) - u.w \in 1..Len(s)
      BY <1>1, <2>3
    <3>2. e.cells[u.r + i] = s[i - (u.w - u.r)]
      BY <1>3, <2>1, <3>1
    <3>3. (Readable(u) \o s)[i] = s[i - (u.w - u.r)]
      BY <1>1, <1>6, <1>7, <2>3
    <3> QED
      BY <2>1, <3>2, <3>3
  <2>4. i <= u.w - u.r \/ i > u.w - u.r
    BY <1>1
  <2> QED
    BY <2>2, <2>3, <2>4
<1>9. Len(Readable(e)) = Len(Readable(u) \o s) /\ Len(Readable(e)) = (u.w - u.r) + Len(s)
  BY <1>1, <1>2, <1>5, <1>6, <1>7
<1> QED
  BY <1>4, <1>5, <1>7, <1>8, <1>9, SeqEqual

(* append(): the bytes behind the readable ones. *)
LEMMA AppendedProperties ==
  ASSUME NEW u, Valid(u), NEW s \in Seq(Bytes)
  PROVE  Valid(Appended(u, s)) /\ Readable(Appended(u, s)) = Readable(u) \o s
<1> DEFINE e == EnsureWritableBytes(u, Len(s))
<1>1. Len(s) \in Nat
  BY LenProperties
<1>2. Valid(e) /\ WritableBytes(e) >= Len(s) /\ Readable(e) = Readable(u)
  BY <1>1, EnsureWritableProperties
<1>3. WritableBytes(e) \in Int
  BY <1>2, LenProperties DEF Valid, Buf, WritableBytes
<1>4. Appended(u, s) = [e EXCEPT !.cells = CopyAt(@, e.w, s), !.w = @ + Len(s)]
  BY DEF Appended
<1> HIDE DEF e
<1>5. Len(s) <= WritableBytes(e)
  BY <1>1, <1>2, <1>3
<1>6. /\ Valid([e EXCEPT !.cells = CopyAt(@, e.w, s), !.w = @ + Len(s)])
      /\ Readable([e EXCEPT !.cells = CopyAt(@, e.w, s), !.w = @ + Len(s)])
           = Readable(e) \o s
  BY <1>2, <1>5, CopyBehind
<1> QED
  BY <1>2, <1>4, <1>6

(* Concatenation of byte strings is associative. *)
LEMMA ConcatBytes ==
  ASSUME NEW x \in Seq(Bytes), NEW y \in Seq(Bytes), NEW z \in Seq(Bytes)
  PROVE  (x \o y) \o z = x \o (y \o z)
BY ConcatAssociative

(* readFd(): what did not fit arrives by way of the second buffer. *)
LEMMA ReadFromProperties ==
  ASSUME NEW u, Valid(u), NEW s \in Seq(Bytes)
  PROVE  Valid(ReadFrom(u, s)) /\ Readable(ReadFrom(u, s)) = Readable(u) \o s
<1> DEFINE n == WritableBytes(u)
           p == SubSeq(s, 1, n)
           q == SubSeq(s, n + 1, Len(s))
           v == [u EXCEPT !.cells = CopyAt(@, u.w, p), !.w = @ + Len(p)]
<1>1. n \in Nat /\ Len(s) \in Nat /\ n = Len(u.cells) - u.w
      /\ u.w \in Nat /\ Len(u.cells) \in Nat
  BY LenProperties DEF Valid, Buf, WritableBytes
<1>2. CASE Len(s) <= n
  <2>1. ReadFrom(u, s) = [u EXCEPT !.cells = CopyAt(@, u.w, s), !.w = @ + Len(s)]
    BY <1>2 DEF ReadFrom
  <2> QED
    BY <1>2, <2>1, CopyBehind
<1>3. CASE ~(Len(s) <= n)
  <2> HIDE DEF n
  <2>1. p \in Seq(Bytes) /\ Len(p) = n
    <3>1. SubSeq(s, 0 + 1, n) \in Seq(Bytes) /\ Len(SubSeq(s, 0 + 1, n)) = n - 0
      BY <1>1, <1>3, SliceProperties
    <3> QED
      BY <1>1, <3>1
  <2>2. q \in Seq(Bytes)
    BY <1>1, <1>3, SliceProperties
  <2>3. p \o q = s
    <3>1. 1 \in 1..Len(s) + 1 /\ n \in 1 - 1..Len(s) /\ Len(s) \in n..Len(s)
      BY <1>1, <1>3
    <3>2. p \o q = SubSeq(s, 1, Len(s))
      BY <3>1, ConcatAdjacentSubSeq
    <3> QED
      BY <3>2, SubSeqFull
  <2>4. Len(p) <= WritableBytes(u)
    BY <1>1, <2>1 DEF n
  <2>5. Valid(v) /\ Readable(v) = Readable(u) \o p
    BY <2>1, <2>4, CopyBehind
  <2>6. u.w + Len(p) = Len(u.cells)
    BY <1>1, <2>1
  <2>7. ReadFrom(u, s) = Appended(v, q)
    BY <1>3, <2>6 DEF ReadFrom, n
  <2> HIDE DEF p, q, v
  <2>8. Valid(Appended(v, q)) /\ Readable(Appended(v, q)) = Readable(v) \o q
    BY <2>2, <2>5, AppendedProperties
  <2>9. Readable(u) \in Seq(Bytes)
    BY ReadableProperties
  <2>10. (Readable(u) \o p) \o q = Readable(u) \o (p \o q)
    BY <2>1, <2>2, <2>9, ConcatBytes
  <2> QED
    BY <2>3, <2>5, <2>7, <2>8, <2>10
<1> QED
  BY <1>2, <1>3

(* A new Buffer is valid and empty. *)
LEMMA FreshProperties == Valid(FreshBuffer) /\ Readable(FreshBuffer) = <<>>
<1> DEFINE k == kCheapPrepend + kInitialSize
           c == [i \in 1..k |-> 0]
<1>1. kCheapPrepend \in Nat /\ kInitialSize \in Nat /\ 0 \in Bytes /\ k \in Nat
  BY BufferAssumption
<1>2. c \in [1..k -> Bytes]
  BY <1>1
<1>3. c \in Seq(Bytes) /\ Len(c) = k
  BY <1>1, <1>2, FunctionIsSeq
<1>4. /\ FreshBuffer.cells = c
      /\ FreshBuffer.r = kCheapPrepend /\ FreshBuffer.w = kCheapPrepend
      /\ FreshBuffer = [cells |-> c, r |-> kCheapPrepend, w |-> kCheapPrepend]
  BY DEF FreshBuffer
<1> HIDE DEF c
<1>5. Valid(FreshBuffer)
  BY <1>1, <1>3, <1>4 DEF Valid, Buf
<1>6. SubSeq(c, kCheapPrepend + 1, kCheapPrepend) = <<>>
  BY <1>1, SubSeqEmpty
<1> QED
  BY <1>4, <1>5, <1>6 DEF Readable

(* shrink() keeps the readable bytes. *)
LEMMA ShrunkProperties ==
  ASSUME NEW u, Valid(u), NEW n \in Nat
  PROVE  Valid(Shrunk(u, n)) /\ Readable(Shrunk(u, n)) = Readable(u)
<1> DEFINE e == EnsureWritableBytes(FreshBuffer, ReadableBytes(u) + n)
<1>1. ReadableBytes(u) + n \in Nat
  BY DEF Valid, Buf, ReadableBytes
<1>2. Valid(e) /\ Readable(e) = <<>>
  BY <1>1, FreshProperties, EnsureWritableProperties
<1>3. Readable(u) \in Seq(Bytes)
  BY ReadableProperties
<1>4. Shrunk(u, n) = Appended(e, Readable(u))
  BY DEF Shrunk
<1> HIDE DEF e
<1>5. /\ Valid(Appended(e, Readable(u)))
      /\ Readable(Appended(e, Readable(u))) = <<>> \o Readable(u)
  BY <1>2, <1>3, AppendedProperties
<1>6. <<>> \o Readable(u) = Readable(u)
  BY <1>3, ConcatEmptySeq
<1> QED
  BY <1>4, <1>5, <1>6

(* prepend() into the room in front. *)
LEMMA PrependProperties ==
  ASSUME NEW u, Valid(u), NEW s \in Seq(Bytes), Len(s) <= u.r,
         NEW e, e = [u EXCEPT !.r = @ - Len(s), !.cells = CopyAt(@, u.r - Len(s), s)]
  PROVE  Valid(e) /\ Readable(e) = s \o Readable(u)
<1> DEFINE k == u.r - Len(s)
<1>1. /\ u.cells \in Seq(Bytes) /\ u.r \in Nat /\ u.w \in Nat /\ Len(u.cells) \in Nat
      /\ u.r <= u.w /\ u.w <= Len(u.cells) /\ Len(s) \in Nat /\ k \in Nat
      /\ kCheapPrepend <= Len(u.cells)
      /\ u = [cells |-> u.cells, r |-> u.r, w |-> u.w]
  BY LenProperties DEF Valid, Buf
<1>2. /\ e.cells = CopyAt(u.cells, k, s) /\ e.r = k /\ e.w = u.w
      /\ e = [cells |-> e.cells, r |-> e.r, w |-> e.w]
  BY <1>1
<1>3. u.r = k + Len(s)
  BY <1>1
<1> HIDE DEF k
<1>4. /\ e.cells \in Seq(Bytes) /\ Len(e.cells) = Len(u.cells)
      /\ \A i \in 1..Len(u.cells) :
           e.cells[i] = IF i - k \in 1..Len(s) THEN s[i - k] ELSE u.cells[i]
  BY <1>1, <1>2, CopyAtProperties
<1>5. Valid(e)
  BY <1>1, <1>2, <1>3, <1>4 DEF Valid, Buf
<1>6. /\ Readable(e) \in Seq(Bytes) /\ Len(Readable(e)) = e.w - e.r
      /\ \A i \in 1..e.w - e.r : Readable(e)[i] = e.cells[e.r + i]
  BY <1>5, ReadableProperties
<1>7. /\ Readable(u) \in Seq(Bytes) /\ Len(Readable(u)) = u.w - u.r
      /\ \A i \in 1..u.w - u.r : Readable(u)[i] = u.cells[u.r + i]
  BY ReadableProperties
<1>8. /\ s \o Readable(u) \in Seq(Bytes)
      /\ Len(s \o Readable(u)) = Len(s) + Len(Readable(u))
      /\ \A i \in 1..Len(s) + Len(Readable(u)) : (s \o Readable(u))[i] =
           IF i <= Len(s) THEN s[i] ELSE Readable(u)[i - Len(s)]
  BY <1>7, ConcatProperties
<1>9. ASSUME NEW i \in 1..u.w - k
      PROVE  Readable(e)[i] = (s \o Readable(u))[i]
  <2>1. /\ Readable(e)[i] = e.cells[k + i] /\ k + i \in 1..Len(u.cells)
        /\ (k + i) - k = i /\ i \in 1..Len(s) + Len(Readable(u))
    BY SMTT(30), <1>1, <1>2, <1>3, <1>6, <1>7
  <2>2. CASE i <= Len(s)
    <3>1. (k + i) - k \in 1..Len(s)
      BY <1>1, <2>1, <2>2
    <3>2. e.cells[k + i] = s[i]
      BY <1>4, <2>1, <3>1
    <3> QED
      BY <1>8, <2>1, <2>2, <3>2
  <2>3. CASE i > Len(s)
    <3>1. ~((k + i) - k \in 1..Len(s))
      BY <1>1, <2>1, <2>3
    <3>2. e.cells[k + i] = u.cells[k + i]
      BY <1>4, <2>1, <3>1
    <3>3. i - Len(s) \in 1..u.w - u.r /\ u.r + (i - Len(s)) = k + i
      BY <1>1, <1>3, <2>3
    <3>4. (s \o Readable(u))[i] = Readable(u)[i - Len(s)]
      BY <1>1, <1>8, <2>1, <2>3
    <3>5. Readable(u)[i - Len(s)] = u.cells[k + i]
      BY <1>7, <3>3
    <3> QED
      BY <2>1, <3>2, <3>4, <3>5
  <2>4. i <= Len(s) \/ i > Len(s)
    BY <1>1
  <2> QED
    BY <2>2, <2>3, <2>4
<1>10. Len(Readable(e)) = u.w - k /\ Len(s \o Readable(u)) = u.w - k
  BY <1>1, <1>2, <1>3, <1>6, <1>7, <1>8
<1> QED
  BY <1>5, <1>6, <1>8, <1>9, <1>10, SeqEqual

(* Both indices moved inside the readable bytes. *)
LEMMA NarrowedProperties ==
  ASSUME NEW u, Valid(u), NEW r \in Nat, NEW w \in Nat,
         u.r <= r, r <= w, w <= u.w,
         NEW e, e = [u EXCEPT !.r = r, !.w = w]
  PROVE  Valid(e) /\ Readable(e) = SubSeq(Readable(u), (r - u.r) + 1, w - u.r)
<1> DEFINE k == r - u.r
           l == w - u.r
           t == SubSeq(Readable(u), k + 1, l)
<1>1. /\ u.cells \in Seq(Bytes) /\ u.r \in Nat /\ u.w \in Nat /\ Len(u.cells) \in Nat
      /\ u.w <= Len(u.cells) /\ kCheapPrepend <= Len(u.cells)
      /\ u = [cells |-> u.cells, r |-> u.r, w |-> u.w]
  BY LenProperties DEF Valid, Buf
<1>2. e = [cells |-> u.cells, r |-> r, w |-> w] /\ e.cells = u.cells /\ e.r = r /\ e.w = w
  BY <1>1
<1>3. Valid(e)
  BY <1>1, <1>2 DEF Valid, Buf
<1>4. k \in Nat /\ l \in Nat /\ k <= l /\ l <= u.w - u.r /\ l - k = w - r
      /\ r = u.r + k
  BY <1>1
<1>5. /\ Readable(e) \in Seq(Bytes) /\ Len(Readable(e)) = w - r
      /\ \A i \in 1..w - r : Readable(e)[i] = u.cells[r + i]
  <2>1. /\ Readable(e) \in Seq(Bytes) /\ Len(Readable(e)) = e.w - e.r
        /\ \A i \in 1..e.w - e.r : Readable(e)[i] = e.cells[e.r + i]
    BY ZenonT(40), <1>3, ReadableProperties
  <2> QED
    BY <1>2, <2>1
<1>6. /\ Readable(u) \in Seq(Bytes) /\ Len(Readable(u)) = u.w - u.r
      /\ \A i \in 1..u.w - u.r : Readable(u)[i] = u.cells[u.r + i]
  BY ReadableProperties
<1> HIDE DEF k, l
<1>7. /\ t \in Seq(Bytes) /\ Len(t) = l - k
      /\ \A i \in 1..l - k : t[i] = Readable(u)[k + i]
  <2> DEFINE c == Readable(u)
  <2>1. c \in Seq(Bytes) /\ k \in Nat /\ l \in Nat /\ k <= l /\ l <= Len(c)
    BY <1>4, <1>6
  <2> HIDE DEF c
  <2>2. /\ SubSeq(c, k + 1, l) \in Seq(Bytes) /\ Len(SubSeq(c, k + 1, l)) = l - k
        /\ \A i \in 1..l - k : SubSeq(c, k + 1, l)[i] = c[k + i]
    BY <2>1, SliceProperties
  <2> QED
    BY <2>2 DEF c
<1>8. ASSUME NEW i \in 1..w - r PROVE Readable(e)[i] = t[i]
  <2>1. k + i \in 1..u.w - u.r /\ u.r + (k + i) = r + i
    BY <1>1, <1>4
  <2>2. t[i] = Readable(u)[k + i]
    BY <1>4, <1>7
  <2>3. Readable(u)[k + i] = u.cells[r + i]
    BY <1>6, <2>1
  <2> QED
    BY <1>5, <2>2, <2>3
<1> HIDE DEF t
<1>9. Readable(e) = t
  BY <1>4, <1>5, <1>7, <1>8, SeqEqual
<1> QED
  BY <1>3, <1>9 DEF t, k, l

(* retrieve(): the reader index moves, or both go back to the beginning. *)
LEMMA RetrieveProperties ==
  ASSUME Valid(b), NEW n \in Nat, Retrieve(n)
  PROVE  Valid(b') /\ Readable(b)' = SubSeq(Readable(b), n + 1, Len(Readable(b)))
<1>1. /\ b.cells \in Seq(Bytes) /\ b.r \in Nat /\ b.w \in Nat /\ Len(b.cells) \in Nat
      /\ b.r <= b.w /\ b.w <= Len(b.cells) /\ kCheapPrepend \in Nat
      /\ kCheapPrepend <= Len(b.cells) /\ n <= b.w - b.r
      /\ b = [cells |-> b.cells, r |-> b.r, w |-> b.w]
      /\ Len(Readable(b)) = b.w - b.r
  BY LenProperties, BufferAssumption, ReadableProperties
  DEF Valid, Buf, Retrieve, ReadableBytes
<1>2. CASE n < b.w - b.r
  <2> DEFINE k == b.r + n
  <2>1. b' = [b EXCEPT !.r = k, !.w = b.w]
    BY <1>1, <1>2 DEF Retrieve, ReadableBytes
  <2>2. k \in Nat /\ b.r <= k /\ k <= b.w /\ k - b.r = n /\ b.w <= b.w
    BY <1>1, <1>2
  <2> HIDE DEF k
  <2>3. Valid(b') /\ Readable(b') = SubSeq(Readable(b), (k - b.r) + 1, b.w - b.r)
    BY <1>1, <2>1, <2>2, NarrowedProperties
  <2> QED
    BY <1>1, <2>2, <2>3 DEF Readable
<1>3. CASE n = b.w - b.r
  <2>1. b' = [b EXCEPT !.r = kCheapPrepend, !.w = kCheapPrepend]
    BY <1>1, <1>3 DEF Retrieve, ReadableBytes
  <2>2. /\ b' = [cells |-> b.cells, r |-> kCheapPrepend, w |-> kCheapPrepend]
        /\ b'.cells = b.cells /\ b'.r = kCheapPrepend /\ b'.w = kCheapPrepend
    BY <1>1, <2>1
  <2>3. Valid(b')
    BY <1>1, <2>2 DEF Valid, Buf
  <2>4. SubSeq(b.cells, kCheapPrepend + 1, kCheapPrepend) = <<>>
    BY <1>1, SubSeqEmpty
  <2>5. SubSeq(Readable(b), n + 1, n) = <<>>
    BY SubSeqEmpty
  <2> QED
    BY <1>1, <1>3, <2>2, <2>3, <2>4, <2>5 DEF Readable
<1> QED
  BY <1>1, <1>2, <1>3

(* unwrite(): the writer index goes back. *)
LEMMA UnwriteProperties ==
  ASSUME Valid(b), NEW n \in Nat, Unwrite(n)
  PROVE  Valid(b') /\ Readable(b)' = SubSeq(Readable(b), 1, Len(Readable(b)) - n)
<1>1. /\ b.cells \in Seq(Bytes) /\ b.r \in Nat /\ b.w \in Nat
      /\ b.r <= b.w /\ n <= b.w - b.r
      /\ b = [cells |-> b.cells, r |-> b.r, w |-> b.w]
      /\ Len(Readable(b)) = b.w - b.r
  BY ReadableProperties DEF Valid, Buf, Unwrite, ReadableBytes
<1> DEFINE k == b.w - n
<1>2. b' = [b EXCEPT !.r = b.r, !.w = k]
  BY <1>1 DEF Unwrite
<1>3. k \in Nat /\ b.r <= k /\ k <= b.w /\ (b.r - b.r) + 1 = 1 /\ b.r <= b.r
      /\ k - b.r = (b.w - b.r) - n
  BY <1>1
<1> HIDE DEF k
<1>4. Valid(b') /\ Readable(b') = SubSeq(Readable(b), (b.r - b.r) + 1, k - b.r)
  BY ZenonT(40), <1>1, <1>2, <1>3, NarrowedProperties
<1> QED
  BY <1>1, <1>3, <1>4 DEF Readable

-----------------------------------------------------------------------------
(* Every step keeps the buffer valid and is a step of the queue. *)

LEMMA QueueStep ==
  ASSUME Valid(b), [Next]_b
  PROVE  Valid(b') /\ [Queue!Next]_(Readable(b))
<1> USE DEF Queue!Next, Queue!AppendBytes, Queue!Prepend, Queue!Retrieve, Queue!Unwrite
<1>1. /\ Readable(b) \in Seq(Bytes) /\ Len(Readable(b)) = ReadableBytes(b)
      /\ ReadableBytes(b) \in Nat
  BY ReadableProperties DEF ReadableBytes, Valid, Buf
<1>2. ASSUME NEW s \in Chunk, AppendBytes(s) PROVE Valid(b') /\ [Queue!Next]_(Readable(b))
  <2>1. Valid(b') /\ Readable(b') = Readable(b) \o s
    BY <1>2, ChunkIsSeq, AppendedProperties DEF AppendBytes
  <2> QED
    BY <1>2, <2>1 DEF Readable
<1>3. ASSUME NEW s \in Chunk, ReadFd(s) PROVE Valid(b') /\ [Queue!Next]_(Readable(b))
  <2>1. Valid(b') /\ Readable(b') = Readable(b) \o s
    BY <1>3, ChunkIsSeq, ReadFromProperties DEF ReadFd
  <2> QED
    BY <1>3, <2>1 DEF Readable
<1>4. ASSUME NEW s \in Chunk, Prepend(s) PROVE Valid(b') /\ [Queue!Next]_(Readable(b))
  <2>1. Valid(b') /\ Readable(b') = s \o Readable(b)
    BY <1>4, ChunkIsSeq, PrependProperties DEF Prepend
  <2> QED
    BY <1>4, <2>1 DEF Readable
<1>5. ASSUME NEW n \in 0..MaxSize, Retrieve(n) PROVE Valid(b') /\ [Queue!Next]_(Readable(b))
  <2>1. Valid(b') /\ Readable(b)' = SubSeq(Readable(b), n + 1, Len(Readable(b)))
    BY <1>5, RetrieveProperties
  <2>2. n \in 0..Len(Readable(b))
    BY <1>1, <1>5 DEF Retrieve
  <2> QED
    BY <2>1, <2>2
<1>6. ASSUME NEW n \in 0..MaxSize, Unwrite(n) PROVE Valid(b') /\ [Queue!Next]_(Readable(b))
  <2>1. Valid(b') /\ Readable(b)' = SubSeq(Readable(b), 1, Len(Readable(b)) - n)
    BY <1>6, UnwriteProperties
  <2>2. n \in 0..Len(Readable(b))
    BY <1>1, <1>6 DEF Unwrite
  <2> QED
    BY <2>1, <2>2
<1>7. ASSUME NEW n \in 0..MaxChunk, Shrink(n) PROVE Valid(b') /\ [Queue!Next]_(Readable(b))
  <2>1. n \in Nat
    BY BufferAssumption
  <2>2. Valid(b') /\ Readable(b') = Readable(b)
    BY <1>7, <2>1, ShrunkProperties DEF Shrink
  <2> QED
    BY <2>2 DEF Readable
<1>8. CASE UNCHANGED b
  BY <1>8 DEF Valid, Readable
<1> QED
  BY <1>2, <1>3, <1>4, <1>5, <1>6, <1>7, <1>8 DEF Next

(* The inductive invariant: ordered indices, and room for an empty buffer  *)
(* to return to kCheapPrepend.                                             *)
LEMMA ValidInvariant == Spec => []Valid(b)
<1>1. Init => Valid(b)
  BY FreshProperties DEF Init
<1>2. Valid(b) /\ [Next]_b => Valid(b)'
  BY QueueStep DEF Valid
<1> QED
  BY <1>1, <1>2, PTL DEF Spec

(* The indices stay ordered and inside the vector, whatever is called.     *)
THEOREM TypeCorrect == Spec => []TypeOK
<1>1. Valid(b) => TypeOK
  BY DEF Valid, Buf, TypeOK
<1> QED
  BY <1>1, ValidInvariant, PTL

(* The asserts of makeSpace() and ensureWritableBytes() hold for every     *)
(* buffer that can arise and every length.                                 *)
THEOREM MakeSpaceNeverFails == Spec => []MakeSpaceSound
<1>1. ASSUME Valid(b) PROVE MakeSpaceSound
  <2> SUFFICES ASSUME NEW len \in 0..MaxChunk
               PROVE  /\ WritableBytes(b) < len /\ ~MustGrow(b, len) => kCheapPrepend < b.r
                      /\ WritableBytes(EnsureWritableBytes(b, len)) >= len
    BY DEF MakeSpaceSound
  <2>1. len \in Nat
    BY BufferAssumption
  <2>2. b.r \in Nat /\ b.w \in Nat /\ Len(b.cells) \in Nat /\ kCheapPrepend \in Nat
    BY <1>1, LenProperties, BufferAssumption DEF Valid, Buf
  <2>3. WritableBytes(b) < len /\ ~MustGrow(b, len) => kCheapPrepend < b.r
    BY <2>1, <2>2 DEF MustGrow, WritableBytes
  <2>4. WritableBytes(EnsureWritableBytes(b, len)) >= len
    BY <1>1, <2>1, EnsureWritableProperties
  <2> QED
    BY <2>3, <2>4
<1> QED
  BY <1>1, ValidInvariant, PTL

(* append() and readFd() put exactly their bytes behind the readable ones  *)
(* and shrink() keeps them, in every buffer that can arise.                *)
THEOREM WritesAreExact == Spec => []WritesExact
<1>1. ASSUME Valid(b) PROVE WritesExact
  <2>1. ASSUME NEW s \in Chunk
        PROVE  /\ Readable(Appended(b, s)) = Readable(b) \o s
               /\ Readable(ReadFrom(b, s)) = Readable(b) \o s
    BY <1>1, ChunkIsSeq, AppendedProperties, ReadFromProperties
  <2>2. ASSUME NEW n \in 0..MaxChunk PROVE Readable(Shrunk(b, n)) = Readable(b)
    <3>1. n \in Nat
      BY BufferAssumption
    <3> QED
      BY <1>1, <3>1, ShrunkProperties
  <2> QED
    BY <2>1, <2>2 DEF WritesExact
<1> QED
  BY <1>1, ValidInvariant, PTL

(* The readable bytes of a Buffer are a queue: growing, compacting and the *)
(* second buffer of readFd() cannot be told from outside.                  *)
THEOREM BufferImplementsByteQueue == Spec => ImplementsByteQueue
<1>1. Init => Queue!Init
  BY FreshProperties DEF Init, Queue!Init
<1>2. Valid(b) /\ [Next]_b => [Queue!Next]_(Readable(b))
  BY QueueStep
<1> QED
  BY <1>1, <1>2, ValidInvariant, PTL DEF Spec, ImplementsByteQueue, Queue!Spec
=============================================================================

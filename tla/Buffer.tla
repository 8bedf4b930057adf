------------------------------- MODULE Buffer -------------------------------
(***************************************************************************)
(* muduo::net::Buffer: a vector with a reader and a writer index, grown or *)
(* compacted by makeSpace() when a write does not fit, and filled from a   *)
(* socket by readFd() through a second buffer on the stack.                *)
(*                                                                         *)
(* A Buffer is a record: the vector, as a sequence, and the two indices,   *)
(* which are offsets from its beginning.                                   *)
(***************************************************************************)
EXTENDS Naturals, Sequences

CONSTANTS Bytes,          \* values of a byte; 0 is one of them
          kCheapPrepend,  \* room in front of a fresh buffer
          kInitialSize,   \* room behind it
          ExtraBuf,       \* size of extrabuf in readFd()
          MaxChunk,       \* bound: bytes in one call
          MaxSize         \* bound: size of the vector

ASSUME BufferAssumption == /\ kCheapPrepend \in Nat /\ kInitialSize \in Nat
                           /\ ExtraBuf \in Nat /\ MaxChunk \in Nat
                           /\ 0 \in Bytes

Chunk == UNION {[1..n -> Bytes] : n \in 0..MaxChunk}

VARIABLE b      \* the buffer

FreshBuffer == [cells |-> [i \in 1..kCheapPrepend + kInitialSize |-> 0],
                r |-> kCheapPrepend, w |-> kCheapPrepend]
Init == b = FreshBuffer

ReadableBytes(u) == u.w - u.r
WritableBytes(u) == Len(u.cells) - u.w
Readable(u) == SubSeq(u.cells, u.r + 1, u.w)

(* std::copy of s into the vector at offset k. *)
CopyAt(cells, k, s) ==
  [i \in 1..Len(cells) |-> IF i - k \in 1..Len(s) THEN s[i - k] ELSE cells[i]]

(* vector::resize() to a larger size: new bytes are zero. *)
Resized(cells, n) == [i \in 1..n |-> IF i <= Len(cells) THEN cells[i] ELSE 0]

MustGrow(u, len) == WritableBytes(u) + u.r < len + kCheapPrepend

(* makeSpace(): grow, or move the readable bytes to the front. *)
MakeSpace(u, len) ==
  IF MustGrow(u, len)
  THEN [u EXCEPT !.cells = Resized(@, u.w + len)]
  ELSE [cells |-> CopyAt(u.cells, kCheapPrepend, Readable(u)),
        r |-> kCheapPrepend, w |-> kCheapPrepend + ReadableBytes(u)]

EnsureWritableBytes(u, len) ==
  IF WritableBytes(u) < len THEN MakeSpace(u, len) ELSE u

(* append() *)
Appended(u, s) ==
  LET e == EnsureWritableBytes(u, Len(s))
  IN  [e EXCEPT !.cells = CopyAt(@, e.w, s), !.w = @ + Len(s)]

(* Mutant: the second buffer is appended before the writer index moves. *)
ReadFromTooEarly(u, s) ==
  LET n == WritableBytes(u)
      direct == CopyAt(u.cells, u.w, SubSeq(s, 1, n))
  IN  IF Len(s) <= n
      THEN [u EXCEPT !.cells = CopyAt(@, u.w, s), !.w = @ + Len(s)]
      ELSE Appended([u EXCEPT !.cells = direct], SubSeq(s, n + 1, Len(s)))

(* readFd(): readv() has put s into the writable bytes, then into extrabuf. *)
ReadFrom(u, s) ==
  LET n == WritableBytes(u)
      direct == CopyAt(u.cells, u.w, SubSeq(s, 1, n))
  IN  IF Len(s) <= n
      THEN [u EXCEPT !.cells = CopyAt(@, u.w, s), !.w = @ + Len(s)]
      ELSE Appended([u EXCEPT !.cells = direct, !.w = Len(u.cells)],
                    SubSeq(s, n + 1, Len(s)))

(* shrink(): a fresh buffer receives the readable bytes and is swapped in. *)
Shrunk(u, reserve) ==
  Appended(EnsureWritableBytes(FreshBuffer, ReadableBytes(u) + reserve), Readable(u))

-----------------------------------------------------------------------------
AppendBytes(s) == b' = Appended(b, s) /\ Len(Appended(b, s).cells) <= MaxSize

(* The second buffer is offered only when the first is the smaller. *)
Offered(u) == LET n == WritableBytes(u)
              IN  n + (IF n < ExtraBuf THEN ExtraBuf ELSE 0)
ReadFd(s) == /\ Len(s) <= Offered(b)
             /\ Len(ReadFrom(b, s).cells) <= MaxSize
             /\ b' = ReadFrom(b, s)

(* retrieve(), and retrieveAll() when everything is taken. *)
Retrieve(n) == /\ n <= ReadableBytes(b)
               /\ b' = IF n < ReadableBytes(b) THEN [b EXCEPT !.r = @ + n]
                       ELSE [b EXCEPT !.r = kCheapPrepend, !.w = kCheapPrepend]

Unwrite(n) == /\ n <= ReadableBytes(b)
              /\ b' = [b EXCEPT !.w = @ - n]

(* Mutant: the bytes are copied before the reader index moves. *)
PrependTooLate(s) == /\ Len(s) <= b.r
                     /\ b' = [b EXCEPT !.r = @ - Len(s),
                                       !.cells = CopyAt(@, b.r, s)]

Prepend(s) == /\ Len(s) <= b.r
              /\ b' = [b EXCEPT !.r = @ - Len(s),
                                !.cells = CopyAt(@, b.r - Len(s), s)]

Shrink(reserve) == /\ Len(Shrunk(b, reserve).cells) <= MaxSize
                   /\ b' = Shrunk(b, reserve)

Next == \/ \E s \in Chunk : AppendBytes(s) \/ ReadFd(s) \/ Prepend(s)
        \/ \E n \in 0..MaxSize : Retrieve(n) \/ Unwrite(n)
        \/ \E n \in 0..MaxChunk : Shrink(n)

Spec == Init /\ [][Next]_b

-----------------------------------------------------------------------------
(* The indices are ordered and inside the vector, whose bytes are bytes.   *)
TypeOK == /\ b \in [cells : Seq(Bytes), r : Nat, w : Nat]
          /\ b.r <= b.w /\ b.w <= Len(b.cells)

(* The asserts of makeSpace() and ensureWritableBytes(), for every length: *)
(* bytes are moved only when there is room in front to gain, and after it  *)
(* the write fits.                                                         *)
MakeSpaceSound == \A len \in 0..MaxChunk :
  /\ WritableBytes(b) < len /\ ~MustGrow(b, len) => kCheapPrepend < b.r
  /\ WritableBytes(EnsureWritableBytes(b, len)) >= len

(* Whatever state the indices are in, append() and readFd() put exactly    *)
(* the bytes they were given behind the readable ones, whether they fit,   *)
(* fill the vector to the last byte, spill into the second buffer or make  *)
(* the vector grow; shrink() keeps the readable bytes.                     *)
WritesExact == /\ \A s \in Chunk :
                    /\ Readable(Appended(b, s)) = Readable(b) \o s
                    /\ Len(s) <= Offered(b) => Readable(ReadFrom(b, s)) = Readable(b) \o s
               /\ \A n \in 0..MaxChunk : Readable(Shrunk(b, n)) = Readable(b)

(* Growing, compacting, the reset of empty buffers and the second buffer   *)
(* of readFd() are invisible: the readable bytes are a queue.              *)
Queue == INSTANCE ByteQueue WITH content <- Readable(b)
ImplementsByteQueue == Queue!Spec
=============================================================================

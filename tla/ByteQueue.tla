----------------------------- MODULE ByteQueue -----------------------------
(***************************************************************************)
(* What muduo::net::Buffer promises: a queue of bytes that is written at   *)
(* the back and read at the front, with the two exceptions the class       *)
(* offers, taking back what was just written and writing in front of what  *)
(* is there.  There is no capacity, no index and no copy here.             *)
(***************************************************************************)
EXTENDS Naturals, Sequences

CONSTANTS Chunk       \* the byte strings one call writes

VARIABLE content

Init == content = <<>>

AppendBytes(s) == content' = content \o s
Retrieve(n) == content' = SubSeq(content, n + 1, Len(content))
Unwrite(n) == content' = SubSeq(content, 1, Len(content) - n)
Prepend(s) == content' = s \o content

Next == \/ \E s \in Chunk : AppendBytes(s) \/ Prepend(s)
        \/ \E n \in 0..Len(content) : Retrieve(n) \/ Unwrite(n)

Spec == Init /\ [][Next]_content
=============================================================================

--------------------------- MODULE ClientSession ---------------------------
(***************************************************************************)
(* ClientSession as a reader of its connection: the client's packets are   *)
(* cut by TCP at any byte, readFd() appends what arrived to the input      *)
(* buffer, and onRead() takes whole packets out of it and gives each to    *)
(* process().                                                              *)
(*                                                                         *)
(* A packet is a length of IntSize bytes and a body of that many bytes.  A *)
(* byte is known by its packet and its place in it, so a packet read from  *)
(* the wrong place would show.                                             *)
(***************************************************************************)
EXTENDS Naturals, Sequences

CONSTANTS BodySizes,    \* sizes of the bodies the client sends
          MaxPackets    \* bound: packets the client sends

ASSUME PacketsAssumption == BodySizes \subseteq Nat

IntSize == 4

VARIABLES
  sent,         \* sizes of the bodies the client has sent, in order
  wire,         \* their bytes the server has not read yet
  inputBuffer,  \* readable bytes of the connection's input buffer
  spc,          \* "idle" in the event loop, "onRead" in the while loop
  processed     \* the bodies given to process(), in order

sessionVars == <<sent, wire, inputBuffer, spc, processed>>

SessionInit == /\ sent = <<>>
               /\ wire = <<>>
               /\ inputBuffer = <<>>
               /\ spc = "idle"
               /\ processed = <<>>

(* Byte k of packet i. *)
BytesOf(i, size) == [k \in 1..IntSize + size |-> <<i, k>>]

ClientSends(size) == /\ Len(sent) < MaxPackets
                     /\ sent' = Append(sent, size)
                     /\ wire' = wire \o BytesOf(Len(sent) + 1, size)
                     /\ UNCHANGED <<inputBuffer, spc, processed>>

(* TcpConnection::handleRead(): some of the bytes, then the callback. *)
BytesArrive(n) == /\ spc = "idle"
                  /\ n <= Len(wire)
                  /\ inputBuffer' = inputBuffer \o SubSeq(wire, 1, n)
                  /\ wire' = SubSeq(wire, n + 1, Len(wire))
                  /\ spc' = "onRead"
                  /\ UNCHANGED <<sent, processed>>

(* The int32_t that buf->peek() points at: the length of a packet, if one  *)
(* starts here, and anything if the reader is out of step.                 *)
PacketSizes == LET first == Head(inputBuffer)
               IN  IF first[2] = 1 THEN {sent[first[1]]} ELSE BodySizes

Body(size) == SubSeq(inputBuffer, IntSize + 1, IntSize + size)

Complete(size) == Len(inputBuffer) >= IntSize + size
HasSize == Len(inputBuffer) >= IntSize

(* Mutant: an if for the while: one packet for each call of onRead(). *)
TakePacketOnce ==
  /\ spc = "onRead"
  /\ HasSize
  /\ \E size \in PacketSizes :
       /\ Complete(size)
       /\ inputBuffer' = SubSeq(inputBuffer, IntSize + size + 1, Len(inputBuffer))
       /\ processed' = Append(processed, Body(size))
  /\ spc' = "idle"
  /\ UNCHANGED <<sent, wire>>

(* One round of the while loop with a whole packet.  process() changes no  *)
(* state: readData<T>() assigns to its pointer and not through it, so cmd  *)
(* stays -1, which no case of the switch names, and a body too short for   *)
(* the fixed fields is only logged.                                        *)
TakePacket ==
  /\ spc = "onRead"
  /\ HasSize
  /\ \E size \in PacketSizes :
       /\ Complete(size)
       /\ inputBuffer' = SubSeq(inputBuffer, IntSize + size + 1, Len(inputBuffer))
       /\ processed' = Append(processed, Body(size))
  /\ UNCHANGED <<sent, wire, spc>>

(* No size, or a packet that is not all there: back to the event loop. *)
ReturnFromOnRead == /\ spc = "onRead"
                    /\ HasSize => \E size \in PacketSizes : ~Complete(size)
                    /\ spc' = "idle"
                    /\ UNCHANGED <<sent, wire, inputBuffer, processed>>

SessionNext == \/ \E size \in BodySizes : ClientSends(size)
               \/ \E n \in 1..Len(wire) : BytesArrive(n)
               \/ TakePacket
               \/ ReturnFromOnRead

SessionSpec == SessionInit /\ [][SessionNext]_sessionVars

-----------------------------------------------------------------------------
BodyOf(i) == [k \in 1..sent[i] |-> <<i, IntSize + k>>]

(* However the stream is cut, process() is given exactly the bodies that   *)
(* were sent, each whole, in order and once.                               *)
PacketsIntact == /\ Len(processed) <= Len(sent)
                 /\ \A i \in 1..Len(processed) : processed[i] = BodyOf(i)

(* When onRead() returns no whole packet is left in the buffer: none waits *)
(* for bytes of the next one to arrive.                                    *)
NothingHeldBack ==
  spc = "idle" /\ inputBuffer # <<>> =>
    Len(inputBuffer) < IntSize + sent[Head(inputBuffer)[1]]

(* However TCP cuts and joins the stream, onRead() gives process() the     *)
(* packets as they were sent and leaves no whole one behind.               *)
PacketsSound == PacketsIntact /\ NothingHeldBack

(* Every packet that is sent is processed, also when nothing follows it.   *)
AllProcessed == \A i \in 1..MaxPackets : Len(sent) >= i ~> Len(processed) >= i
=============================================================================

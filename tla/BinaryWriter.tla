---------------------------- MODULE BinaryWriter ----------------------------
(***************************************************************************)
(* How an answer is encoded: BinaryWriter and the two places that use it,  *)
(* onHeartbeatResponse() and the other handlers with ClientSession::send().*)
(* A handler writes the command, the sequence number and the data into a   *)
(* writer, takes the message out, writes its length into the cleared       *)
(* writer and sends the length followed by the message.                    *)
(*                                                                         *)
(* A byte of a number or of the data is known by its name and place, a     *)
(* byte of a compressed length by its value.                               *)
(***************************************************************************)
EXTENDS Naturals, Sequences

CONSTANTS DataSizes,       \* sizes of the data the handlers answer with
          UndefinedBytes,  \* 7-bit results of a shift by 64 or more
          MaxOut,          \* bound: bytes the memory can hold for `out`
          SizeMax          \* bound: the largest size_t

ASSUME SizesAssumption == /\ DataSizes \subseteq Nat
                          /\ UndefinedBytes \subseteq 0..127
                          /\ MaxOut \in Nat
                          /\ SizeMax \in Nat /\ SizeMax > MaxOut + 10

IntWidth == 4
SizeTSize == 8
Handlers == {"onHeartbeatResponse", "send"}
Nul == <<"nul", 0>>

VARIABLES
  wpc,     \* the statement that is next
  handler, \* which of the two senders runs
  size,    \* data.size()
  msg,     \* _msg
  index,   \* _index
  out,     \* the string compress() builds, then the handler's own `out`
  i,       \* counter of the loop in compress()
  packet   \* what conn->send() was given last

writerVars == <<wpc, handler, size, msg, index, out, i, packet>>

WriterInit == /\ wpc = "idle"
              /\ handler \in Handlers
              /\ size = 0
              /\ msg = <<>>
              /\ index = 0
              /\ out = <<>>
              /\ i = 4
              /\ packet = <<>>

-----------------------------------------------------------------------------
Bytes(name, width) == [k \in 1..width |-> <<name, k>>]
Byte(value) == <<"byte", value>>

(* A handler starts with a new writer; a heartbeat has no data. *)
Begin(h, n) == /\ wpc = "idle"
               /\ h = "onHeartbeatResponse" => n = 0
               /\ wpc' = "writeCmd"
               /\ handler' = h
               /\ size' = n
               /\ msg' = <<>>
               /\ index' = 0
               /\ out' = <<>>
               /\ UNCHANGED <<i, packet>>

(* writeData<T>(): resize to _index + sizeof(T), and copy the value to the *)
(* front of the message.                                                   *)
Resized(length) == [k \in 1..length |-> IF k <= Len(msg) THEN msg[k] ELSE Nul]
Fixed(name, width) ==
  [k \in 1..index + width |->
     IF k <= width THEN <<name, k>> ELSE Resized(index + width)[k]]

WriteCmd == /\ wpc = "writeCmd"
            /\ msg' = Fixed("cmd", IntWidth)
            /\ index' = index + IntWidth
            /\ wpc' = "writeSeq"
            /\ UNCHANGED <<handler, size, out, i, packet>>

WriteSeq == /\ wpc = "writeSeq"
            /\ msg' = Fixed("seq", IntWidth)
            /\ index' = index + IntWidth
            /\ wpc' = "compress"
            /\ UNCHANGED <<handler, size, out, i, packet>>

(* compress() of a small length. *)
CompressSmall == /\ wpc = "compress"
                 /\ size < 128
                 /\ out' = Append(out, Byte(size))
                 /\ wpc' = "append"
                 /\ UNCHANGED <<handler, size, msg, index, i, packet>>

CompressLarge == /\ wpc = "compress"
                 /\ size >= 128
                 /\ i' = 4
                 /\ wpc' = "round"
                 /\ UNCHANGED <<handler, size, msg, index, out, packet>>

(* c = (len >> (7 * i)) & 0x7F; a shift by 64 or more is undefined.  The   *)
(* loop meets no i between 5 and 9, as the memory ends first.              *)
Shifted == IF i <= 4 THEN {(size \div 2^(7 * i)) % 128} ELSE UndefinedBytes

(* i-- of a size_t: i >= 0 holds for every i, and 0 is followed by the     *)
(* largest value.                                                          *)
Decremented == IF i = 0 THEN SizeMax ELSE i - 1

Round == /\ wpc = "round"
         /\ Len(out) < MaxOut
         /\ i' = Decremented
         /\ \E c \in Shifted :
              out' = IF c = 0 /\ out = <<>> THEN out
                     ELSE Append(out, Byte(IF i = 0 THEN c ELSE c + 128))
         /\ UNCHANGED <<wpc, handler, size, msg, index, packet>>

(* out += c finds no memory: nothing catches the exception. *)
OutOfMemory == /\ wpc = "round"
               /\ Len(out) = MaxOut
               /\ wpc' = "dead"
               /\ UNCHANGED <<handler, size, msg, index, out, i, packet>>

Grown == index + Len(out) + size

(* writeData(string): the compressed length and the data. *)
AppendData == /\ wpc = "append"
              /\ msg' = msg \o out \o Bytes("data", size)
              /\ index' = Grown
              /\ wpc' = "getMsg"
              /\ UNCHANGED <<handler, size, out, i, packet>>

Clear == msg' = <<>> /\ index' = 0

(* Mutant: the writer is not cleared before the length is written. *)
TakeMsgNoClear == /\ wpc = "getMsg"
                  /\ out' = msg
                  /\ wpc' = "send"
                  /\ UNCHANGED <<handler, size, msg, index, i, packet>>

(* out = getMsg(), and clear(). *)
TakeMsg == /\ wpc = "getMsg"
           /\ out' = msg
           /\ Clear
           /\ wpc' = "send"
           /\ UNCHANGED <<handler, size, i, packet>>

(* The length is an int in send() and a size_t in onHeartbeatResponse();   *)
(* the message is what getMsg() returns, followed by `out`.                *)
LengthSize == IF handler = "send" THEN IntWidth ELSE SizeTSize
SendPacket == /\ wpc = "send"
              /\ msg' = Fixed("length", LengthSize)
              /\ index' = index + LengthSize
              /\ packet' = msg' \o out
              /\ wpc' = "idle"
              /\ UNCHANGED <<handler, size, out, i>>

WriterRuns == \/ WriteCmd \/ WriteSeq
              \/ CompressSmall \/ CompressLarge \/ Round \/ OutOfMemory
              \/ AppendData \/ TakeMsg \/ SendPacket

WriterNext == \/ \E h \in Handlers, n \in DataSizes : Begin(h, n)
              \/ WriterRuns

WriterSpec == WriterInit /\ [][WriterNext]_writerVars

-----------------------------------------------------------------------------
(* _index is the size of the message whatever was written: the next        *)
(* writeData<T>() resizes to _index + sizeof(T) and would cut the message  *)
(* off, or leave a hole in it, if the two had drifted apart.               *)
IndexIsSize == index = Len(msg)

Sent == wpc = "idle" /\ packet # <<>>

(* The bytes behind the length.  Both numbers were copied to the front of  *)
(* the message: where the command belongs are the bytes of the sequence    *)
(* number, and where that belongs is what resize() filled in.              *)
Message == [k \in 1..2 * IntWidth |-> IF k <= IntWidth THEN <<"seq", k>> ELSE Nul]
           \o <<Byte(size)>> \o Bytes("data", size)

(* What conn->send() is given, for both senders: a length, of four bytes   *)
(* from send() and of eight from onHeartbeatResponse(), and the message it *)
(* counts, with the data whole at the end and the command nowhere in it.   *)
AnswerLayout == Sent => packet = Bytes("length", LengthSize) \o Message

(* Only data of less than 128 bytes is answered with.  For longer data     *)
(* compress() does not come back: it ends with the memory full, whatever   *)
(* the shifts of its wrapped counter give, and not after five bytes.       *)
OnlySmallIsSent ==
  /\ wpc \in {"append", "getMsg", "send"} \/ Sent => size < 128
  /\ wpc \in {"round", "dead"} => size >= 128
  /\ wpc = "dead" => Len(out) = MaxOut

(* The two ways of writing to a message agree on its end at every step, an *)
(* answer that is sent has exactly the layout above, and one that is not   *)
(* sent had data of 128 bytes or more and ends the process.                *)
AnswerSound == IndexIsSize /\ AnswerLayout /\ OnlySmallIsSent

(* Every answer that is begun is sent when its data is shorter than 128    *)
(* bytes, and runs the process out of memory when it is not.               *)
AnswersEnd == /\ (wpc = "writeCmd" /\ size < 128) ~> Sent
              /\ (wpc = "writeCmd" /\ size >= 128) ~> (wpc = "dead")
=============================================================================

--------------------------- MODULE ProtobufCodec ---------------------------
(***************************************************************************)
(* muduo::net::ProtobufCodecLite: messages framed by their length, with a  *)
(* tag and a checksum, read from a stream that comes in arbitrary pieces.  *)
(* The four bytes of a length, a tag or a checksum are one unit, so that   *)
(* kHeaderLen and kChecksumLen are 1 and kMinMessageLen is 2.  The codec   *)
(* has no raw callback, as in RpcChannel.                                  *)
(***************************************************************************)
EXTENDS Integers, Sequences, FiniteSets, SequencesExt

CONSTANTS Payloads,       \* serialized messages: sequences of units
          Faults,         \* what may be wrong with a frame, besides nothing
          MaxMessageLen,  \* kMaxMessageLen
          MaxFrames       \* bound: frames on the connection

PayloadUnits == UNION {ToSet(p) : p \in Payloads}

ASSUME CodecAssumption == /\ MaxMessageLen \in Nat
                          /\ Faults \subseteq {"short", "long", "sum", "tag"}
                          /\ \A p \in Payloads : p \in Seq(PayloadUnits) /\ Len(p) + 2 <= MaxMessageLen

VARIABLES frames,    \* what the peer has sent: payload and fault
          coming,    \* the units that have not arrived
          inbuf,     \* the input buffer
          reading,   \* the loop thread is in onMessage()
          messages,  \* what messageCallback_ was given
          errors     \* the codes errorCallback_ was given

codecVars == <<frames, coming, inbuf, reading, messages, errors>>

kHeaderLen == 1
kChecksumLen == 1
kMinMessageLen == 1 + kChecksumLen

(* checksum() tells different contents apart. *)
Checksum(content) == [checksum |-> content]

(* fillEmptyBuffer(): tag, message and checksum, their length in front *)
FillEmptyBuffer(tag, payload) ==
  LET content == <<tag>> \o payload
  IN  <<Len(content) + kChecksumLen>> \o content \o <<Checksum(content)>>

(* A frame as the peer sends it, damaged or of another protocol *)
FrameUnits(f) ==
  LET units == FillEmptyBuffer(IF f.fault = "tag" THEN "OTHR" ELSE "RPC0", f.payload)
  IN  CASE f.fault = "short" -> [units EXCEPT ![1] = kMinMessageLen - 1]
        [] f.fault = "long" -> [units EXCEPT ![1] = MaxMessageLen + 1]
        [] f.fault = "sum" -> [units EXCEPT ![Len(units)] = Checksum(<<>>)]
        [] OTHER -> units

Frames == [payload : Payloads, fault : {"none"} \cup Faults]

CodecInit ==
  /\ frames = <<>> /\ coming = <<>>
  /\ inbuf = <<>> /\ reading = FALSE
  /\ messages = <<>> /\ errors = <<>>

-----------------------------------------------------------------------------
PeerSends(f) ==
  /\ Len(frames) < MaxFrames
  /\ frames' = Append(frames, f)
  /\ coming' = coming \o FrameUnits(f)
  /\ UNCHANGED <<inbuf, reading, messages, errors>>

PiecesArrive ==
  \E n \in 1..Len(coming) :
    /\ ~reading
    /\ inbuf' = inbuf \o SubSeq(coming, 1, n)
    /\ coming' = SubSeq(coming, n + 1, Len(coming))
    /\ reading' = TRUE
    /\ UNCHANGED <<frames, messages, errors>>

(* parse() of the content: checksum, then tag, then the message *)
ValidateChecksum(content) ==
  content[Len(content)] = Checksum(SubSeq(content, 1, Len(content) - kChecksumLen))
Payload(content) == SubSeq(content, 2, Len(content) - kChecksumLen)
ParseContent(content) ==
  IF ~ValidateChecksum(content) THEN "kCheckSumError"
  ELSE IF Head(content) # "RPC0" THEN "kUnknownMessageType"
  ELSE IF "garbled" \in ToSet(Payload(content)) THEN "kParseError"
  ELSE "kNoError"

(* Mutant: the loop waits for one unit more than a frame has. *)
FrameIsThereLate == Len(inbuf) >= kMinMessageLen + kHeaderLen /\ Len(inbuf) > kHeaderLen + inbuf[1]

LengthIsThere == Len(inbuf) >= kMinMessageLen + kHeaderLen
InvalidLength == LengthIsThere /\ (inbuf[1] > MaxMessageLen \/ inbuf[1] < kMinMessageLen)
FrameIsThere == LengthIsThere /\ Len(inbuf) >= kHeaderLen + inbuf[1]
Content == SubSeq(inbuf, kHeaderLen + 1, kHeaderLen + inbuf[1])

RetrieveFrame == inbuf' = SubSeq(inbuf, kHeaderLen + inbuf[1] + 1, Len(inbuf))

(* onMessage(), an iteration of its loop *)
TakeMessage ==
  /\ reading
  /\ FrameIsThere /\ ~InvalidLength
  /\ ParseContent(Content) = "kNoError"
  /\ messages' = Append(messages, Payload(Content))
  /\ RetrieveFrame
  /\ UNCHANGED <<frames, coming, reading, errors>>

(* errorCallback_ shuts the connection down; the frame stays in the buffer *)
(* and is refused again when more bytes come.                              *)
RefuseFrame ==
  /\ reading
  /\ \/ InvalidLength /\ errors' = Append(errors, "kInvalidLength")
     \/ /\ ~InvalidLength
        /\ FrameIsThere /\ ParseContent(Content) # "kNoError"
        /\ errors' = Append(errors, ParseContent(Content))
  /\ reading' = FALSE
  /\ UNCHANGED <<frames, coming, inbuf, messages>>

WaitForMore ==
  /\ reading
  /\ ~InvalidLength /\ ~FrameIsThere
  /\ reading' = FALSE
  /\ UNCHANGED <<frames, coming, inbuf, messages, errors>>

CodecNext == (\E f \in Frames : PeerSends(f)) \/ PiecesArrive \/ TakeMessage \/ RefuseFrame \/ WaitForMore

CodecSpec == CodecInit /\ [][CodecNext]_codecVars

-----------------------------------------------------------------------------
Good(f) == f.fault = "none" /\ "garbled" \notin ToSet(f.payload)
FaultCode(f) == CASE f.fault \in {"short", "long"} -> "kInvalidLength"
                  [] f.fault = "sum" -> "kCheckSumError"
                  [] f.fault = "tag" -> "kUnknownMessageType"
                  [] OTHER -> "kParseError"

(* Messages come out as they were sent, in order and whole, up to the      *)
(* first bad frame; nothing after that frame is ever read, and every error *)
(* reported is that frame's.                                               *)
MessagesIntact ==
  /\ Len(messages) <= Len(frames)
  /\ \A i \in DOMAIN messages : Good(frames[i]) /\ messages[i] = frames[i].payload
  /\ errors # <<>> =>
       LET bad == Len(messages) + 1
       IN  bad <= Len(frames) /\ ~Good(frames[bad]) /\ \A i \in DOMAIN errors : errors[i] = FaultCode(frames[bad])

(* onMessage() leaves no whole frame in the buffer: none waits for bytes   *)
(* of the next, also when several came in one piece.                       *)
NoFrameHeldBack ==
  ~reading /\ errors = <<>> /\ Len(messages) < Len(frames)
    => Len(inbuf) < Len(FrameUnits(frames[Len(messages) + 1]))

(* However frames are cut and joined, messages come out whole, in order    *)
(* and at once, up to the first bad frame and never beyond it.             *)
FramesSound == MessagesIntact /\ NoFrameHeldBack
=============================================================================

------------------------------ MODULE LogFile ------------------------------
(***************************************************************************)
(* muduo::LogFile over FileUtil::AppendFile, as operators on the record of *)
(* its members.  A file is known by the second in its name; what matters   *)
(* of its contents is how much was written, and what stdio still holds.    *)
(*                                                                         *)
(* Every write to the disk may fail part of the way: of what stdio holds   *)
(* the first `out` lines get there, and stdio forgets the rest (glibc      *)
(* empties its buffer, and fclose() frees it).  append() reports a failing *)
(* fwrite() on stderr; nobody looks at the results of fflush() and         *)
(* fclose().                                                               *)
(***************************************************************************)
EXTENDS Naturals, Sequences

CONSTANTS RollSize,       \* rollSize_
          RollPerSeconds, \* kRollPerSeconds_
          FlushInterval,  \* flushInterval_ of the file
          CheckEveryN     \* checkEveryN_

ASSUME LogFileAssumption == /\ RollSize \in Nat /\ FlushInterval \in Nat
                            /\ RollPerSeconds \in Nat \ {0} /\ CheckEveryN \in Nat \ {0}

(* Before rollFile() of the constructor; `lost` is history. *)
NoFile == [count |-> 0, startOfPeriod |-> 0, lastRoll |-> 0, lastFlush |-> 0,
           bytes |-> 0, disk |-> <<>>, held |-> <<>>, lost |-> {}, names |-> <<>>]

LinesOf(b) == {b[i] : i \in 1..Len(b)}

(* What stdio holds is written, as far as the disk takes it. *)
Flush(f, out) == [f EXCEPT !.disk = @ \o SubSeq(f.held, 1, out), !.held = <<>>,
                           !.lost = @ \cup LinesOf(SubSeq(f.held, out + 1, Len(f.held)))]

(* rollFile(): fclose() of the old AppendFile writes what it held.         *)
RollFile(f, now, out) ==
  IF now > f.lastRoll
  THEN [Flush(f, out) EXCEPT !.lastRoll = now, !.lastFlush = now,
                             !.startOfPeriod = (now \div RollPerSeconds) * RollPerSeconds,
                             !.bytes = 0, !.names = Append(@, now)]
  ELSE f

(* AppendFile::append(): stdio takes all of the lines, or has to write and *)
(* fails; then the lines are not counted.                                  *)
Write(f, lines, out) ==
  LET g == [f EXCEPT !.held = @ \o lines]
  IN  IF out = Len(g.held) THEN [g EXCEPT !.bytes = @ + Len(lines)] ELSE Flush(g, out)

(* Every CheckEveryN-th append that does not roll looks at the clock. *)
Check(f, now, out) ==
  LET g == [f EXCEPT !.count = 0]
  IN  IF f.count + 1 < CheckEveryN THEN [f EXCEPT !.count = @ + 1]
      ELSE IF (now \div RollPerSeconds) * RollPerSeconds # f.startOfPeriod THEN RollFile(g, now, out)
      ELSE IF now - f.lastFlush > FlushInterval THEN Flush([g EXCEPT !.lastFlush = now], out)
      ELSE g

(* append_unlocked(), on what append() has left *)
AfterWrite(w, now, out) == IF w.bytes > RollSize THEN RollFile(w, now, out) ELSE Check(w, now, out)
=============================================================================

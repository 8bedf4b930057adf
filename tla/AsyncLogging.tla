---------------------------- MODULE AsyncLogging ----------------------------
(***************************************************************************)
(* muduo::AsyncLogging: append() fills buffers under the mutex, a thread   *)
(* of its own swaps them out and writes them to a LogFile.  A buffer is    *)
(* the sequence of its lines, an absent one NoBuffer, so that the juggling *)
(* of currentBuffer_, nextBuffer_ and the thread's two spare buffers is as *)
(* in the code.  Lines are numbered in the order of append().              *)
(***************************************************************************)
EXTENDS LogFile, FiniteSets

CONSTANTS BufferSize, \* kLargeBuffer, in lines
          DropAbove,  \* 25: more buffers than this are dropped
          MaxLines,   \* bound: lines appended
          TooLong,    \* lines as long as a whole buffer
          MaxTime,    \* bound: the clock, in seconds
          DiskFails,  \* BOOLEAN: fwrite, fflush and fclose may fail
          NoBuffer    \* an empty unique_ptr

ASSUME AsyncAssumption == /\ BufferSize \in Nat \ {0, 1} /\ DropAbove \in Nat \ {0, 1}
                          /\ NoBuffer # <<>>

VARIABLES lpc,       \* the logging thread: new, top, lock, sleep, relock, write, refill, ended
          apc,       \* the owner: new, up, join, stopped
          logging,   \* running_
          current,   \* currentBuffer_
          nextBuf,   \* nextBuffer_
          buffers,   \* buffers_
          new1,      \* newBuffer1
          new2,      \* newBuffer2
          toWrite,   \* buffersToWrite
          written,   \* how many of them output.append() has had
          output,    \* the LogFile
          now,       \* the clock
          appended,  \* lines appended so far
          gone       \* history: lines given up before they were written, and why

frontVars == <<current, nextBuf, buffers, appended>>
backVars == <<new1, new2, toWrite, written, output>>
logVars == <<lpc, apc, logging, frontVars, backVars, now, gone>>

Notice == 0   \* the line "Dropped log messages at ..."
Reasons == {"long", "dropped"}

LogInit == /\ lpc = "new" /\ apc = "new"
           /\ logging = FALSE
           /\ current = <<>> /\ nextBuf = <<>> /\ buffers = <<>>
           /\ new1 = NoBuffer /\ new2 = NoBuffer
           /\ toWrite = <<>> /\ written = 0
           /\ output = NoFile
           /\ now = 1
           /\ appended = 0
           /\ gone = [r \in Reasons |-> {}]

GiveUp(why, lost) == gone' = [gone EXCEPT ![why] = @ \cup lost]

(* avail() > len *)
Fits(b, line) == BufferSize - Len(b) > (IF line \in TooLong THEN BufferSize ELSE 1)

(* FixedBuffer::append(): a line that does not fit is left out in silence. *)
Fill(b, line) == IF Fits(b, line) THEN Append(b, line) ELSE b

-----------------------------------------------------------------------------
(* append(), in any thread: one critical section. *)

AppendFits == /\ appended < MaxLines
              /\ Fits(current, appended + 1)
              /\ current' = Append(current, appended + 1)
              /\ appended' = appended + 1
              /\ UNCHANGED <<lpc, apc, logging, nextBuf, buffers, backVars, now, gone>>

Woken == IF lpc = "sleep" THEN "relock" ELSE lpc

AppendSwitches == /\ appended < MaxLines
                  /\ ~Fits(current, appended + 1)
                  /\ buffers' = Append(buffers, current)
                  /\ current' = Fill(<<>>, appended + 1)
                  /\ nextBuf' = NoBuffer
                  /\ appended' = appended + 1
                  /\ lpc' = Woken
                  /\ GiveUp("long", {appended + 1} \ LinesOf(current'))
                  /\ UNCHANGED <<apc, logging, backVars, now>>

-----------------------------------------------------------------------------
(* The owner. *)

(* start() returns when the thread has counted latch_ down; the thread     *)
(* opens its LogFile and makes its spare buffers.                          *)
StartLog == /\ apc = "new"
            /\ apc' = "up"
            /\ logging' = TRUE
            /\ lpc' = "top"
            /\ output' = RollFile(output, now, 0)
            /\ new1' = <<>> /\ new2' = <<>>
            /\ UNCHANGED <<frontVars, toWrite, written, now, gone>>

(* stop(): the flag and the signal, neither under the mutex. *)
StopLog == /\ apc = "up"
           /\ apc' = "join"
           /\ logging' = FALSE
           /\ lpc' = Woken
           /\ UNCHANGED <<frontVars, backVars, now, gone>>

LogJoined == /\ apc = "join"
             /\ lpc = "ended"
             /\ apc' = "stopped"
             /\ UNCHANGED <<lpc, logging, frontVars, backVars, now, gone>>

-----------------------------------------------------------------------------
(* threadFunc() *)

(* How many of n lines the disk may take *)
Taken(n) == IF DiskFails THEN 0..n ELSE {n}

Flushes == \E out \in Taken(Len(output.held)) : output' = Flush(output, out)

(* LogFile::append() *)
Appends(lines) ==
  \E taken \in Taken(Len(output.held) + Len(lines)) :
    LET w == Write(output, lines, taken)
    IN  \E out \in Taken(Len(w.held)) : output' = AfterWrite(w, now, out)

(* while (running_), with the flush that ends the thread. *)
LoopTest == /\ lpc = "top"
            /\ lpc' = IF logging THEN "lock" ELSE "ended"
            /\ IF logging THEN output' = output ELSE Flushes
            /\ UNCHANGED <<apc, logging, frontVars, new1, new2, toWrite, written, now, gone>>

(* An if, not a while: the thread goes on whatever woke it. *)
LoggerSleeps == /\ lpc = "lock"
                /\ buffers = <<>>
                /\ lpc' = "sleep"
                /\ UNCHANGED <<apc, logging, frontVars, backVars, now, gone>>

(* waitForSeconds() returns by its timeout, or spuriously. *)
LoggerTimeout == /\ lpc = "sleep"
                 /\ lpc' = "relock"
                 /\ UNCHANGED <<apc, logging, frontVars, backVars, now, gone>>

(* The buffers change hands. *)
SwapBuffers == /\ \/ lpc = "lock" /\ buffers # <<>>
                  \/ lpc = "relock"
               /\ toWrite' = Append(buffers, current)
               /\ buffers' = <<>>
               /\ current' = new1
               /\ new1' = NoBuffer
               /\ nextBuf' = IF nextBuf = NoBuffer THEN new2 ELSE nextBuf
               /\ new2' = IF nextBuf = NoBuffer THEN NoBuffer ELSE new2
               /\ written' = 0
               /\ lpc' = "write"
               /\ UNCHANGED <<apc, logging, output, appended, now, gone>>

(* Too many buffers: a notice is written and all but two are dropped. *)
DropBuffers == /\ lpc = "write"
               /\ written = 0 /\ Len(toWrite) > DropAbove
               /\ Appends(<<Notice>>)
               /\ toWrite' = SubSeq(toWrite, 1, 2)
               /\ GiveUp("dropped", UNION {LinesOf(toWrite[i]) : i \in 3..Len(toWrite)})
               /\ UNCHANGED <<lpc, apc, logging, frontVars, new1, new2, written, now>>

WriteBuffer == /\ lpc = "write"
               /\ written < Len(toWrite)
               /\ written > 0 \/ Len(toWrite) <= DropAbove
               /\ Appends(toWrite[written + 1])
               /\ written' = written + 1
               /\ UNCHANGED <<lpc, apc, logging, frontVars, new1, new2, toWrite, now, gone>>

(* Mutant: only one buffer is kept for reuse. *)
RefillKeepsOne ==
  /\ lpc = "write" /\ written > 0
  /\ written = Len(toWrite)
  /\ LET kept == IF Len(toWrite) > 1 THEN 1 ELSE Len(toWrite)
     IN  new1' = IF kept > 0 THEN <<>> ELSE NoBuffer
  /\ toWrite' = <<>>
  /\ written' = 0
  /\ lpc' = "top"
  /\ UNCHANGED <<apc, logging, frontVars, new2, output, now, gone>>

(* At most two of the written buffers become newBuffer1 and newBuffer2;    *)
(* the round ends with a flush.                                            *)
Refill == /\ lpc = "write" /\ written > 0
          /\ written = Len(toWrite)
          /\ LET kept == IF Len(toWrite) > 2 THEN 2 ELSE Len(toWrite)
             IN  /\ new1' = IF new1 = NoBuffer /\ kept > 0 THEN <<>> ELSE new1
                 /\ new2' = IF new2 = NoBuffer /\ kept > (IF new1 = NoBuffer THEN 1 ELSE 0) THEN <<>> ELSE new2
          /\ toWrite' = <<>>
          /\ written' = 0
          /\ Flushes
          /\ lpc' = "top"
          /\ UNCHANGED <<apc, logging, frontVars, now, gone>>

Tick == /\ now < MaxTime
        /\ now' = now + 1
        /\ UNCHANGED <<lpc, apc, logging, frontVars, backVars, gone>>

LoggerStep == LoopTest \/ LoggerSleeps \/ LoggerTimeout \/ SwapBuffers \/ DropBuffers \/ WriteBuffer \/ Refill

LogNext == AppendFits \/ AppendSwitches \/ StartLog \/ StopLog \/ LogJoined \/ LoggerStep \/ Tick

LogSpec == LogInit /\ [][LogNext]_logVars

-----------------------------------------------------------------------------
(* What was written to the files, one behind the other *)
Logged == output.disk \o output.held
GivenUp == output.lost \cup UNION {gone[r] : r \in Reasons}

Ascending(s) == \A i, j \in 1..Len(s) : i < j /\ s[i] # Notice /\ s[j] # Notice => s[i] < s[j]

(* Two spare buffers are enough: at the top of each round both are there,  *)
(* whatever append() did in the meantime (the assertions of threadFunc()). *)
SparesReady == lpc \in {"top", "lock", "sleep", "relock"} =>
                 new1 = <<>> /\ new2 = <<>> /\ toWrite = <<>>

(* The file holds the lines in the order of append(), each once, and what  *)
(* is missing before the last line in it was given up: dropped with a      *)
(* notice, too long for a buffer, or in the hands of stdio when a write to *)
(* the disk failed, be it of fwrite(), fflush() or fclose().               *)
LogIsOrdered ==
  /\ Ascending(Logged)
  /\ \A last \in LinesOf(Logged) :
       \A l \in 1..last : (l \in LinesOf(Logged)) # (l \in GivenUp)

(* No two log files have one name: a second roll within a second stays in  *)
(* the file of the first.                                                  *)
FileNamesDistinct ==
  \A i, j \in 1..Len(output.names) : i < j => output.names[i] < output.names[j]

(* Between rounds, and once the thread has ended, nothing is left in the   *)
(* buffer of stdio: what the disk took is written, and the rest is known   *)
(* to be lost.                                                             *)
FlushedEachRound == lpc \in {"top", "lock", "sleep", "relock", "ended"} => output.held = <<>>

(* The swaps of buffers lose, repeat and reorder no line, across bursts,   *)
(* drops and failing writes; both spare buffers are back for each round,   *)
(* each round is flushed, and files have names of their own.               *)
LogSound == SparesReady /\ LogIsOrdered /\ FlushedEachRound /\ FileNamesDistinct

(* A line reaches the disk or is given up without any further append(),    *)
(* unless the log is stopped.                                              *)
LinesReachDisk ==
  \A l \in 1..MaxLines : appended >= l ~> l \in LinesOf(output.disk) \cup GivenUp \/ apc # "up"

(* stop() returns.  Its signal may come before the thread sleeps and be    *)
(* lost; the timeout of the wait is what ends it.                          *)
LogStopReturns == apc = "join" ~> apc = "stopped"
=============================================================================

------------------------------- MODULE Stream -------------------------------
(***************************************************************************)
(* Byte-stream I/O: src/io/posix/FdOps.cpp, which PipeRead, PipeWrite,     *)
(* File, TcpSocket, StdIn and StdOut forward to.                           *)
(*                                                                         *)
(* Readers and Writers are coroutines that each run one operation on the   *)
(* two ends of one stream.  A coroutine suspends in PollEvent before every *)
(* system call; between the moment poll() reports the descriptor and the   *)
(* system call, another coroutine woken by the same poll() may have run,   *)
(* so the call may find nothing to read or no room.  A byte is the pair of *)
(* its writer and its offset in the writer's buffer.  The kernel's side is *)
(* external: a bounded queue, short reads and short writes of any length.  *)
(***************************************************************************)
EXTENDS Naturals, SequencesExt

CONSTANTS
  Readers, Writers,  \* coroutines with an operation on the stream
  ReadSize,          \* size of the readers' buffers
  WriteSize,         \* size of the writers' buffers
  Capacity           \* bytes the kernel holds between the two ends

ASSUME StreamAssumption ==
  /\ {ReadSize, WriteSize, Capacity} \subseteq Nat \ {0}
  /\ Readers \cap Writers = {}

VARIABLES
  st,         \* what each coroutine is doing
  op,         \* the operation it runs
  got,        \* the filled part of a reader's buffer
  last,       \* what the last system call of a reader found
  written,    \* `written` of a writer
  pipe,       \* bytes in the kernel
  sent,       \* every byte the kernel has accepted
  taken,      \* every byte the kernel has handed out, with its reader
  readOpen, writeOpen  \* the two ends

vars == <<st, op, got, last, written, pipe, sent, taken, readOpen, writeOpen>>

Coros == Readers \cup Writers

(* "polling": in PollEvent; "woken": resumed, about to make the call;       *)
(* "done" and "failed": co_returned a count or an error; "gone": dropped.   *)
States == {"idle", "polling", "woken", "done", "failed", "gone"}
Ended == {"done", "failed", "gone"}
Operations == {"all", "some", "try"}

Init ==
  /\ st = [c \in Coros |-> "idle"]
  /\ op \in [Coros -> Operations]
  /\ got = [r \in Readers |-> <<>>]
  /\ last = [r \in Readers |-> "none"]
  /\ written = [w \in Writers |-> 0]
  /\ pipe = <<>> /\ sent = <<>> /\ taken = <<>>
  /\ readOpen = TRUE /\ writeOpen = TRUE

Moves(c, s) == st' = [st EXCEPT ![c] = s]

(* The loops of read and write enter PollEvent only while bytes are         *)
(* missing; read_some and write_some always do; try_* never do.             *)
Start(c, size) ==
  /\ st[c] = "idle"
  /\ Moves(c, CASE op[c] = "all" -> IF size > 0 THEN "polling" ELSE "done"
                [] op[c] = "some" -> "polling"
                [] op[c] = "try" -> "woken")
  /\ UNCHANGED <<op, got, last, written, pipe, sent, taken, readOpen, writeOpen>>

(* poll(): data or the end of the stream; room or no reader. *)
Readable == pipe # <<>> \/ ~writeOpen
Writable == Len(pipe) < Capacity \/ ~readOpen

Wake(c) ==
  /\ st[c] = "polling"
  /\ IF c \in Readers THEN Readable ELSE Writable
  /\ Moves(c, "woken")
  /\ UNCHANGED <<op, got, last, written, pipe, sent, taken, readOpen, writeOpen>>

(* The coroutine's future is dropped. *)
Drop(c) ==
  /\ st[c] \in {"polling", "woken"}
  /\ Moves(c, "gone")
  /\ UNCHANGED <<op, got, last, written, pipe, sent, taken, readOpen, writeOpen>>

-----------------------------------------------------------------------------
(* Reading.                                                                 *)

(* Mutant: one call is enough. *)
AfterOneRead(r, n) == "done"

(* Where the coroutine is after n bytes are in its buffer. *)
AfterRead(r, n) == IF op[r] = "all" /\ n < ReadSize THEN "polling" ELSE "done"

(* Mutant: the next call reads into the start of the buffer. *)
FillFromStart(r, bytes) == bytes

(* The system call reads into buf.subspan(read). *)
Fill(r, bytes) == got[r] \o bytes

ReadData(r) ==
  /\ st[r] = "woken" /\ pipe # <<>>
  /\ \E n \in 1 .. Len(pipe) :
       /\ n <= ReadSize - Len(got[r])
       /\ LET bytes == SubSeq(pipe, 1, n) IN
          /\ got' = [got EXCEPT ![r] = Fill(r, bytes)]
          /\ taken' = taken \o [i \in 1 .. n |-> <<bytes[i], r>>]
          /\ pipe' = SubSeq(pipe, n + 1, Len(pipe))
          /\ Moves(r, AfterRead(r, Len(got'[r])))
  /\ last' = [last EXCEPT ![r] = "data"]
  /\ UNCHANGED <<op, written, sent, readOpen, writeOpen>>

(* Mutant: a read of zero bytes goes round the loop again. *)
ReadEndLoops(r) ==
  /\ st[r] = "woken" /\ pipe = <<>> /\ ~writeOpen
  /\ last' = [last EXCEPT ![r] = "end"]
  /\ Moves(r, AfterRead(r, Len(got[r])))
  /\ UNCHANGED <<op, got, written, pipe, sent, taken, readOpen, writeOpen>>

(* ::read returns 0: the end of the stream breaks the loop. *)
ReadEnd(r) ==
  /\ st[r] = "woken" /\ pipe = <<>> /\ ~writeOpen
  /\ last' = [last EXCEPT ![r] = "end"]
  /\ Moves(r, "done")
  /\ UNCHANGED <<op, got, written, pipe, sent, taken, readOpen, writeOpen>>

(* Mutant: an error is an error, whatever was read before it. *)
ErrorAfterRead(r) == "failed"

(* An error is returned only if it loses nothing: bytes read by earlier     *)
(* calls of the loop are returned instead.                                  *)
OnReadError(r) == IF Len(got[r]) = 0 THEN "failed" ELSE "done"

(* EWOULDBLOCK: somebody else has read what poll() saw. *)
ReadAgain(r) ==
  /\ st[r] = "woken" /\ pipe = <<>> /\ writeOpen
  /\ last' = [last EXCEPT ![r] = "again"]
  /\ Moves(r, OnReadError(r))
  /\ UNCHANGED <<op, got, written, pipe, sent, taken, readOpen, writeOpen>>

(* Any other error (EINTR, EIO, ECONNRESET), whatever there is to read.      *)
ReadError(r) ==
  /\ st[r] = "woken"
  /\ last' = [last EXCEPT ![r] = "error"]
  /\ Moves(r, OnReadError(r))
  /\ UNCHANGED <<op, got, written, pipe, sent, taken, readOpen, writeOpen>>

-----------------------------------------------------------------------------
(* Writing.                                                                 *)

(* What the n-th call passes to ::write: always the whole buffer.           *)
Offered(w) == [i \in 1 .. WriteSize |-> <<w, i>>]

(* The loop condition of write(), with n bytes written. *)
MoreToWrite(w, n) == op[w] = "all" /\ n < WriteSize

(* ::write accepts a part of what it is offered. *)
WriteData(w) ==
  /\ st[w] = "woken" /\ readOpen /\ Len(pipe) < Capacity
  /\ \E n \in 1 .. WriteSize :
       /\ n <= Capacity - Len(pipe)
       /\ LET bytes == SubSeq(Offered(w), 1, n) IN
          pipe' = pipe \o bytes /\ sent' = sent \o bytes
       /\ written' = [written EXCEPT ![w] = written[w] + n]
       /\ Moves(w, IF MoreToWrite(w, written'[w]) THEN "polling" ELSE "done")
  /\ UNCHANGED <<op, got, last, taken, readOpen, writeOpen>>

(* Any error of ::write (EWOULDBLOCK, EPIPE, EINTR, EIO): it is returned     *)
(* only if nothing was written before.                                      *)
WriteError(w) ==
  /\ st[w] = "woken"
  /\ Moves(w, IF written[w] = 0 THEN "failed" ELSE "done")
  /\ UNCHANGED <<op, got, last, written, pipe, sent, taken, readOpen, writeOpen>>

-----------------------------------------------------------------------------
(* The owners close their ends when their operations are over. *)
CloseRead ==
  /\ readOpen /\ \A r \in Readers : st[r] \in Ended
  /\ readOpen' = FALSE
  /\ UNCHANGED <<st, op, got, last, written, pipe, sent, taken, writeOpen>>

CloseWrite ==
  /\ writeOpen /\ \A w \in Writers : st[w] \in Ended
  /\ writeOpen' = FALSE
  /\ UNCHANGED <<st, op, got, last, written, pipe, sent, taken, readOpen>>

ReadStep(r) ==
  \/ Start(r, ReadSize) \/ Wake(r)
  \/ ReadData(r) \/ ReadEnd(r) \/ ReadAgain(r) \/ ReadError(r)
WriteStep(w) == Start(w, WriteSize) \/ Wake(w) \/ WriteData(w) \/ WriteError(w)

Next ==
  \/ \E r \in Readers : ReadStep(r)
  \/ \E w \in Writers : WriteStep(w)
  \/ \E c \in Coros : Drop(c)
  \/ CloseRead \/ CloseWrite

Spec == Init /\ [][Next]_vars

(* Coroutines are started and resumed, and owners close what they own. *)
Fairness ==
  /\ \A r \in Readers : WF_vars(ReadStep(r))
  /\ \A w \in Writers : WF_vars(WriteStep(w))
  /\ WF_vars(CloseRead) /\ WF_vars(CloseWrite)

FairSpec == Spec /\ Fairness

-----------------------------------------------------------------------------
Bytes == Writers \X (1 .. WriteSize)

(* Counters and buffers stay in range: no reader's buffer is overrun and    *)
(* the kernel's queue is bounded.                                           *)
TypeOK ==
  /\ st \in [Coros -> States]
  /\ op \in [Coros -> Operations]
  /\ \A r \in Readers : got[r] \in Seq(Bytes) /\ Len(got[r]) <= ReadSize
  /\ last \in [Readers -> {"none", "data", "end", "again", "error"}]
  /\ written \in [Writers -> 0 .. 2 * WriteSize - 1]
  /\ pipe \in Seq(Bytes) /\ Len(pipe) <= Capacity
  /\ sent \in Seq(Bytes)
  /\ taken \in Seq(Bytes \X Readers)
  /\ readOpen \in BOOLEAN /\ writeOpen \in BOOLEAN

(* The places in taken of the bytes that reader r got. *)
TakenBy(r) == {i \in DOMAIN taken : taken[i][2] = r}

(* What came out is what went in, in order, and each reader's buffer is     *)
(* exactly what it took, in order, across all the calls of its loop.        *)
NothingLost ==
  /\ TypeOK
  /\ sent = [i \in DOMAIN taken |-> taken[i][1]] \o pipe
  /\ \A r \in Readers :
       /\ Len(got[r]) = Cardinality(TakenBy(r))
       /\ \A i \in TakenBy(r) :
            got[r][Cardinality({j \in TakenBy(r) : j <= i})] = taken[i][1]

(* A read that answers with an error has consumed nothing. *)
ErrorLosesNothing ==
  \A r \in Readers : st[r] = "failed" => \A i \in DOMAIN taken : taken[i][2] # r

(* read() returns short (FdOps.cpp's read loop) only at the end of the      *)
(* stream, or when an error other than EWOULDBLOCK came after some bytes;   *)
(* a reader that has the stream to itself never meets EWOULDBLOCK.          *)
FullOrEnd ==
  \A r \in Readers :
    (st[r] = "done" /\ op[r] = "all" /\ Len(got[r]) < ReadSize)
      => \/ last[r] = "end"
         \/ last[r] = "error" /\ got[r] # <<>>
         \/ \E q \in Readers \ {r} : got[q] # <<>>

(* Every operation ends once the other end is served or closed: nobody      *)
(* polls for ever.                                                          *)
AllEnd == <>(\A c \in Coros : st[c] \in Ended)

(* "Write all bytes from buffer" (TcpSocket.hpp:72): what write() sends is  *)
(* the buffer, byte after byte.                                             *)
WritesBuffer ==
  \A w \in Writers :
    IsPrefix(SelectSeq(sent, LAMBDA b : b[1] = w), Offered(w))

=============================================================================

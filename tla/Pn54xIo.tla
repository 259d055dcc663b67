------------------------------ MODULE Pn54xIo ------------------------------
(***************************************************************************)
(* The HAL I/O object of src/src/pn54x_io.c: the device descriptor, the    *)
(* child process that performs the blocking reads and the pipe it answers  *)
(* through, the watch on that pipe, the pending write completion, and the  *)
(* functions a client calls (start, stop, write, cancel_write, set_power,  *)
(* free).  Packet reassembly comes from ReadHandle.tla.                    *)
(*                                                                         *)
(* Everything but the child runs in one GLib main loop thread.  The client *)
(* is called back in three places.  Two of them (write completion, error)  *)
(* are the last thing their function does, so what the client calls from   *)
(* there is the same as a call made right after.  The third is in the      *)
(* middle of the packet loop: in phase "client" the client may call back   *)
(* into the object while pn54x_io_read_handle() is on the stack.           *)
(***************************************************************************)
EXTENDS ReadHandle

CONSTANTS
  Streams,           \* what a driver may return to one reader process
  MaxRead,           \* PN54X_MAX_PACKET_SIZE
  ReentrantOps,      \* what the client calls inside client->fn->read()
  MaxChildren,       \* bound: process table entries for fork()
  MaxForkFailures    \* bound: failures of fork()

ASSUME IoAssumption ==
  /\ Streams \subseteq Seq(Byte)
  /\ MaxRead \in Nat \ {0}
  /\ ReentrantOps \subseteq { "start", "write", "cancel_write", "set_power" }
  /\ MaxChildren \in Nat \ {0}
  /\ MaxForkFailures \in Nat

VARIABLES
  alive,         \* the object exists: refcount is 1
  client,        \* client # NULL
  fd,            \* fd >= 0
  readFd,        \* read_fd >= 0
  readChannel,   \* read_channel # NULL
  readWatch,     \* read_watch_id # 0
  readPid,       \* read_pid
  writeId,       \* write_id # 0
  writeCb,       \* write_cb # NULL
  \* the operating system
  proc,          \* the process table: what became of each child
  pipe,          \* the bytes in the pipe of the current reader
  openFds,       \* how many descriptors the process has open
  stream,        \* what the driver returns to the reader of the session
  sent,          \* how much of it the reader has read
  \* what the client knows, and history
  session,       \* see Sessions
  listening,     \* started, and not stopped, powered off or told of an error
  owed,          \* waiting for the completion of a write
  forkFailures   \* how often fork() failed

structVars == << alive, client, fd, readFd, readChannel, readWatch, readPid >>
writeVars == << writeId, writeCb, owed >>
driverVars == << stream, sent >>
historyVars == << session, listening, forkFailures >>
vars == << structVars, writeVars, proc, pipe, openFds, driverVars,
           historyVars, handleVars >>

Children == 1 .. MaxChildren

(***************************************************************************)
(* "started" by a client that had stopped the previous session, or         *)
(* "restarted" on top of a session that only lost power.                   *)
(***************************************************************************)
Sessions == { "stopped", "started", "restarted" }

ControlTypeOK ==
  /\ alive \in BOOLEAN /\ client \in BOOLEAN /\ fd \in BOOLEAN
  /\ readFd \in BOOLEAN /\ readChannel \in BOOLEAN /\ readWatch \in BOOLEAN
  /\ readPid \in 0 .. MaxChildren
  /\ writeId \in BOOLEAN /\ writeCb \in BOOLEAN
  /\ proc \in [Children -> { "free", "running", "exited" }]
  /\ openFds \in Nat
  /\ session \in Sessions /\ listening \in BOOLEAN /\ owed \in BOOLEAN
  /\ forkFailures \in 0 .. MaxForkFailures

DataTypeOK ==
  /\ pipe \in Seq(Byte)
  /\ stream \in Streams \cup { << >> }
  /\ sent \in 0 .. Len(stream)
  /\ HandleTypeOK

TypeOK == ControlTypeOK /\ DataTypeOK

Init ==
  /\ alive = FALSE /\ client = FALSE /\ fd = FALSE
  /\ readFd = FALSE /\ readChannel = FALSE /\ readWatch = FALSE
  /\ readPid = 0
  /\ writeId = FALSE /\ writeCb = FALSE /\ owed = FALSE
  /\ proc = [c \in Children |-> "free"]
  /\ pipe = << >>
  /\ openFds = 0
  /\ stream = << >> /\ sent = 0
  /\ session = "stopped" /\ listening = FALSE /\ forkFailures = 0
  /\ HandleInit

MayCall(op) ==
  /\ alive
  /\ phase = "idle" \/ (phase = "client" /\ op \in ReentrantOps)

Count(isOpen) == IF isOpen THEN 1 ELSE 0

-----------------------------------------------------------------------------
(* pn54x_io_open(), when it succeeds *)
Open ==
  /\ fd' = TRUE
  /\ openFds' = openFds + Count(~fd)

(* kill() and waitpid(), for a child that runs and for one that is dead *)
Reaped_NeverWaitedFor ==
  [c \in Children |-> IF c = readPid THEN "exited" ELSE proc[c]]

Reaped == [c \in Children |-> IF c = readPid THEN "free" ELSE proc[c]]

(***************************************************************************)
(* close(), once for each: g_io_channel_shutdown() has closed read_fd, and *)
(* close(self->read_fd) finds no descriptor of that number any more.  The  *)
(* fault is that it finds one that was opened in between.                  *)
(***************************************************************************)
Closed_OneTooMany == 2 * Count(readFd) + Count(fd)

Closed == Count(readFd) + Count(fd)

(***************************************************************************)
(* pn54x_io_close(), but for the child.  A device opened by the same call  *)
(* is closed again; leaked counts the descriptors that call opened and     *)
(* lost.                                                                   *)
(***************************************************************************)
CloseFields(leaked) ==
  /\ readWatch' = FALSE
  /\ readChannel' = FALSE
  /\ readPid' = 0
  /\ readFd' = FALSE
  /\ fd' = FALSE
  /\ openFds' = openFds + leaked - Closed
  /\ pipe' = << >>

(* pn54x_io_close() *)
Close(leaked) == CloseFields(leaked) /\ proc' = Reaped

(***************************************************************************)
(* pn54x_io_new(): power is switched off, which opens the device, and if   *)
(* it worked closes it; if not, the object is finalized.                   *)
(***************************************************************************)
New(driverWorks) ==
  /\ ~alive
  /\ alive' = driverWorks
  /\ UNCHANGED << client, fd, readFd, readChannel, readWatch, readPid, openFds,
                  writeVars, proc, pipe, driverVars, historyVars, handleVars >>

(* g_byte_array_set_size(self->read_buf, 0), or forgetting it *)
ClearReadBuf_Forgotten == UNCHANGED readBuf

ClearReadBuf == readBuf' = << >>

(* pn54x_io_stop(); the history of the session ends with it. *)
StopIo ==
  /\ client' = FALSE
  /\ writeCb' = FALSE
  /\ ClearReadBuf
  /\ writeId' = FALSE
  /\ Close(0)
  /\ owed' = FALSE
  /\ listening' = FALSE
  /\ session' = "stopped"
  /\ stream' = << >> /\ sent' = 0 /\ delivered' = << >>
  /\ UNCHANGED << forkFailures, rest, phase >>

Stop == MayCall("stop") /\ StopIo /\ UNCHANGED alive

(* pn54x_io_free(), the last reference: pn54x_io_finalize() *)
Free == MayCall("free") /\ StopIo /\ alive' = FALSE

(***************************************************************************)
(* The two outcomes of set_power().  Switching off closes everything, the  *)
(* reader included, but touches neither the client, nor read_buf, nor the  *)
(* write completion; the fault is to remove the source of the completion.  *)
(***************************************************************************)
SwitchedOff_CompletionLost ==
  /\ Close(0)
  /\ listening' = FALSE
  /\ writeId' = FALSE
  /\ UNCHANGED << writeCb, owed >>

(* Another fault: only the device is closed. *)
SwitchedOff_ReaderKept ==
  /\ fd' = FALSE
  /\ openFds' = openFds - Count(fd)
  /\ UNCHANGED << readFd, readChannel, readWatch, readPid, proc, pipe,
                  listening, writeVars >>

SwitchedOff ==
  /\ Close(0)
  /\ listening' = FALSE
  /\ UNCHANGED writeVars

(* The fault is to close everything although the ioctl has failed. *)
LeftOpen_Closed == Close(0) /\ UNCHANGED << listening, writeVars >>

LeftOpen ==
  /\ Open
  /\ UNCHANGED << readFd, readChannel, readWatch, readPid, proc, pipe,
                  listening, writeVars >>

(***************************************************************************)
(* pn54x_io_set_power(), when the device can be opened; otherwise nothing  *)
(* happens.  A failed ioctl leaves the device open, power on as well.      *)
(***************************************************************************)
SetPower(on, ioctlWorks) ==
  /\ MayCall("set_power")
  /\ IF ioctlWorks /\ ~on THEN SwitchedOff ELSE LeftOpen
  /\ UNCHANGED << alive, client, driverVars, session, forkFailures, handleVars >>

-----------------------------------------------------------------------------
(***************************************************************************)
(* pn54x_hal_io_start(), and what becomes of it.  fork() works: the parent *)
(* keeps the reading end of the pipe and watches it.  Nothing looks at the *)
(* reader there may be already: its fields are overwritten.                *)
(***************************************************************************)
FreeChildren == { c \in Children : proc[c] = "free" }

(* What fork() and the parent's code after it set, but for openFds *)
SetReader ==
  /\ FreeChildren # {}
  /\ client' = TRUE
  /\ LET child == CHOOSE c \in FreeChildren : \A d \in FreeChildren : c <= d
     IN  /\ readPid' = child
         /\ proc' = [proc EXCEPT ![child] = "running"]
  /\ fd' = TRUE
  /\ readFd' = TRUE
  /\ readChannel' = TRUE
  /\ readWatch' = TRUE
  /\ pipe' = << >>
  /\ stream' \in Streams
  /\ sent' = 0
  /\ delivered' = << >>
  /\ listening' = TRUE
  /\ session' = IF session = "stopped" THEN "started" ELSE "restarted"
  /\ UNCHANGED << alive, writeVars, forkFailures, readBuf, rest, phase >>

(* A fault: the parent keeps the writing end of the pipe. *)
StartReader_KeepsWriteEnd ==
  SetReader /\ openFds' = openFds + Count(~fd) + 2

StartReader == SetReader /\ openFds' = openFds + Count(~fd) + 1

(* pipe() fails; when the device cannot be opened nothing happens at all. *)
PipeFails ==
  /\ Close(0)
  /\ listening' = FALSE
  /\ UNCHANGED << alive, client, writeVars, driverVars, session, forkFailures,
                  handleVars >>

(***************************************************************************)
(* fork() fails: self->client is gone, and so are the numbers of both ends *)
(* of the pipe, which stay open, and that of a child there may have been:  *)
(* read_pid is 0 when pn54x_io_close() is called.                          *)
(***************************************************************************)
ForkFails ==
  /\ forkFailures < MaxForkFailures
  /\ forkFailures' = forkFailures + 1
  /\ client' = FALSE
  /\ CloseFields(2)
  /\ listening' = FALSE
  /\ session' = IF session = "stopped" THEN "stopped" ELSE "restarted"
  /\ UNCHANGED << alive, proc, writeVars, driverVars, handleVars >>

(***************************************************************************)
(* A client must not start while there is a reader                         *)
(* (GASSERT(!self->read_pid)): it stopped, or it knows that power went off.*)
(* This module has such a client; Pn54xSystem looks at one that does not   *)
(* know.                                                                   *)
(***************************************************************************)
MayStart ==
  /\ MayCall("start")
  /\ session # "stopped" => readPid = 0

Start == MayStart /\ StartReader

StartWithoutPipe == MayStart /\ PipeFails

StartWithoutFork == MayStart /\ ForkFails

-----------------------------------------------------------------------------
(***************************************************************************)
(* pn54x_hal_io_write(): a client writes between start and stop, one write *)
(* at a time, also when power has gone off since; then the device is       *)
(* opened again.  write() may fail, and a callback is optional.            *)
(***************************************************************************)
Write(works, callback) ==
  /\ MayCall("write")
  /\ session # "stopped"
  /\ ~owed
  /\ Open
  /\ IF works /\ callback
     THEN /\ writeCb' = TRUE
          /\ writeId' = TRUE
          /\ owed' = TRUE
     ELSE UNCHANGED writeVars
  /\ UNCHANGED << alive, client, readFd, readChannel, readWatch, readPid, proc,
                  pipe, driverVars, historyVars, handleVars >>

(* A fault: the callback is forgotten and its source is not removed. *)
CancelWrite_KeepsSource ==
  /\ MayCall("cancel_write")
  /\ writeCb' = FALSE
  /\ owed' = FALSE
  /\ UNCHANGED << writeId, structVars, proc, pipe, openFds, driverVars,
                  historyVars, handleVars >>

(* pn54x_hal_io_cancel_write() *)
CancelWrite ==
  /\ MayCall("cancel_write")
  /\ writeCb' = FALSE
  /\ writeId' = FALSE
  /\ owed' = FALSE
  /\ UNCHANGED << structVars, proc, pipe, openFds, driverVars, historyVars,
                  handleVars >>

(***************************************************************************)
(* pn54x_hal_io_write_complete(), an idle source: reads that are ready go  *)
(* first, except those that become ready after the main loop has looked.   *)
(***************************************************************************)
WriteComplete ==
  /\ phase = "idle"
  /\ writeId
  /\ writeId' = FALSE
  /\ writeCb' = FALSE
  /\ owed' = FALSE
  /\ UNCHANGED << structVars, proc, pipe, openFds, driverVars, historyVars,
                  handleVars >>

-----------------------------------------------------------------------------
(***************************************************************************)
(* The child's loop: it reads n bytes of the driver and writes them to the *)
(* pipe; when only some of them can be written it exits.                   *)
(***************************************************************************)
ChildForward(n, written) ==
  /\ readPid # 0
  /\ proc[readPid] = "running"
  /\ sent + n <= Len(stream)
  /\ sent' = sent + n
  /\ pipe' = pipe \o SubSeq(stream, sent + 1, sent + written)
  /\ IF written < n
     THEN proc' = [proc EXCEPT ![readPid] = "exited"]
     ELSE UNCHANGED proc
  /\ UNCHANGED << structVars, writeVars, openFds, stream, historyVars,
                  handleVars >>

ChildForwardAll == \E n \in 1 .. MaxRead : ChildForward(n, n)

ChildForwardPart ==
  \E n \in 1 .. MaxRead : \E written \in 0 .. n - 1 : ChildForward(n, written)

(* The driver's read() fails, or something else kills the child. *)
ChildExit ==
  /\ readPid # 0
  /\ proc[readPid] = "running"
  /\ proc' = [proc EXCEPT ![readPid] = "exited"]
  /\ UNCHANGED << structVars, writeVars, pipe, openFds, driverVars,
                  historyVars, handleVars >>

(***************************************************************************)
(* pn54x_io_read_callback(), G_IO_IN: what the pipe holds, up to the size  *)
(* of read_tmp_buf, goes through pn54x_io_read_handle().                   *)
(***************************************************************************)
ReadCallback ==
  LET n == IF Len(pipe) < MaxRead THEN Len(pipe) ELSE MaxRead
  IN  /\ readWatch
      /\ pipe # << >>
      /\ HandleEnter(SubSeq(pipe, 1, n))
      /\ pipe' = Drop(pipe, n)
      /\ UNCHANGED << structVars, writeVars, proc, openFds, driverVars,
                      historyVars >>

(* The watch is removed and the client told; the fault is not to tell it. *)
WatchEnds_Silently == readWatch' = FALSE /\ UNCHANGED listening

WatchEnds == readWatch' = FALSE /\ listening' = FALSE

(***************************************************************************)
(* pn54x_io_read_callback(), end of stream: the pipe is empty and its      *)
(* child, the only process to have the writing end, is gone.               *)
(***************************************************************************)
ReadError ==
  /\ phase = "idle"
  /\ readWatch
  /\ pipe = << >>
  /\ readPid # 0
  /\ proc[readPid] # "running"
  /\ WatchEnds
  /\ UNCHANGED << alive, client, fd, readFd, readChannel, readPid, writeVars,
                  proc, pipe, openFds, driverVars, session, forkFailures,
                  handleVars >>

otherVars == << structVars, writeVars, proc, pipe, openFds, driverVars,
                historyVars >>

Deliver == HandleDeliver /\ UNCHANGED otherVars

Return == HandleReturn /\ UNCHANGED otherVars

-----------------------------------------------------------------------------
ClientCalls ==
  \/ \E driverWorks \in BOOLEAN : New(driverWorks)
  \/ Free
  \/ Start \/ StartWithoutPipe \/ StartWithoutFork
  \/ Stop
  \/ \E works, callback \in BOOLEAN : Write(works, callback)
  \/ CancelWrite
  \/ \E on, ioctlWorks \in BOOLEAN : SetPower(on, ioctlWorks)

Child == ChildForwardAll \/ ChildForwardPart \/ ChildExit

MainLoop == WriteComplete \/ ReadCallback \/ ReadError \/ Deliver \/ Return

Next == ClientCalls \/ Child \/ MainLoop

Safety == Init /\ [][Next]_vars

(***************************************************************************)
(* The main loop dispatches a source that stays ready, a function on its   *)
(* stack runs to its end, and the child is scheduled.  Nothing is assumed  *)
(* of the client, nor of failures.                                         *)
(***************************************************************************)
Spec ==
  /\ Safety
  /\ WF_vars(WriteComplete)
  /\ WF_vars(ReadCallback)
  /\ WF_vars(ReadError)
  /\ WF_vars(Deliver)
  /\ WF_vars(Return)
  /\ WF_vars(ChildForwardAll)

-----------------------------------------------------------------------------
(***************************************************************************)
(* There is never a child that nobody will kill and wait for, whatever     *)
(* mixture of failed starts, power switches, stops and child deaths came   *)
(* before; the one child there may be has its device, its pipe and a       *)
(* client; and a watch is never left on a reader that has been closed, so  *)
(* pn54x_io_read_callback() always has a client to call.                   *)
(***************************************************************************)
OneReader ==
  /\ \A c \in Children : proc[c] # "free" => c = readPid
  /\ readPid # 0 => proc[readPid] # "free" /\ fd /\ client
  /\ readFd <=> readPid # 0
  /\ readChannel <=> readPid # 0
  /\ readWatch => readPid # 0

(***************************************************************************)
(* stop() and free() leave nothing that can still fire or be mistaken for  *)
(* the next session's: no reader, no watch, no pending completion, and no  *)
(* bytes in read_buf, even though set_power() and failed starts may follow *)
(* a stop.  GASSERT(!self->read_pid) holds for a client that stops first.  *)
(***************************************************************************)
StopQuiesces ==
  session = "stopped" =>
    /\ readPid = 0 /\ ~readWatch
    /\ ~writeId /\ ~writeCb
    /\ phase = "idle" /\ readBuf = << >>

(***************************************************************************)
(* A client that has been started and has since neither stopped the        *)
(* object, nor switched power off, nor been told of an error is listening: *)
(* no order of other calls, the ones made inside its own read callback     *)
(* included, and no failed call silently takes its watch away.             *)
(***************************************************************************)
NeverSilentlyDeaf == listening => readWatch /\ alive

(***************************************************************************)
(* Every open descriptor is in fd or read_fd, except the two ends of a     *)
(* pipe for each fork() that failed; once the object is freed, only those  *)
(* remain.                                                                 *)
(***************************************************************************)
DescriptorsAccounted ==
  /\ openFds = Count(fd) + Count(readFd) + 2 * forkFailures
  /\ ~alive => openFds = 2 * forkFailures

(***************************************************************************)
(* A client that keeps to one write at a time meets both assertions of     *)
(* pn54x_hal_io_write(), gets one completion for each write it is owed one *)
(* for and none for a write it cancelled, and a completion that fires has  *)
(* a client to go to unless the session was restarted without a stop.      *)
(***************************************************************************)
CompletionOwed ==
  /\ owed <=> writeId
  /\ writeId <=> writeCb
  /\ writeId /\ session # "restarted" => client

(***************************************************************************)
(* The inductive invariant behind the properties above: they need each     *)
(* other, and that only an existing object has a session and a started     *)
(* session has a client.                                                   *)
(***************************************************************************)
SessionHasClient ==
  /\ ~alive => session = "stopped"
  /\ session = "started" => client

LifecycleInv ==
  /\ ControlTypeOK
  /\ OneReader
  /\ StopQuiesces
  /\ NeverSilentlyDeaf
  /\ DescriptorsAccounted
  /\ CompletionOwed
  /\ SessionHasClient

(***************************************************************************)
(* The same for the data.  With HandleInv: the code after the packet loop  *)
(* takes the unused part for the end of read_buf, which it asks for its    *)
(* length again; what the client called in between must not have made      *)
(* read_buf shorter.                                                       *)
(***************************************************************************)
DataInv == DataTypeOK /\ HandleInv

(***************************************************************************)
(* Where the bytes of a started session are: p of them are consumed, the   *)
(* pending ones and those in the pipe come next, in this order, and as long*)
(* as the reader runs these are all it has read.  What the reference finds *)
(* in the stream is what was delivered and what it finds after p octets.   *)
(***************************************************************************)
ReaderRuns == readPid # 0 /\ proc[readPid] = "running"

ConsumedUpTo(p) ==
  /\ p + Len(Pending) + Len(pipe) <= sent
  /\ ReaderRuns => p + Len(Pending) + Len(pipe) = sent
  /\ \A i \in 1 .. Len(Pending) : Pending[i] = stream[p + i]
  /\ \A i \in 1 .. Len(pipe) : pipe[i] = stream[(p + Len(Pending)) + i]
  /\ Packets(stream) = delivered \o PacketsFrom(stream, p)

SessionBytes == session = "started" => \E p \in 0 .. sent : ConsumedUpTo(p)

(***************************************************************************)
(* In a session that was started after a stop, the client has been given   *)
(* the first packets of what the driver returned to this session's reader, *)
(* and nothing of an earlier session, whatever it did in its callbacks.    *)
(***************************************************************************)
DeliveredGenuine ==
  session = "started" =>
    LET expected == Packets(stream)
    IN  /\ Len(delivered) <= Len(expected)
        /\ delivered = SubSeq(expected, 1, Len(delivered))

(* A reader that dies is noticed: the client is told, or had given up. *)
DeathNoticed ==
  (listening /\ proc[readPid] = "exited") ~> ~listening

(***************************************************************************)
(* While the session lasts, every packet of the driver reaches the client. *)
(***************************************************************************)
EverythingDelivered ==
  (listening /\ session = "started")
    ~> (~listening \/ (phase = "idle" /\ delivered = Packets(stream)))

(***************************************************************************)
(* A write that was accepted with a callback is completed or called off,   *)
(* also when power goes off before the completion is dispatched.  Only a   *)
(* client that restarts for ever on top of its unfinished sessions could   *)
(* put the completion, an idle source, off for ever.                       *)
(***************************************************************************)
WriteResolved ==
  (owed /\ session = "started") ~> (~owed \/ session = "restarted")
=============================================================================

---------------------------- MODULE Pn54xSystem ----------------------------
(***************************************************************************)
(* The adapter (Pn54xNfcAdapter.tla) on top of the HAL I/O object          *)
(* (Pn54xIo.tla): what the adapter does to the chip with                   *)
(* pn54x_io_set_power() it does to the reader process, the watch and the   *)
(* descriptors as well, under a session that NciCore believes it has.      *)
(*                                                                         *)
(* NciCore, which is not in the repository, is the client of both.  It     *)
(* calls the adapter back from the main loop, from inside the adapter's    *)
(* own calls, and from inside the callback that hands it a packet, while   *)
(* pn54x_io_read_handle() is on the stack.  nci_core_restart() begins by   *)
(* starting its HAL I/O, without stopping it first; otherwise the core     *)
(* only stops, writes and cancels.                                         *)
(*                                                                         *)
(* So start() may find a reader that a failed switching off has left       *)
(* there.  GASSERT() is empty in a release build, and start() goes on: its *)
(* child, its watch and its descriptor are lost.                           *)
(***************************************************************************)
EXTENDS Pn54xNfcAdapter

CONSTANTS
  HeaderSize, MaxByte,             \* see NciFraming
  Streams, MaxRead, ReentrantOps,  \* see Pn54xIo
  MaxChildren, MaxForkFailures

VARIABLES
  ioAlive, client, fd, readFd, readChannel, readWatch, readPid,
  writeId, writeCb, proc, pipe, openFds, stream, sent,
  session, listening, writeOwed, forkFailures,
  readBuf, rest, phase, delivered,
  startDue,      \* the nci_core_restart() on top has not called start() yet
  informed,      \* the core has stopped, been told of an error, or not started
  chipReset,     \* the adapter has begun to reset the chip since the last start
  lost           \* the children whose number start() has overwritten

IO == INSTANCE Pn54xIo WITH alive <- ioAlive, owed <- writeOwed

ASSUME SystemAssumption == IO!FramingAssumption /\ IO!IoAssumption

ioVars == << ioAlive, client, fd, readFd, readChannel, readWatch, readPid,
             writeId, writeCb, proc, pipe, openFds, stream, sent,
             session, listening, writeOwed, forkFailures,
             readBuf, rest, phase, delivered >>
knownVars == << startDue, informed, chipReset, lost >>
sysVars == << vars, ioVars, knownVars >>

SysInit ==
  /\ Init
  /\ IO!Init
  /\ startDue = FALSE
  /\ informed = TRUE
  /\ chipReset = FALSE
  /\ lost = {}

-----------------------------------------------------------------------------
(***************************************************************************)
(* pn54x_io_set_power() as the adapter calls it: a failure may also be     *)
(* that of pn54x_io_open(), when the device is not open already.           *)
(***************************************************************************)
SwitchIo(switch) ==
  \/ switch = NoSwitch /\ UNCHANGED ioVars
  \/ switch # NoSwitch /\ IO!SetPower(switch.call = "on", switch.works)
  \/ switch # NoSwitch /\ ~switch.works /\ ~fd /\ UNCHANGED ioVars

Create(switch) == New(switch) /\ IO!New(switch.works)

(* A fault: the I/O object is forgotten. *)
Destroy_IoForgotten(switch) == Finalize(switch) /\ UNCHANGED ioVars

(* The core is finalized, and so stopped, and then the I/O object. *)
Destroy(switch) == Finalize(switch) /\ IO!Free

(***************************************************************************)
(* The base class makes its requests from the main loop and, if it calls   *)
(* back, from inside a notification and from the read callback as well,    *)
(* where the core tells it what it has found.                              *)
(***************************************************************************)
BaseClassCalls(switch) ==
  /\ phase = "idle" \/ (Reentrant /\ phase = "client")
  /\ Submit(switch) \/ CancelPowerRequest(switch)
  /\ SwitchIo(switch)

(* The core changes its states, in the main loop or in the read callback. *)
CoreCallsBack(switch) ==
  /\ phase # "loop"
  /\ ~startDue
  /\ CurrentStateChanged(switch) \/ SetsOut(switch)
  /\ SwitchIo(switch)

CoreReturns(switch) ==
  /\ ~startDue
  /\ Returns(switch)
  /\ SwitchIo(switch)

AdapterStep ==
  /\ \E switch \in Switches :
       /\ ChipAfter(switch)
       /\ \/ Create(switch) \/ Destroy(switch) \/ BaseClassCalls(switch)
          \/ CoreCallsBack(switch) \/ CoreReturns(switch)
  /\ startDue' = (calls' = Append(calls, "restart"))
  /\ chipReset' = (chipReset \/ calls' = Append(calls, "reset"))
  /\ UNCHANGED << informed, lost >>

-----------------------------------------------------------------------------
(***************************************************************************)
(* NciCore as the client of the HAL I/O.  When start() fails it knows.     *)
(*                                                                         *)
(* fork() overwrites read_pid, and the code after it the watch and the     *)
(* descriptor of a reader there was.  When pipe() fails that reader is     *)
(* closed, as it should be.                                                *)
(***************************************************************************)
CurrentReader == { readPid } \ { 0 }

CoreStarts ==
  /\ startDue
  /\ startDue' = FALSE
  /\ IO!MayCall("start")
  /\ \/ /\ IO!StartReader
        /\ informed' = FALSE /\ chipReset' = FALSE
        /\ lost' = lost \cup CurrentReader
     \/ /\ IO!ForkFails
        /\ informed' = TRUE /\ UNCHANGED chipReset
        /\ lost' = lost \cup CurrentReader
     \/ /\ IO!PipeFails
        /\ informed' = TRUE /\ UNCHANGED << chipReset, lost >>
  /\ UNCHANGED vars

CoreRunning == alive /\ (calls = << >> \/ InCall(CoreCalls))

CoreStops ==
  /\ CoreRunning
  /\ IO!Stop
  /\ informed' = TRUE
  /\ UNCHANGED << vars, startDue, chipReset, lost >>

CoreWrites ==
  /\ CoreRunning
  /\ \/ \E works, callback \in BOOLEAN : IO!Write(works, callback)
     \/ IO!CancelWrite
  /\ UNCHANGED << vars, knownVars >>

(***************************************************************************)
(* A lost child goes on too: it takes octets from the driver that the      *)
(* reader of the session will not get, until it dies.  What comes through  *)
(* its pipe and its watch is not followed.                                 *)
(***************************************************************************)
LostChild(c) ==
  /\ proc[c] = "running"
  /\ \/ /\ \E n \in 1 .. MaxRead : sent + n <= Len(stream) /\ sent' = sent + n
        /\ UNCHANGED proc
     \/ /\ proc' = [proc EXCEPT ![c] = "exited"]
        /\ UNCHANGED sent
  /\ UNCHANGED << ioAlive, client, fd, readFd, readChannel, readWatch, readPid,
                  writeId, writeCb, pipe, openFds, stream,
                  session, listening, writeOwed, forkFailures,
                  readBuf, rest, phase, delivered >>

(* The reader process runs whatever the parent does. *)
ChildRuns ==
  /\ IO!Child \/ \E c \in lost : LostChild(c)
  /\ UNCHANGED << vars, knownVars >>

(* The main loop: no call of the adapter is on the stack. *)
DataArrives ==
  /\ calls = << >>
  /\ IO!WriteComplete \/ IO!ReadCallback \/ IO!Deliver \/ IO!Return
  /\ UNCHANGED << vars, knownVars >>

(* client->fn->error() *)
ErrorArrives ==
  /\ calls = << >>
  /\ IO!ReadError
  /\ informed' = TRUE
  /\ UNCHANGED << vars, startDue, chipReset, lost >>

SysNext ==
  \/ AdapterStep
  \/ CoreStarts \/ CoreStops \/ CoreWrites
  \/ ChildRuns \/ DataArrives \/ ErrorArrives

SysSpec == SysInit /\ [][SysNext]_sysVars

-----------------------------------------------------------------------------
(***************************************************************************)
(* Switching off silently closes the reader of a session that the core     *)
(* believes in.  When power is on again the session has a reader again,    *)
(* unless the core knows better.  The one other way to lose it is a reset  *)
(* of the chip: nothing in the adapter starts the reader again after that, *)
(* and a request for power that is on already does not either.             *)
(***************************************************************************)
PoweredCoreHears ==
  AtRest /\ powerOn => readWatch \/ informed \/ chipReset

(***************************************************************************)
(* Nobody reads from a chip that has no power: however the two calls of a  *)
(* reset and the starts and stops of the core fail or nest, the only       *)
(* children there may be are those that start() has lost.                  *)
(***************************************************************************)
NoReaderWithoutPower ==
  ~chipOn => \A c \in 1 .. MaxChildren : proc[c] # "free" => c \in lost

(***************************************************************************)
(* GASSERT(!self->read_pid) in start(): while pn54x_io_set_power() works,  *)
(* nci_core_restart() finds no reader, stopped or not by the core before.  *)
(***************************************************************************)
RestartFindsNoReader == startDue /\ faults = 0 => readPid = 0

(***************************************************************************)
(* Once the adapter is gone there is no child but the lost ones, and if    *)
(* there is none of these, no watch to fire into freed memory and no       *)
(* descriptor but those of failed forks; the adapter may go at any time,   *)
(* with power on, a request waiting and a write not completed.             *)
(***************************************************************************)
NothingOutlivesAdapter ==
  ~alive =>
    /\ ~ioAlive /\ ~writeId
    /\ \A c \in 1 .. MaxChildren : proc[c] # "free" => c \in lost
    /\ lost = {} => ~readWatch /\ openFds = 2 * forkFailures

(***************************************************************************)
(* The first line of start() as it stands there: "GASSERT(!self->read_pid)",*)
(* whatever has failed before.                                             *)
(***************************************************************************)
StartAsserted == startDue => readPid = 0
=============================================================================

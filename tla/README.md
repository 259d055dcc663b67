# TLA+ models of nfcd-pn54x-plugin

The plugin lets nfcd talk to NXP PN54x NFC controllers through a kernel driver
whose `read()` blocks and cannot be cancelled. About 1100 lines of C, one GLib
main loop thread, and one child process per session that does the reading.
Line numbers below refer to `src/src/`.

## 1. The system

| Part | Source | State | Operations |
|---|---|---|---|
| HAL I/O object | `pn54x_io.c` | `fd`, `read_fd`, `read_pid`, `read_channel`, `read_watch_id`, `client`, `write_id`, `write_cb`, refcount | `new`, `free`, `set_power`; `start`, `stop`, `write`, `cancel_write` of `NciHalIo`; the watch and idle callbacks; the child's loop |
| Packet reassembly | `pn54x_io.c` 271-342 | `read_buf`, `read_tmp_buf` | `read_handle`, once per chunk read |
| NFC adapter | `pn54x_nfc_adapter.c` | `need_power`, `power_on`, `power_switch_pending` | `submit_power_request`, `cancel_power_request`, `current_state_changed`, `next_state_changed`, `new`, `finalize` |
| Plugin | `pn54x_nfc_plugin.c` | `manager`, `adapter` | `start`, `stop` |
| Hexdump | `pn54x_io.c` 98-168 | the locals of a loop | `dump_data` |
| System wrapper | `pn54x_system.c` | none | `open`, `ioctl` |

The rest of the repository is headers, unit tests (`unit/pn54x_io`)
and packaging. NciCore (the NCI state machine), the `NfcAdapter` base class and
the manager are in other repositories; they are modelled by what the plugin
calls of them and what they call back, and marked external in the map.

How the parts interact:

- nfcd loads the **plugin**, which creates an **adapter**, which creates an
  **I/O object** and gives it to NciCore as its `NciHalIo`.
- The base class asks the adapter for power. The adapter switches the chip
  through `pn54x_io_set_power()`, drives NciCore with `nci_core_set_state()` and
  `nci_core_restart()`, and answers with `nfc_adapter_power_notify()`. NciCore
  calls the adapter back on every change of its current or next state, also from
  inside those two calls.
- NciCore starts and stops the I/O object, writes packets, and is called back
  with packets, write completions and errors. `set_power(FALSE)` closes the
  reader under a session NciCore still considers started.
- The **child** copies from the driver to a pipe; the parent watches the pipe.

What is hard about it, and what would make each part correct:

- *Reassembly*: a packet may be cut anywhere, padding octets (0xff) appear
  between packets and look like any other octet inside them. Correct when the
  client gets the packets of the byte stream, each once, whole, in order, however
  the stream was cut.
- *I/O object*: four things come and go independently (device, reader, write
  completion, half a packet) under calls that come in any order, some from inside
  the packet loop, with `open`, `pipe`, `fork`, `write` and `ioctl` failing and
  the child dying. Correct when nothing survives a `stop`, nothing is leaked, no
  completion is lost, doubled or sent to nobody, and a client that expects packets
  gets them or an error.
- *Adapter*: the decision to switch off is taken in one place and carried out
  after a call during which callbacks may have carried it out already. Correct
  when no wake-up is lost, a request gets one answer, and power that is needed,
  or in use by the core, stays on.
- *Adapter on top of the I/O object*: switching power closes the reader under a
  session NciCore still believes in, and NciCore's calls nest in the packet loop.
  Correct when a core that waits for packets can get them, a restart finds no
  reader, and nothing outlives the adapter. It is, as long as `set_power()` works
  and the chip is not reset; what is left of it otherwise is stated as such.
- *Plugin*: an adapter that could not be created, and adapters that others still
  hold when the plugin stops. Correct when references balance.
- *Hexdump*: repeated lines are counted instead of printed. Correct when the log
  still tells what was dumped.

`PROJECT.json` lists the hazards with their lines and the properties that cover
them.

## 2. The modules

| Module | What it is |
|---|---|
| `NciFraming` | `pn54x_io_read_packet_size()` and the padding loop as operators; `Packets`, the reference parser of a whole string, which walks it position by position |
| `ReadHandle` | `pn54x_io_read_handle()` split where the client gets control: `HandleEnter`, `HandleDeliver`, `HandleReturn` |
| `ReadPath` | `ReadHandle` fed with a stream cut at arbitrary places (`pn54x_io_read_callback()`, G_IO_IN) |
| `PacketStream` | the abstract specification of `ReadPath`: a stream, a position, the packets delivered |
| `Pn54xIo` | the I/O object with its child, pipe, watch and completion; composes `ReadHandle` |
| `Pn54xNfcAdapter` | the adapter, with NciCore and the base class around it |
| `PowerContract` | the abstract specification of the adapter: what the base class may rely on |
| `Pn54xSystem` | `Pn54xNfcAdapter` and `Pn54xIo` composed, NciCore being the client of both |
| `Pn54xNfcPlugin` | start and stop of the plugin, and who holds references to what |
| `Hexdump` | the dump of what is read and written |
| `ReadHandleProofs`, `ReadPathProofs`, `Pn54xIoProofs`, `Pn54xIoDataProofs`, `Pn54xNfcAdapterProofs`, `Pn54xSystemProofs`, `Pn54xNfcPluginProofs`, `HexdumpProofs` | lemmas and theorems |
| `ReadTests` | `ReadPath` with the bytes of the read tests in `src/unit/pn54x_io` |
| `MCReadPath`, `MCPn54xIo`, `MCPn54xSystem` | values for TLC; the other modules are run as they are |

### ReadPath and PacketStream

`readBuf` is `read_buf`; `rest` is the `nbytes` octets at `ptr` while the
function runs; `phase` is where it is. A chunk is what one
`g_io_channel_read_chars()` returned, from 1 to `MaxRead` octets. The code's
three cases after the loop (nothing left, erase the consumed part of `read_buf`,
move the tail into `read_buf`) are `Residue`; note that it asks for
`read_buf->len` again, and so does the model.

`PacketStream` knows nothing of reads or buffers: a step skips padding, or
delivers the next packet with some padding after it. The refinement mapping is
`pos <- received - Len(Pending)`: an octet is consumed once it has been received
and is not pending. Receiving, and the return of the handler, are stutters
unless padding was skipped.

### Pn54xIo

One variable per field (`fd >= 0` is the Boolean `fd`, and so on); the operating
system is `proc` (the process table; an exited child is a zombie until
`waitpid()`), `pipe`, and `openFds`, which counts descriptors independently of
what the object believes it holds. `session`, `listening`, `owed`,
`forkFailures`, `delivered` are history. `Close` is `pn54x_io_close()`, used as
a whole wherever the code calls it.

The client's protocol is a guard (`MayCall`, `MayStart`, `Write`):

- it starts only when no reader can be alive: after `stop`, or when it knows
  power was switched off or the start failed (`GASSERT(!self->read_pid)`);
  `session = "restarted"` marks the second case. This is the client of
  `Pn54xIo` alone. The steps of `start()` themselves (`StartReader`, `PipeFails`,
  `ForkFails`) have no such guard, because the code has none: a release build goes
  on after the assertion. `Pn54xSystem` uses them bare;
- it has one write at a time and writes only between start and stop;
- inside its read callback it may write, cancel, switch power and start
  (`ReentrantOps`): the adapter's chip reset switches power there, from NciCore's
  error handling, and a base class that asks for power there makes NciCore restart.
  It does not stop or free there. A `stop` inside the packet loop would empty
  `read_buf` while the loop points into it; no path in this repository does that.

The functions that call the client last (`write_complete`, the error path) are
followed by whatever the client calls next as steps of their own.

### Pn54xNfcAdapter and PowerContract

A call into NciCore is a frame on `calls`. While it is there the core may set
out for another state and arrive, each with its callback and the whole of
`state_check()`, which may push a frame of its own; `Return*` is the rest of the
interrupted function, which works on what was decided before the call. The core
inside a call sets out at most once (for RFST_IDLE, or for an error; a restart
begins with the initial state), which is what the callees do as far as this
repository shows. The states the adapter tells apart are four: `init` and `error`
(below RFST_IDLE), `idle`, `active` (beyond). `pending`, `powered` and `owed` are
the base class's side.

Every action takes a parameter `switch`: the `pn54x_io_set_power()` call it makes,
if any, and whether that works. A failed call leaves the chip as it was;
`MaxFaults` bounds the failures. An action makes at most one such call, so the
chip reset (lines 153-155) is two frames: `"reset"` between its two halves, and
`"recheck"` before the `state_check()` that ends `next_state_changed()`. Nothing
can run in between; the frames exist so that `Pn54xSystem` can give each half its
effect on the reader.

With `Reentrant`, the base class may submit its next request, or cancel, from
inside `nfc_adapter_power_notify()`: `told` is set by `Notify` and opens
`MayRequest` for the next step.

`PowerContract` has no core, no callbacks and no chip. A request is answered once,
with what was asked, or refused, or, if it is to switch off, left waiting; power
may go off when it is not wanted and never comes on unasked. The refinement
mapping is `wanted <- needPower` and `request <- OpenRequest` (an answer is owed);
`pending` and `powered` are the same variables. Its liveness, that
`submit_power_request()` does not leave a request undecided, comes from the
fairness of the returns.

### Pn54xSystem

`Pn54xSystem` EXTENDS the adapter and INSTANCEs the I/O object; their actions are
used whole. `SwitchIo` joins a `switch` to `IO!SetPower`. What it adds is who may
call whom when:

- the base class calls from the main loop (`phase = "idle"`) and, with `Reentrant`,
  from inside a notification, wherever on the stack that is, and from the read
  callback (`phase = "client"`);
- NciCore changes its states in the main loop or in the read callback, where a chip
  reset closes the reader while `read_handle()` is on the stack;
- `nci_core_restart()` begins with `start()` (`startDue`): no callback and no
  return comes before it, at whatever depth of the stack the restart was pushed. It
  is the only caller of `start()`, and it does not stop first;
- that `start()` is not guarded by its assertion (`CoreStarts`). If a failed
  switching off has left a reader, fork() and the code after it overwrite its number,
  its watch and its descriptor. `lost` is the set of such children. A lost child goes
  on taking octets from the driver and may die (`LostChild`); nobody kills it or waits
  for it. What comes through its pipe is not followed (section 5). When pipe() fails
  instead, the old reader is closed, as `pn54x_io_close()` still has its number;
- NciCore stops, writes and cancels whenever the adapter's own code is not running;
- `informed` is what NciCore knows: it has stopped, been told of an error by
  `client->fn->error()` or by a start that failed, or never started. `chipReset` says
  that the adapter has begun to reset the chip since the last start. Both are history,
  used by `PoweredCoreHears` only.

`Create` and `Destroy` are `pn54x_nfc_adapter_new()` and `finalize()` with their
`pn54x_io_new()` and `pn54x_io_free()`.

### Pn54xNfcPlugin

`Start(a)` has `a = NULL` when the driver is missing: the code passes it on to
`nfc_manager_add_adapter()` and reports success. `refs` counts what the code gives
and takes; who has the references is known independently (`adapter`, `listed`,
`held`, `running`). Others may hold an adapter after `stop()`, and there may be
several such at a time.

### Hexdump

One step is one iteration of the loop. A log is a sequence of lines and counts;
`Text` is what a reader makes of it, entry by entry: a count stands for as many
repetitions of the line above it.

## 3. The runs

| Run | Instance | Distinct states | Shows |
|---|---|---|---|
| `read_path` | header 2, octets 0..2, padding 2, every stream up to 7 octets, reads of 1..4 | 97 414 | reassembly equals the reference for every cut; `read_buf` holds only an incomplete packet; everything complete is delivered; `PacketStream` is implemented, liveness included |
| `read_tests` | header 3, octets 0..255, reads up to 54 | 393 | the three read tests of `test_pn54x_io.c` have the outcome they assert for every cut, not only theirs |
| `io_lifecycle` | header 1, octets 0..2, streams of 4 octets, reads of 1..2, 2 children, 1 failed fork | 158 670 | the properties of the I/O object below |
| `adapter_power` | 2 failures of `set_power` | 1 040 | the properties of the adapter below; `PowerContract` is implemented |
| `adapter_reentry` | 1 failure, a base class that calls back | 1 680 | the properties that hold for it too |
| `system` | header 1, a stream of two packets, reads of 1..2, 2 children, 1 failed fork, 1 failure of `set_power`, a base class that calls back | 2 477 135 | the properties of the composition below |
| `plugin` | 3 adapters, 2 references of others to each | 270 | references balance, and what is stopped is finalized |
| `hexdump` | octets 0 and 255, lines of 2, every data up to 9 octets | 7 506 | the log tells what was dumped |
| `power_stays_off`, `power_stays_on` | 2 and 1 failures | (violated) | see Findings |
| `start_asserted` | as `system`, without failed forks, a base class that does not call back | (violated) | see Findings |

Bounds. The framing code looks at an octet only to compare it with the padding
or to use it as a length, so three octets give: a length of 0, a length of 1, and
a length equal to the padding. Seven octets hold three packets with padding
between them and cuts in the header, in the payload and between. For the object,
a stream of four octets beginning with a two-octet packet, read by at most two
octets at a time, makes every case of `Residue` and two packets in one read
happen; a second child is what an unreaped first one would need; the history
counters are reset by each `stop`, so sessions repeat without a bound.
`MaxForkFailures` only bounds the leak. The adapter is finite but for `MaxFaults`;
two failures let both calls of a reset fail. In the composition the octets do not
matter, so the packets are the shortest there are: two of them, because the first
may reset the chip inside its callback while the second is still in the loop. Two
adapters that others hold, and a third for the next start, are all that the
plugin's counts can tell apart. Five lines, the last one shorter, let a run of
boring lines be followed by another line, by a shorter boring one, and by nothing.

Properties of `io_lifecycle`:

- `OneReader`, `StopQuiesces`, `DescriptorsAccounted`, `CompletionOwed`,
  `NeverSilentlyDeaf`: who holds what, after any history. `DescriptorsAccounted`
  states the leak of `fork()` failures (lines 464-468) as a number: two each.
- `DeliveredGenuine`: a session begun after a stop sees only its own driver's
  packets, whatever the client did in its callbacks. It is false for
  `"restarted"` sessions, where half a packet may survive in `read_buf`.
- `DeathNoticed`, `EverythingDelivered`, `WriteResolved`: liveness.

Properties of `adapter_power`:

- `UnneededIsOff`: no lost wake-up, whichever callback, request or cancellation
  came last.
- `PendingAgrees`, `NotifiedMatches`, `AnsweredOnce`: the adapter and the base
  class agree, after callbacks nested in each other.
- `ChipFollows`: `power_on` is the truth while `set_power()` works.
- `OffOnlyWhenUnused`: what `can_power_off()` found is still so when power goes
  off. `RequestResolved`: a request that waits gets its answer.
- `ImplementsPowerContract`.

`adapter_reentry` checks `RequestAsserted` (the GASSERT of line 170, also from
inside a notification), `NotifiedMatches`, `UnneededIsOff` and `RequestResolved`.
`OffOnlyWhenUnused` is not among them: `state_check()` asks `can_power_off()`,
which may call NciCore, whose callback may switch off and notify; a base class that
answers by asking for power again gets it, and the outer `state_check()` then
switches it off and says so. Nothing in the repository says that such a base class
is allowed.

Properties of `system`:

- `PoweredCoreHears`: switching off silently closes the reader of a session, and only
  the restart that comes with the next switching on brings it back. At rest, with power
  on, the core has its watch, or knows better (`informed`), or the chip has been reset
  since it started. The last is an exception the code makes necessary: nothing in the
  adapter starts the reader after a reset, and while power stays on a request for it
  (line 175) sends the core that has failed back to RFST_IDLE without a restart. Such
  a core, idle, with power and without a watch, is reachable in the model. Whether
  it is deaf depends on what NciCore does on its way out of the error state, which is
  not in this repository.
- `NoReaderWithoutPower`: a child that exists while the chip is off is one that a start
  has lost. One failure of `set_power()` is enough for such a child: off, which fails,
  on, off.
- `RestartFindsNoReader`: the assertion in `start()` holds when a restart comes
  without a stop, while `set_power()` works.
- `NothingOutlivesAdapter`: an adapter may be finalized at any time, power on and a
  write outstanding; no completion and no child but the lost ones stay, and if none
  was lost, no watch and no descriptor.

Properties of `plugin`: `HeldByItsUsers`, `ListsOurs`, `StoppedIsFinalized`. Of
`hexdump`: `LogIsComplete`, `BoringOnlyOnce` (the comment of line 121).

What these properties leave to others. `CompletionOwed` says nothing of the client of
a restarted session, `ChipFollows` nothing after a failure. That the parent closes the
writing end of the pipe, without which it would never see the end of the stream, is
seen by `DescriptorsAccounted` only. Packets that are in the pipe when the reader
dies are followed by `EverythingDelivered` only as long as the client is listening.

Every property has a mutant of the code that violates it: an operator named
after the definition it changes (`ClearReadBuf_Forgotten`), next to it.

### Fairness

- `ReadPath`, `Pn54xIo`: weak fairness on each main loop source (a source that
  stays ready is dispatched), on the rest of a function already on the stack, and
  on the child forwarding data (the scheduler). None on the client, on failures,
  or on the child's death. `WriteComplete` is an idle source, of lower priority
  than the watch; the driver's streams are finite, so it is not starved, except by
  a client that restarts for ever, which `WriteResolved` excludes.
- `Pn54xNfcAdapter`: calls return (weak), and a core that is on its way to a state
  and is not redirected arrives (strong, because a chip reset makes it wait for the
  length of a function). The second is NciCore's command timeout, an assumption
  about code outside the repository. Nothing is assumed of the base class.
- `Pn54xSystem`: none; it states safety properties only.
- `Pn54xNfcPlugin`: those who hold an adapter that the manager has removed let go
  of it. An assumption about code outside the repository, without which nothing
  would be finalized.

### Findings

1. `power_stays_off`. `pn54x_nfc_adapter.c` ignores the result of
   `pn54x_io_set_power(FALSE)` (lines 98 and 186) and clears `power_on`. From then
   on a request to switch off takes the branch "Power stays off, we are done"
   (198) while the chip is on.
2. `power_stays_on`. The chip reset ignores both its results (154-155). When the
   second call fails the chip is off, `power_on` stays TRUE, and a request for
   power takes the branch "Power stays on, we are done" (176).
3. `start_asserted`. The failure of finding 1 leaves the reader alive with
   `power_on` cleared. The next request for power calls `nci_core_restart()`, and
   `start()` begins with `GASSERT(!self->read_pid)` (`pn54x_io.c`, 423). Without
   assertions it goes on and overwrites `read_pid`, `read_channel` and
   `read_watch_id` (434-442): nobody will kill the first child or wait for it.

## 4. The proofs

All are about every value of the constants, from the named assumptions on them
(`FramingAssumption`, `ReadPathAssumption`, `IoAssumption`, `AdapterAssumption`,
`SystemAssumption`, `PluginAssumption`, `HexdumpAssumption`) only, with two
exceptions, which say so. `TestsSucceed` is about the bytes of the tests, so it assumes
the program's header size and octets. `OffOnlyWhenUnusedAlways`, `KeepsPowerContract`
and `SystemKeepsContract` assume `~Reentrant`: for a base class that calls back they
are false (see `adapter_reentry`). The other theorems about the adapter, and all the
others about the composition, hold for both kinds of base class.

- `ReadHandleProofs`: what both users of `ReadHandle` need. First the operators:
  what the padding loop leaves is a suffix that does not begin with padding;
  `ReadPacketSize` is within its buffer and does not change when octets are
  appended to a complete packet; an incomplete buffer is shorter than the longest
  packet. Then the reference: `Packets` is a recursive function of the position, and the
  lemmas say what one turn of the loop does to the walk. `SkipWalk`: padding holds
  no packet; `PacketWalk`: a complete packet comes first; `IncompleteWalk`: an
  incomplete one hides the rest; `DeliverWalk`: if the packets given away and those
  the walk still finds are all of them, they still are after one more turn. That
  the walk exists (`WalkExists`), and what it finds behind any number of padding
  octets, are inductions over a string; they are written with sets of naturals
  (`SetInduction`), see below. Last, the three steps of the handler: each keeps
  `HandleInv` and leaves the pending octets where they are in the stream.
- `ReadPathProofs`: `ReadPathInv` is inductive (`ReadPathInvariant`). `TypeOK`,
  `ResidueIncomplete` and `PendingIsTail` are not inductive by themselves: that
  what `HandleReturn` erases is what was consumed needs `RestIsTailOfReadBuf`, that
  a residue never starts with padding needs the same fact about `rest` in the loop
  (`NoPadAhead`), and that it is short needs that a whole packet never stays behind
  (`NoWholePacketKept`): together, `HandleInv`. From the invariant follow
  `TypeCorrect`, `ResidueIsIncomplete`, `PendingIsTailOfStream`, and
  `ImplementsPackets`: `Safety => PS!Safety`, each step of the read path being a
  step of `PacketStream` or a stutter. `DeliveredPackets` is the correctness of the
  reassembly, for streams of every length: by `DeliveredThenRest`, the packets
  delivered, followed by those the walk finds behind the octets consumed, are the
  packets of what was received; between reads it finds none. `PromiseIsReference`
  and `PromiseDelivers` say the same of the abstract specification: a
  behaviour of `PacketStream` ends with exactly `Packets(stream)`. So what
  `ImplementsPacketStream` checks of the read path, its liveness included, is enough.
  `TestsSucceed` is the other end of it: walking the bytes of the three read tests with
  `PacketWalk` and `SkipWalk`, the reference finds what each test expects, so they
  succeed for every cut and every read size.
- `Pn54xIoProofs`: `LifecycleInv` is inductive (`LifecycleInvariant`). Its
  conjuncts need each other: a completion has a client because a started session
  has one; `MayStart` finds no reader because a stopped session has none; the
  count of descriptors comes out even because `readFd` and `readPid` go together.
  `SessionHasClient` is the strengthening. The lemmas before it are one per kind
  of step: closing, opening, calls that touch neither, starts, writes, data. A start
  that fails at pipe() keeps the invariant with a reader as well (`PipeFailsStep`).
- `Pn54xIoDataProofs`: the buffers and the stream of the I/O object
  (`DataInvariant`, `IoTyped`, `ReadBufBounded`). `TypeOK` bounds `read_buf`, and
  the tail that `HandleReturn` moves into it is bounded only because it is an
  incomplete packet: `HandleInv` is the strengthening, here under a client that
  switches power in its callback. `OnlyGenuinePackets` rests on `SessionBytes`: in a
  session started after a stop there is a number of consumed octets behind which
  the pending ones and those in the pipe follow in the driver's stream, with nothing
  between, and while the reader runs they are all it has read; after a power switch
  or the death of the reader octets are missing, but only at the end.
- `Pn54xNfcAdapterProofs`: `AdapterInv` is inductive (`AdapterInvariant`). The
  properties speak of an adapter at rest; to prove them one must say what holds in
  the middle of a call, for every stack of frames. `Shaped` says which stacks
  there are, as far as it matters: one request at most, wherever it is, and a
  reset only on top. `RequestOn` is that request, and `CheckAbove` says that
  `state_check()` was called back inside it. `FramesKnow` is what a function
  decided before it called the core and may still rely on when it goes on (after
  `can_power_off()` in a request: power is not needed, the core is not beyond
  RFST_IDLE; in `state_check()` that only holds if the base class does not call
  back, see `adapter_reentry`); `AnswersDue` which requests are open;
  `OffIsComing` that power nobody needs is about to be switched off by a frame on
  the stack, or the core is busy; `NotifiedOrAboutTo` and `ChipIsTrue` name the
  frames in which the base class, or the chip, lags behind; `ToldIsOver` that a
  base class which calls back does not do so in the middle of a reset. From it
  follow the seven invariants, with `RequestAssertedAlways` among them, and with
  `~Reentrant` `OffOnlyWhenUnusedAlways` and `KeepsPowerContract`: every step of
  `Safety` is a step of `PowerContract` or a stutter.
- `Pn54xSystemProofs`: each step of `SysSpec` is a step of the adapter or leaves it
  alone (`SystemKeepsAdapter`, hence `SystemKeepsContract`). Of the I/O object that
  cannot be said: the system's core starts over a reader, which the client of `Pn54xIo`
  does not. `LinkInv` holds of it nevertheless, for any number of failures: the I/O
  object lives as long as the adapter, every child is that of `read_pid` or has been
  lost, `read_pid` needs the chip on, and a start that is due finds it on. From it
  follow `NoReaderWithoutPowerAlways` and, with `ChipFollows`, that the assertion holds
  while `set_power()` works (`RestartFindsNoReaderAlways`): a frame of
  `nci_core_restart()` is pushed only by the request that switches on
  (`OnlySubmitOnRestarts`), so power was off a moment ago, and not because of a reset,
  in the middle of which nobody requests anything (`ToldIsOver`). So nothing is lost
  before the first failure (`NothingLostAlways`). As long as nothing is lost each step
  is one of `Pn54xIo`, or a pipe() that fails over a reader, and its invariants are
  kept (`SoundUntilLostAlways`). Together: while `set_power()` works the system has the
  life cycle of `Pn54xIo` (`SystemKeepsLifecycle`) and the properties of its packets
  (`SystemDeliversGenuine`). `PoweredCoreHearsAlways` rests on `HearsInv`: while a
  start is due the base class has nothing to say, and a core with power that was told
  of nothing and whose chip was not reset has a watch or a start that is due, also while
  a call is on the stack. The adapter closes the reader in two ways (`OffIsKnown`):
  switching off ends the power, and a switching on makes a start due; the other is a
  reset.
- `Pn54xNfcPluginProofs`: `PluginInv` is inductive; the counts are equalities, so
  there is little to strengthen but that an adapter of the plugin is one that
  exists.
- `HexdumpProofs`: `HexdumpInv` is inductive (`HexdumpInvariant`), and has
  `LogIsComplete` and `BoringOnlyOnce` in it (`LogTellsEverything`,
  `BoringLinesOnce`). A line may be skipped because `empty` and `emptyLen` describe
  the line printed last (`LocalsDescribeLastLine`), which is also the one that the
  reader will repeat (`CountsBelowLines`). What the text of a log becomes when an
  entry is appended, or the last count grows by one, are lemmas about `FlattenSeq`.

Every invariant and every safety action property that the passing runs check is a
theorem.

Induction. The induction theorems of the library take a predicate as a parameter,
which the provers here cannot instantiate. The recursive functions that the
readings use (`Packets`, `FlattenSeq`) are handled without them: the fact to be
shown becomes a set of naturals that contains 0 and the successor of each of its
members, and such a set holds every natural number because `<` is well-founded on
`Nat` (`SetInduction`, `Induction`). What stays out of reach is a theorem with such
a predicate as its parameter.

Only model-checked: liveness (TLAPS has no rules for fairness and ENABLED here),
that is `AllPacketsDelivered`, `DeathNoticed`, `EverythingDelivered`,
`WriteResolved`, `RequestResolved`, `StoppedIsFinalized` and the liveness of
the two refinements.

## 5. Not modelled

- The plugin's key file (lines 81-88), which only chooses the device path.
- The wording of the log. `gutil_hexdump()` is the number of octets it takes.
- Two adapters on one chip: while somebody holds a stopped adapter, the next
  `pn54x_io_new()` switches the chip off under it. `Pn54xNfcPlugin` has the overlap,
  but not what it does to the chip.
- What is written: `write_buf` and the concatenation of chunks. A write has an
  outcome, and a completion.
- `g_io_channel_unix_new()` returning NULL (it does not), and a non-blocking read
  that returns nothing. Other read errors take the path of the end of the stream.
- A child killed between its `read()` and its `write()` loses what it had read;
  this only happens when the session ends too. Its read and write are one step. A
  pipe that is full only delays the child.
- The double `close()` of `read_fd` (lines 209 and 222) is harmless in one
  thread; a descriptor opened in between by another thread is outside the model.
- What a lost reader's watch does. Its callback would hand what the lost child still
  writes to the client there is then, take the watch of the new reader for its own when
  it ends, or find no client or no object. Nothing is claimed of packets, watch and
  descriptors once a reader has been lost; the children are accounted for all the same.
- What NciCore does with its HAL I/O after the chip was reset under it.
- The headers (interfaces without code), and the build and packaging files.
- A core that changes course twice within one `nci_core_set_state()`. If it both
  failed and set out for RFST_IDLE again, lines 192-194 would set
  `power_switch_pending` with power off.

## 6. Plan

Done: framing, read path and abstract stream; the I/O object; the adapter, its
contract and its re-entrant variant; the composition, with both kinds of base class;
the plugin; the hexdump; the proofs above.

Left: two adapters on one chip (section 5), and proofs of the liveness properties,
which need rules for fairness that the prover does not have.

# PicoFacet: a verification project

PicoFacet is firmware for a small USB adapter (RP2040 or CH32V305) that reads
the eMMC of a console through the SPI register interface of its southbridge,
with `pfcli`, the command-line program on the host. This directory holds TLA+
models of it, the TLC runs that check them, and TLAPS proofs about them. All
source paths below are relative to the repository.

## 1. Inventory

### 1.1 Components, their state and operations

| Component | Source | State it keeps | Operations |
|---|---|---|---|
| Command task | `main.c` `cmd_task` | `stream_state` | one branch per USB command; every branch answers on EP2 and waits until the host has read the answer |
| Stream task | `main.c` `stream_task` | `stream_state`, static `usb_block`, `usb_sent` | one arm per `stream_state`: copy blocks to EP4, poll write, EXT_CSD and abort |
| Block read | `mmc/read.c` | `mmc_bio_status`, the block counters, two buffers with `mmc_buf_state`, `buf_blocks`, `buf_sent`, `read_state` | `mmc_read_start`, `mmc_read_task`, `mmc_read_get_buf`, `mmc_read_consume` |
| Block write | `mmc/write.c` | the same counters, `mmc_buf`, `write_state` | `mmc_write_start`, `mmc_write_task`, `mmc_write_get_buf`, `mmc_write_submit` |
| Abort | `mmc/abort.c` | `abort_status`, `abort_state` | `mmc_abort_start`, `mmc_abort_task` |
| Initialization | `mmc/init.c` | `status`, `phase`, `smc_state`, `ctrl_state`, `card_state`, `clk_state`, `sanity_retries`, stored CID/CSD | `mmc_init_start`, `mmc_init_task`; EXT_CSD start and task |
| SMC reset | `*/spi_reg.c` | `reset_smc_en`, `reset_smc_dbg`, static `state`, `wait_start`, pins SMC_RST_N and SPI_SS_N | request, done, task |
| SPI registers | `*/spi_reg.c`, `rp2040/spi.pio` | `dma_busy` and DMA channels, chip select, PIO FIFOs, clock | read, write, DMA read, DMA poll, set frequency |
| USB device | `*/usb_dev.c`, `usb_descriptors.*` | per endpoint: `ready`/`free`, `len`, `hw_sel`, `app_sel`/`fill_sel`; EP0: `desc_remain`, `desc_ptr`, `last_req`, `should_set_address`, address | ISR, rx buf/consume, tx buf/submit/drain, setup packets, bus reset |
| Timer and LED | `ch32v305/pins.c`, `main.c` | `timer_high`, TIM6; `led_mode`, `led_pattern`, `led_bit` | overflow ISR, `timer_us`, `led_task` |
| Host | `pfcli/*` | position in a dump, retries | `pf_cmd`, `pf_data_read`, `pf_data_drain`, dump and verify loops, abort |

### 1.2 How they interact

There is one thread: `main` calls the tasks in a fixed order, for ever
(`main.c` 376-386). A task never waits for the card; it does one step of its
state machine per call. Three places do wait, and hold up the whole loop:
`send_response` (until the host has read EP2), `send_data` and
`usb_data_tx_drain` (until the host has read EP4).

* `cmd_task` calls `mmc_read_start`, `mmc_abort_start`, `mmc_init_start`,
  `reset_smc_request` ... and sets `stream_state`.
* `stream_task` pulls blocks out of `read.c` (`get_buf`, `consume`) and pushes
  packets into EP4; it polls the abort and EXT_CSD state machines.
* All state machines share one SD host controller: one interrupt status
  register, which each of them clears, and one command at a time; they reach it
  through one SPI bus, on which a DMA may be running.
* The SMC reset takes the pin SPI_SS_N away from the SPI while it runs.
* Beside the loop run the USB interrupt, which shares the endpoint state with
  the loop without locks, the SPI DMA, the timer, the controller with the card,
  and `pfcli`, which gives up on a transfer after 5 s (100 ms when it drains).

### 1.3 What is hard, and what makes each part correct

| Part | Hard | Correct when |
|---|---|---|
| Block read | DMA, USB and the card proceed at their own pace; errors at any point | no block is lost or sent from a buffer being filled; the stream is exactly as long as asked, in order; it ends |
| SMC reset | absolute times that wrap; a second request during a reset | the line is held at least SMC_RST_HOLD_US; the SMC starts in the mode asked for; the pin is given back; it ends |
| Initialization | restarts at any moment; a card that fails; resets of the SMC beside it; a read or an abort still running | MMC_DONE means what it says; the card only gets commands it accepts, at a clock it can follow; it ends |
| Endpoints | interrupt, hardware and bus resets between two instructions of the loop, also inside a read-modify-write of a control register | packets arrive once, whole, in order; a drain means read; nothing gets stuck |
| Control transfers | a host that gives up, loses an acknowledgement or resets at any moment | both sides use the same address; descriptors arrive whole; requests are answered |
| SPI registers | FIFOs, shift register and DMA at their own pace; a chained DMA | one selection per access with exactly its bytes; nothing left for the next; no wait for ever |
| Timer | two halves that change between two loads | what it returns was the time during the call |
| Session | timeouts against waits; aborts and retries on top of what a failed request left | answers belong to their commands; an abort ends and touches nothing that runs; a dump survives errors, with the right data |

`PROJECT.json` lists these dangers one by one at the lines where they bite
("hazards"), with the properties that cover them.

## 2. Modules

| Module | Models | Composes |
|---|---|---|
| `StreamContract` | what the device promises of the data stream of one request | |
| `BlockRead` | `CMD_BLOCK_READ`, `mmc/read.c`, the block-read arm of `stream_task`, DMA, controller, EP4 as a queue of two | refines `StreamContract` |
| `SmcReset` | `reset_smc_*` of both platforms, the pins, the wrapping timer | |
| `SmcTimer` | `timer_us` and the overflow interrupt of the CH32V305, and the reset with the time it is told | extends `SmcReset`, and instantiates it with that time |
| `MmcInit` | `mmc_init_start`, `mmc_init_task`, controller and card | extends `SmcReset` |
| `SpiBus` | register accesses of both `spi_reg.c` down to the byte, `spi.pio`, FIFOs, DMA channels | |
| `PacketPipe` | what `usb_dev.h` promises of an endpoint | |
| `UsbTx`, `UsbRx` | an IN and an OUT endpoint of both `usb_dev.c`, instruction by instruction, with bus resets | refine `PacketPipe` |
| `ControlTransfer` | EP0 of both `usb_dev.c`: SETUP, IN, OUT, bus reset, address and descriptors, with an enumerating host | |
| `Session` | `cmd_task` with its answers and waits, `mmc/abort.c`, the EXT_CSD read, the dump loop of `pfcli` | extends `BlockRead` |

The `MC` modules only give values to constants. `BlockReadProofs`, `SessionProofs`,
`SmcTimerProofs`, `MmcInitProofs`, `SpiBusProofs`, `UsbTxProofs`, `UsbRxProofs` and
`ControlTransferProofs` hold the proofs about the module they are named after (section 4).
`MmcInitProofs` begins with those about `SmcReset`, which `MmcInit` extends, and
`SessionProofs` extends `BlockReadProofs` as `Session` extends `BlockRead`.

### 2.1 State and actions

`BlockRead`. Variables have the names of the C variables. `task` says whose turn
it is in the loop; one action is one way a call of a task can go, fall-throughs
included (so `ReadSendCmd` is `RS_FIND_BUF` and `RS_SEND_CMD`, and `ReadAdvance`
is `RS_POLL_XFER_COMPLETE` and `RS_ADVANCE`). A block is its LBA and a packet
the pair of a block and its part; a buffer holds the LBA of its first block, or
`Junk`. `ctl` follows the running CMD18 through the controller: *command* sent,
*access* to the card, *data* ready, *drained* by the DMA, *idle*. The value
`NoBlock` of `usb_block` is the null pointer. LBA and count are the only inputs.
Assumption `MaxCount <= 65535` is the `uint16_t` of the count.

`SmcReset`. The timer counts modulo `TimerMod`; the comparison of the CH32V305
is the difference of two times, that of the RP2040 is with their sum, as in the
code. `MaxGap` bounds the time between two turns of the main loop, and `held`
counts how long the line has been low. `Overlap` says whether a request may come
during a reset.

`SmcTimer`. `SmcReset` reads the time in one step. Here `now` is the time that is,
of which the counter `CNT` is the low part; `Call`, `ReadHigh`, `ReadLow` and `Recheck`
are the loads of `timer_us`, with `Count` (the hardware) and `TIM6_IRQHandler`
between any two. `Told` is the reset task of `SmcReset` with `now` replaced by what
`timer_us` returned, so the properties of the reset are checked of the task that is
told the time. `IsrDelay` is how many loads may follow an overflow before its
interrupt is taken.

`MmcInit`. One step of the three phases per turn of the loop, with the SMC reset, the
block read and the abort as other tasks of the same loop; the card is the JEDEC state
diagram as far as these commands go. What may get in the way of an initialization is
modelled as well:

* `CmdReleaseMmc` and `CmdResetSmc` come in any phase and after it. They request a
  reset and nothing else: `status`, also `MMC_DONE`, stays what it was.
* `read_state` and `abort_state` are of a block read and an abort that an earlier
  session left running: `CMD_INIT_MMC` stops neither. `ReadTask` is `mmc_read_task` in
  all its states, with the CMD18 it may send and the DMA it may start, and `AbortTask`
  is `mmc_abort_task`. They take whatever completion is there. Nobody consumes the
  buffers of the read, since `CMD_INIT_MMC` sets `STREAM_IDLE`; `read_free` is how many
  it can still fill.

An access reaches the controller only when the SMC is up in debug mode and no DMA has
the bus (`Answers`); otherwise a register reads as anything and a write is lost. Every
access ends by raising SPI_SS_N, which on the CH32V305 spoils a reset going on.
`undisturbed` is history: since the last `CMD_INIT_MMC` nothing of this has happened, and
nothing of it was going on then (`Quiet`). A disturbance does not end with the reset or
the task behind it, only with the next `CMD_INIT_MMC`. `troubles` counts commands and
transfers that fail (a failed command has not reached the card) and resets requested,
`intrusions` what got in the way.

`SpiBus`. `pc` is where the caller is in `spi_reg_read`, `spi_reg_read_dma` with its
polls, or `spi_reg_write`; `txf` and `rxf` are SPI1's data registers, or the FIFOs of
the PIO, whose program runs from one pull or push to the next (`eng`). The n-th byte
on the bus is answered with the number n, so a byte lost, doubled or late shows in
`dst`. `asked` holds the frames of the calls made, `frame` what the SMC has received
in the current selection: on the RP2040 a call may return before its selection ends.

`UsbTx`, `UsbRx`. One action per store of a submit or consume, since the
interrupt and the hardware may come between any two; one per hardware event. On the
CH32V305 the last of them is a load (`LoadCtrl`) and a store (`Arm`, `Rearm`) of the
endpoint's control register, which also holds the toggle that the hardware flips: the
store puts back the toggle that was `loaded`. `pid` is the toggle at the host.
`platform` is a variable with two initial values, so one run covers both. A bus reset
makes the driver's variables anew; what the hardware keeps differs (`HardwareAnew`).
`clean` says that no bus reset has put the two sides out of step, `intact` that no
submit or consume has, and `InStep` both, see 3.2. In `UsbRx` the caller reads the first
byte, gives the buffer back and only then reads the arguments (`ReadArgs`), as
`cmd_task` does.

`ControlTransfer`. A descriptor is its length, a packet the part it carries.
`irqs` is what the handler has not looked at; one call of it looks at one thing on
the CH32V305 and at all in a fixed order on the RP2040, which for the properties is
the same (`Order`). `stage` is where the host is in its request `req`. Any packet's
acknowledgement may be lost, that of a status stage included. A SETUP comes only when no
other packet waits for the handler, which is assumed to run before the host's next
request; on the RP2040 the OUT packet that ended the last request may still wait, as the
handler sees to the SETUP first. `ep0_size` is
64 in the program and no descriptor is longer, so the CH32V305's continuation code
never runs; with 8 it does.

`Session`. The loop of `BlockRead` with a fourth turn (`abort_due`) for
`mmc_abort_task`. `held` is the place where the loop waits, and while it is set
no task has a turn. `commands` is EP1 and `answer` EP2, which remembers the
command it answers. `host` is where `pfcli` is: *start*, *csd*, *no_count* for the
sector count, *loop*, *answer*, *data*, *failed*, *drain*, *drained*, *retry* for
the dump loop, *closed*. All requests start at LBA 0: the model does not tell the
requests of a dump apart, only the blocks inside one. When `cleanup` is through,
the next `pfcli` begins with `CMD_GET_VERSION`, with which the model ends.

A timeout happens when nothing else will: 5 s are longer than anything the
device does, so `Quiet` requires that no transfer, command or reset is under way
and that the loop is held up or has gone round twice without a change (`calm`).
A device slower than the timeouts is not modelled.

## 3. Runs

| Run | Question | Bounds | Result |
|---|---|---|---|
| `block_read` | all safety properties, and the contract, without card errors | requests of 0 to 5 blocks of 3 packets, chunks of one block, two start addresses, any number of requests | hold |
| `block_read_faults` | progress with card errors | up to 3 blocks of 2 packets, an error at any point of any command | holds |
| `block_read_order` | do the blocks of a request arrive in order? | up to 5 blocks | **no** |
| `smc_reset` | time, hold, mode, end on the CH32V305 | timer modulo 12 in a counter of 4, hold 4, every starting time | hold |
| `smc_reset_hold` | the hold time on the RP2040 | timer modulo 12, hold 4 | **not kept** |
| `mmc_init` | meaning of MMC_DONE, legal commands, clocks, accesses only when the SMC is up, end | two CMD_INIT_MMC at any moments, one retry, one failure or reset of the SMC at any moment, with or without a read or an abort left running, CH32V305 | hold of undisturbed initializations |
| `usb_tx` | an IN endpoint is a pipe; drains mean read and end | 5 packets of two lengths, 2 bus resets, both platforms | hold while in step |
| `usb_rx` | an OUT endpoint is a pipe; nothing is overwritten or stuck; arguments belong to their command | 6 packets, 2 bus resets, both platforms | hold while in step |
| `control_transfer` | addresses agree, descriptors arrive whole, requests are answered | known and unknown descriptors, lengths from 0 to 255, two addresses, EP0 of 8 and 64 bytes; no bound on requests, resets, losses | hold unless misled |
| `spi` | every access is exact and ends | reads and DMA reads of 1, 4 and 9 bytes, writes, any number one after the other, both platforms | hold |
| `session` | aborts, retries, answers, end of a dump | two requests of three blocks of 3 packets, one retry, two errors or Ctrl-C | hold |
| `session_recovered` | are the blocks of a recovered request the right ones? | requests of two blocks, one error | **no** |

Why these bounds are enough. The read pipeline has two buffers and two endpoint
slots: five one-block chunks fill both twice over, and three packets per block
put the stream task in the middle of a block in every one of these states (two
are not enough: both then fit the endpoint at once). More blocks per chunk only
lengthen a buffer; `ChunkBlocks = 2` has been checked for the invariants.
`ImplementsContract` then fails by the disorder described below, which with
chunks of one block shows as a block sent twice, and with two as going backwards
as well. The timer starts at each of its values, and a hold of 4 with a pace of 3
wraps at every step of a reset; its counter overflows three times in its range. The
FIFOs of the PIO have four entries: a read of 9 and two bytes fills and empties both
several times, and one of 1 byte is shorter than them. Endpoints have two slots: five
packets pass each several times, and the second reset finds what the first left.
The initialization has a timer modulo 3, which wraps in every delay and runs only while
something compares it (`TickUnread = FALSE`; what it shows at other times is read by
nobody); the hold itself is the business of `smc_reset`. Its second CMD_INIT_MMC meets
whatever the first left, disturbed or not. `LeftReads` are the first and the last state
of a block, the read gets into the others from there; one read, one abort or both, or one
reset of the SMC (`MaxIntrusions = 1`), and one trouble (`MaxTroubles = 1`). With this it
has over two million states and takes two minutes; the invariants of the proofs have been
checked on the RP2040 too. A session has at most two things going wrong: one shows what
recovery does, two show what it leaves behind. Its requests have three blocks, one more
than there are buffers, so that a request can still be read when `pfcli` takes it for
complete; with two blocks the abort during a running read (3.2) cannot be seen.

The device stops only in `session` and its variants, when `pfcli` has left with an
answer unread, and in `usb_rx`, when the last packet has been taken; only there
is a deadlock allowed.

### 3.1 Fairness

Weak fairness of the main loop (it is a `for (;;)` that nothing preempts for
ever); of a DMA, a command and a software reset under way (they end in hardware);
of the timer; of the interrupt; and of the host reading what it has asked for
(that is what a bulk read is). In `MmcInit` of the controller and the card answering
(`Answer`: each command that is out ends in its completion or an error, which is what the
controller's timeout is for) and of the card being ready for CMD1 some time (`PowerUp`).
In `Session` of `pfcli` as a whole, which always goes on after a timeout. In `ControlTransfer` of the host taking or sending the next
packet of the request it has begun; in `SpiBus` of the program, the shifter and each
DMA channel; in `SmcTimer` of the counter as well. Never of a card error, of a
Ctrl-C, or of the host sending another command, giving up or resetting the bus.

### 3.2 What TLC found

* **Blocks out of order** (`block_read_order`, `mmc/read.c` 192). `mmc_read_consume`
  frees the first ready buffer by index, `stream_task` has sent another one: when the
  host lets both buffers fill up, a request of three chunks or more sends a block
  twice and drops one. Requests that fit the two buffers are in order
  (`ShortStreamInOrder`).
* **Stale block after an error** (`session_recovered`, `main.c` 299). The error
  return leaves `usb_block` and `usb_sent`; the retry begins with the rest of a block
  of the failed request, is taken for complete that much early, and leaves its last
  packets for the next request. `pfcli` reports a recovered error. Under errors
  `HeldBlockCompleted`, `ReadyBuffersHoldData` and `SpiExclusive` of `BlockRead` fail as
  well, which is why the run with errors does not check them.
* **Hold time on the RP2040** (`smc_reset_hold`, `rp2040/spi_reg.c` 214). A sum
  that wraps ends the hold at once, in the last 100 ms of the timer's 71 minutes.
  If the wrap falls the other way the line is held until the next one.

These show when a configuration is changed, or are excluded by a condition in a
property:

* *Answers of the wrong command* (`main.c` 221; `PROPERTY AnswersPaired` in place of
  `FirstAnswersPaired` in `Session.cfg`). With packets left in EP4, `CMD_ABORT` and
  `pfcli` wait for each other until `pfcli` gives up; the late answer stays in EP2 for
  the next command. One error and one Ctrl-C are needed; after one alone every answer
  is paired (`FirstAnswersCorrect`).
* *An abort during a running read* (`main.c` 220, `mmc/abort.c` 39; `AbortAlone` and
  `AbortEnds` in place of `FirstAbortAlone` and `FirstAbortEnds` in `Session.cfg`). After
  one error the stale block completes the retried request for `pfcli` while the device is
  still reading it; after a Ctrl-C then, `CMD_ABORT` starts the abort beside a CMD18 under
  way. `mmc_read_task`, which an abort does not stop, may take the CMD_COMPLETE of CMD12
  for its own, and `mmc_abort_task` then waits in `AB_POLL_CMD12` until the host sends
  something that starts another command. `protocol.h` 20 says "stop active stream".
  With one thing gone wrong it cannot happen (`FirstAbortCorrect`).
* *Overlapping resets* (`Overlap = TRUE` in `SmcReset.cfg`): a debug reset requested
  while a normal one runs is reported done with the SMC in normal mode
  (`ModeAsRequested` fails), since `reset_smc_request` overwrites `reset_smc_dbg`.
* *A reset beside or after an initialization* (`main.c` 122, 232; drop `undisturbed` from
  the properties of `MmcInit`). After `CMD_RELEASE_MMC` or `CMD_RESET_SMC` the status
  stays `MMC_DONE` with the SMC held in reset or up in normal mode, and
  `CMD_GET_STATUS` says ready (`ReadyMeansReady`). In the middle of an initialization
  the accesses of the other phases go on beside the reset (`AccessSound`), polls
  see what they like, and the initialization waits for ever or even ends in `MMC_DONE`
  with a card that was not set up. `pfcli release` sends `CMD_RELEASE_MMC` as its last
  command, and every run of `pfcli` sends `CMD_INIT_MMC` before it uses the card, which puts it
  right; `pfcli` never sends `CMD_RESET_SMC`.
* *A read or an abort left running* (`main.c` 109, `mmc/read.c` 90-176, `mmc/abort.c`
  31-56; same change). `CMD_INIT_MMC` stops neither. The read takes the completion of an
  initialization command, which then waits for ever; with a free buffer it sends a CMD18
  in the middle of the initialization; its polls raise SPI_SS_N during the reset, so that
  on the CH32V305 the SMC comes up in normal mode and the sanity check fails. The abort
  clears the status and cancels the command on its way. On the RP2040, where the PIO does
  not reach the pin during a debug reset, the initialization gets further, and the card is
  sent commands it refuses (`CardRespected`). A `CMD_INIT_MMC` after these tasks have
  ended is undisturbed, and all properties hold of it. After a Ctrl-C `pfcli`
  aborts the stream and drains EP4 for 100 ms before it leaves; one that is killed does not.
* *A late overflow interrupt* (`IsrDelay = 2` in `SmcReset.cfg`): if the counter wraps
  before `timer_us` loads it and the interrupt is taken only after the load of
  `timer_high` that follows, the time jumps back by 65536 us, and the unsigned
  difference in `WAIT_TIMER` releases the SMC at once (`HeldLongEnough` fails). With
  one load of delay it cannot happen (`TimerCorrect`, `TimedHoldCorrect`).
* *A DMA polled early* (`SlowPoll = FALSE` in `SpiBus.cfg`, `rp2040/spi_reg.c` 92).
  `spi_reg_read_dma_busy` asks only the data channel, which is started when the skip
  channel ends: polled before, it says that the read is over. `spi_reg.h` 18 promises
  "Returns true while a DMA read is still in progress." The header and two bytes take
  0.9 us at 30 MHz and `mmc_read_task` polls a turn of the main loop later, so the run
  assumes that a turn is slower.
* *A toggle undone* (`ch32v305/usb_dev.c` 452, 468; `clean` in place of `InStep` in
  `UsbTx` or `UsbRx`). The response to a packet is changed by a load and a store of
  UEPn_TX_CTRL or UEPn_RX_CTRL, and the hardware flips the toggle in the same register. A
  packet that ends between the two has its toggle put back. Of an IN endpoint the host
  then takes the next packet for a repetition and drops it, and a drain returns all the
  same (`DrainedMeansRead`, `ImplementsPipe`); of an OUT endpoint the next packet is
  acknowledged and dropped by the test of TOG_OK (`ImplementsPipe`, `AllArrive`), and
  as the two sides stay one apart, this goes on. The window is a few instructions. EP4
  is exposed to it in a block read, where `stream_task` submits a packet while another is
  in flight: the host gets one packet less, times out and retries. EP2 is not, as an
  answer is submitted to an empty endpoint, and neither is EP1 with `pfcli`, which sends
  a command only after the answer to the last one; EP3 has no traffic. The handler
  (409, 425) does the same read-modify-write, but while the hardware answers NAK, which
  is assumed to exclude a packet.
* *Two lengths in flight* (`ch32v305/usb_dev.c` 467; again `clean` for `InStep` in
  `UsbTx`). The CH32V305 has one length register for both slots: a packet submitted
  while one of another length is in flight changes that one's length. `CMD_READ_CID`,
  `CMD_READ_CSD` and `CMD_READ_FUSES` (`main.c` 154-185) do so with their 16 or 48 bytes
  when a stream has left blocks of 512 in EP4, as `send_data` waits after its packet and
  not before it; so does `CMD_SPI_REG_READ` with more than 512 bytes and no multiple of
  them.
* *A bus reset at a bad moment* (`clean`). In the middle of a submit or consume it
  leaves the main loop's next store to be applied to slots that were made anew, on both
  platforms; on the CH32V305 until the next reset. The RP2040's handler besides leaves
  the armed halves and the hardware's choice of the next slot alone, so a reset with a
  packet armed or the second slot next has the same effect, until power is removed; and
  it handles one finished packet per call, so that one of two is handled after the reset.
* *An address given up* (`Misled`, `rp2040/usb_dev.c` 258). `should_set_address` survives
  the next SETUP: if the host gives up a SET_ADDRESS, the end of the next IN packet,
  another request's, changes the address. A bus reset puts it right.
* *A lost last acknowledgement of SET_ADDRESS* (`strayed` in `Misled`,
  `ch32v305/usb_dev.c` 317, `rp2040/usb_dev.c` 258). When the device does not see the
  host's acknowledgement of the status packet, the host goes over to the new address and
  the device stays at the old one. No request is answered until the host resets the bus;
  the next SET_ADDRESS would not reach the device. USB leaves this to the host, which
  resets and enumerates again.
* *A lost last acknowledgement of other requests* (`lost`). If the host's acknowledgement
  of the last IN packet of a descriptor is lost, the device never opens EP0 for the status
  stage, and the host's request ends when it gives up; the next request is answered. The
  CH32V305 also answers NAK for ever to a request that brings data with it, which no
  driver sends.

## 4. Proofs

TLAPS proves, for every value of the constants that satisfies the assumptions of
the modules:

| Theorem | Property | Assuming |
|---|---|---|
| `TypeCorrect` | `TypeOK` of `BlockRead`: no counter passes the request, no overflow, at most two packets in EP4 | |
| `BookkeepingCorrect` | `Conservation` | |
| `DataCorrect` | `ReadyBuffersHoldData` | `~MmcMayFail` |
| `HeldBlockCorrect` | `HeldBlockCompleted` | `~MmcMayFail` |
| `SpiCorrect` | `SpiExclusive` | `~MmcMayFail` |
| `LengthCorrect` | `ExactLength` | `~MmcMayFail` |
| `ShortCorrect` | `ShortStreamInOrder` | `~MmcMayFail` |
| `ContractImplemented` | `ImplementsContract`: `BlockRead` refines `StreamContract` | `~MmcMayFail`, `ChunkBlocks = 1` |
| `SessionTypeCorrect` | `SessionTypeOK` | |
| `FirstAbortCorrect` | `FirstAbortAlone` | |
| `FirstAnswersCorrect` | `FirstAnswersPaired` | |
| `FirstAnswersCome` | `pf_cmd` gives up on an answer only when `trouble > 1` | |
| `SmcTypeCorrect` | `SmcTypeOK`: the line is low in the states of the task between, and only there | |
| `HoldCorrect` | `HeldLongEnough` | `Platform = "ch32v305"` |
| `ModeCorrect` | `ModeAsRequested` | `~Overlap` |
| `BusCorrect` | `BusGivenBack` | `~Overlap` |
| `TimerCorrect` | `TimerReadsTime` | `Prompt` |
| `TimedTypeCorrect` | `SmcTypeOK`, told the time by `timer_us` | `Prompt` |
| `TimedHoldCorrect` | `HeldLongEnough`, likewise | `Prompt` |
| `TimedModeCorrect` | `ModeAsRequested`, likewise | `Prompt`, `~Overlap` |
| `InitTypeCorrect` | `TypeOK` of `MmcInit` | |
| `ReadyCorrect` | `ReadyMeansReady`, of an undisturbed initialization | |
| `RespectCorrect` | `CardRespected`, likewise | |
| `AccessCorrect` | `AccessSound`: the SPI clocks always, the rest likewise | |
| `SpiTypeCorrect` | `TypeOK` of `SpiBus` | `Slow` |
| `ExactCorrect` | `AccessExact` | `Slow` |
| `TxTypeCorrect` | `TypeOK` of `UsbTx` | |
| `DrainCorrect` | `DrainedMeansRead`, of an endpoint in step | |
| `TxImplementsPipe` | `ImplementsPipe`: `UsbTx` refines `PacketPipe`, which loses its packets when the endpoint falls out of step | |
| `RxTypeCorrect` | `TypeOK` of `UsbRx` | |
| `ArgsCorrect` | `ArgsOfCommand`, of an endpoint in step | |
| `RxImplementsPipe` | `ImplementsPipe`: `UsbRx` refines `PacketPipe`, likewise | |
| `ControlTypeCorrect` | `TypeOK` of `ControlTransfer` | |
| `AddressCorrect` | `AddressAgreed`, unless `Misled` | |
| `DescriptorCorrect` | `DescriptorWhole` | |

What the hypotheses say, each with its counterexample in section 3.2 when it is dropped:

* `~MmcMayFail`: the card does not fail. `~Overlap`: no reset is requested during one.
* `ChunkBlocks = 1` is the `CHUNK_BLOCKS` the firmware is built with (`mmc/read.c` 11).
* `Prompt`: `IsrDelay <= 1`, the overflow interrupt is taken before the second load
  that follows it (nothing in `src/ch32v305` masks it, and while the USB handler delays
  it `timer_us` does not load either); and `MaxGap + 2 * Half <= TimerMod`, a turn of
  the main loop is shorter than the 71 minutes of the timer by two overflows.
* `Slow`: on the RP2040 `mmc_read_task` polls a DMA after its header has gone out. The
  CH32V305 does not need it.

Where a property speaks of an endpoint in step, an undisturbed initialization or a host
and device not misled, that is a condition in the property itself, because the code does
break it otherwise; the theorem is proved of the model in which all of it happens, and
section 3.2 says what then goes wrong.

What each proof rests on, the inductive invariant and why it is needed:

`BlockReadProofs`. `Books` strengthens `Conservation` by two facts
without which it is not inductive: a buffer that is ready has something unsent
(so `mmc_read_consume` never counts past its end), and the blocks of the buffer
being filled still fit the request (so `mmc_blocks_issued` never passes
`mmc_blocks_total` at `RS_ADVANCE`). It holds with card errors too. `IInv` is `Books`
with `TypeOK`; `PipeInv` is `Books` with the types of `read.c` alone, kept by every step
of the pipeline (`PipeStep`) whatever the main loop does beside it, and so what
`SessionProofs` starts from. `NoFaultInv`
adds what relates the read task to the hardware while the card does not fail:
which status bits and which `ctl` go with each `read_state` (`InStep`, `Answering`),
that the buffer being filled is the active one and its content the block of the
argument (`Filling`, `Filled`), and that `usb_block` is the next block of a ready
buffer. The proof of a step has one lemma per group of variables an action can
disturb, since most actions leave most conjuncts alone.

Two more invariants say in which order blocks leave, and both are about the
disagreement between `stream_task`, which holds one buffer, and `mmc_read_consume`,
which takes the first by index. `ShortInv`: with at most two chunks, buffer 1 can only
hold the second and buffer 0 never becomes ready after it, so the two always agree.
`ForwardInv`, for one block per chunk: they may disagree, but then the buffer wrongly
freed is the newer one, and what is still ready is sent again; a buffer that becomes
ready lies beyond all that was sent, and `stream_task` takes a ready buffer up before a
second one can become ready (`TakenUp`), so the block it holds is always the oldest.
With chunks of two blocks TLC shows `ImplementsContract` violated, so the hypothesis is
needed. Every step then is an `Open`, `Emit` or `Close` of the contract or leaves it
alone: `ExactLength` says that the contract is complete when the read is done.

`SessionProofs`. Three invariants build on each other. `TypeInv` holds whatever happens:
`PipeInv`, the types of the rest, and where `pfcli` may be when it is on its way out.
The steps of the session that are not the pipeline's end a read at most, and touch
no buffer and no counter (`Beyond`). An abort may leave a buffer being filled that
nobody polls for, so `Books` asks for the poll only while a read is busy.

The properties depend on the timeouts of `pfcli`, which may run out wherever nothing
moves any more. `CalmInv` says what that means: a turn of the main loop that changed
nothing has found each task with nothing to do (`ReadStuck`, `StreamStuck`,
`AbortStuck`), and while nothing changes this stays so.

`FirstInv` then says, as long as `trouble <= 1`, where `pfcli`, `cmd_task`, the tasks and
the controller stand to each other. `Pairing` is the protocol: one command at a time,
in EP1, being answered, or answered. `PollInv` and `CsdPollInv` say that what a task
polls for is still to come, so that a timeout in the middle of a read is impossible
unless an error was reported; `DataInv` that the packets of a request that is no
retry are exactly those of its count, so that without an error none is waited for in
vain. `FreshInv`, `RestInv` and `ReadInv` say what is left over before, after and during
a request, `FailInv` and `WhyInv` that an error or a Ctrl-C is the reason for every
abort, and `AbortInv` that while one runs nothing else does. The bound on `trouble` is
needed: the stale block of a retried request makes `DataInv` false, the second thing to
go wrong meets what is left of it, and both properties then fail (section 3.2). With
`FirstInv` a timeout of `pf_cmd` is a state in which no task has anything to do and
the answer has not come, and there is none (`AnswerComes`).

*The SMC reset*, in `MmcInitProofs`. `HoldInv` ties `wait_start`, the timer and the bounded gap to
the time the line has been low: the difference modulo the timer range is the time
measured, because the loop comes round before the timer does (`MaxGap + HoldUs <
TimerMod`). `PinInv` follows the pin through the four states of a reset.

`SmcTimerProofs`. `HighInv` is the heart: the high part counted by the interrupt, the
counter and an overflow not yet counted (`UIF`) make the time. `CallInv` and `ReadInv`
say what a call of `timer_us` that holds `timer_high`, or both halves, can still
return: with one load of delay the re-check sees every interrupt that matters. `HeldInv`
carries the bound of the reset's measured time through a call.

`MmcInitProofs`. `IInv` has two halves. `TypeOK` and `StateInv` hold whatever gets in the
way: how the three nested state machines go together, and the SPI clock and number of
retries of each state. The others are about an undisturbed initialization, and say of each
state what it stands for: where the SMC's reset and the pin are (`ResetInv`), the clocks
(`ClockInv`), whether the command out has reached the card (`CommandInv`), which
completion is waited for (`PollInv`), and what has been set up by then (`SetupInv`). The
difficulty is what `CMD_INIT_MMC` begins with. An initialization that becomes undisturbed
starts in a state of which only the first half is known, of controller, card and a reset
that may just have ended in normal mode; `StartsQuiet` says what `Quiet` gives, `OnlyClean`
that no step but `CmdInitMmc` makes an initialization undisturbed, and `AccessClean` that
in one every access of the later phases is answered. `ReadyMeansReady` is what these say of
the one state in which `status` becomes `MMC_DONE`.

`SpiBusProofs`. On the CH32V305 `ChInv` counts bytes: put, in the data register, in the
shifter, received and taken always make the whole access. On the RP2040 `RpInv` does so
for the two FIFOs, the program between them and the three channels: `FifoInv` says that
the n-th word of each FIFO is the one the counts call for, `EngInv` that the selection so
far is the beginning of the frame asked for. `AccessExact` follows because an access
ends only when all counts are equal.

`UsbTxProofs`, `UsbRxProofs`. Three actors keep a count of the same packets: the flags
of the driver's two slots, the packets the handler has not seen, and the hardware's
toggle. `CountInv` says that they agree, at each of the points at which an interrupt can
split a submit or a consume, and `BufInv`, `ArmInv`, `LenInv` what is in which slot. All
are conditional on `InStep`, since a bus reset in the wrong place, a toggle undone or a
length changed breaks every one of them. The pipe's queue is what was sent and not yet
read, or nothing when not `InStep`. Between the load and the store of a submit the proofs
say whether `loaded` is still the toggle: if it is not, the store clears `intact`.

`ControlTransferProofs`. `StageInv` says which stages and packets the host may wait
for, `IrqInv` which interrupts may be pending together, `AddrInv` who knows the new
address when, `DescInv` how much of a descriptor has gone, and `TxInv` that the packet in
EP0 is the next part or the one taken last. Requests given up are the difficulty: what
they leave armed is overwritten only by the handler of the next SETUP, so most
conjuncts are about the time after it (`Handled`).

### 4.1 Only model-checked

* Liveness: `RequestAnswered`, `ErrorClosesStream`, `ResetEnds`, `InitEnds`, `DrainEnds`,
  `AllArrive`, `RequestsEnd`, `AccessEnds`, `FirstAbortEnds`, `DumpCompletes`. The prover
  does neither `ENABLED` nor fairness.

All safety properties of the passing runs are theorems. The invariants used in
the proofs have been checked by TLC with the constants of the runs as well.

## 5. What is not modelled

The block write: `mmc/write.c` has no caller of `mmc_write_get_buf` and
`mmc_write_submit` (the TODO in `main.c` 340), so all a CMD_BLOCK_WRITE does is to
send its command and stop in `WS_FIND_BUF`; with callers it would be a model of code
that is not there. The commands that answer with stored bytes (`CMD_READ_CID`,
`CMD_READ_CSD`, `CMD_READ_FUSES`) and the debug register commands, each one call of
`SpiBus`; in `MmcInit` a block write left running, a CMD8 still on its way when
`CMD_INIT_MMC` ends the EXT_CSD read (it is over before the 100 ms of the reset are), and
what the console does with the card after `CMD_RELEASE_MMC`: a reset of the SMC is assumed
to leave controller and card as they are; the bytes of the descriptors; `cmd_verify`
(the same loop as the dump),
`info`, `fuses`; the LED; one-time setup of pins and clocks; build files and the
vendored HAL. `PROJECT.json` says for each component what is left out and why.

## 6. Plan

Models, in this order:

1. `CMD_INIT_MMC`, `CMD_READ_CID` and their kind in the session, so that a second
   `pfcli` can follow the first.
2. The block write, when its buffers get a caller.
3. A card that executes a command whose response is lost, in `MmcInit`.

Proofs: what the models above add, beginning with a session of several `pfcli`; and an
invariant for a retried request, which would say how far the stale block puts
`pfcli` ahead of the device.

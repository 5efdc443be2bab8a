# Verification of the ARCS boot ROM

TLA+ models of the boot program in `src/`, checked with TLC, and theorems about
them proved with TLAPS.

## The system

The program is a boot ROM. `main` (main.c) looks at boot pins, wake-up state and
the headers in flash and on SD card and starts an image, or it enters
`upgrade()`, where a host loads images over a serial line. The upgrade runs on
the Contiki kernel: cooperative processes, an event queue, and poll requests
from interrupt handlers.

| Component | State | Operations and what is hard about them | What must hold |
|---|---|---|---|
| Event kernel, `contiki/process.c` | `events`, `fevent`, `nevents`, `poll_requested`, `needspoll` per process | `process_post`, `process_poll` from processes *and* interrupt handlers, without masking; `process_run` | the queue is a FIFO; no poll request is lost; every event is delivered |
| Block ring, `stub_load.c:437-517` | `ctrl_head`, `ctrl_tail`, `data_ctrl` (size and buffer of 16 slots), 15 buffers | filled by the loader, freed by the programmer, emptied by FLASH_BEGIN | no buffer shared, no slot overfilled, free means room |
| Flash programming, `flash_prog.c`, `uart_boot.c`, `stub_load.c` | `flash_prog`, `flash_ops`, statics of four processes | FLASH_BEGIN / DATA / END, ERASE_REGION; three processes and a host in turns, all events but one kind end a wait, failures and time-outs of the device | what is acknowledged is in the flash; a failure reaches the host; every command is answered |
| Serial receive loop, `uart_boot.c`, `slip.c`, `stub_load.c:30-155` | `ub`, saved `ub`, `n`, `uart_time_out_acc` | frames in pieces, replay, time-out, refusals | a frame is handled once; the loop never stops receiving |
| Stub commands, `stub_load.c:820-1024` | `s_mem_*` | dispatch, checksum, sequence numbers | repeated packets are harmless |
| SD programming, `sd_prog.c`, `stub_load.c:180-342` | `sd_prog`, `s_mem_*` | SD_BEGIN / DATA / END; the same ring, one blocking write per block; an image begun again with events of the old one queued | what is acknowledged is on the card, nothing else is touched |
| Boot decision, `main.c` | boot pins, headers, partition table | fallbacks, retries, signature | only verified images are run |
| OTA, `ota/ota.c` | `ota_env` (state, version, base, size); flags and headers in flash | version check, START, data, VERIFY; reset or error between any two flash commands; choice of the zone to overwrite | the newest image survives; a flag means a complete image |
| Timers, `contiki/etimer.c`, `timer.c`, `ctimer.c`, `clock.c` | timer list, next expiration | tick interrupt against list walk, wrap-around of the clock | every timer expires once |
| Lists and ring buffers, `contiki/` | links, indices | one producer, one consumer | FIFO |
| DMA driver, `driver/dma/dma.c` | `channel_active`, `channel_reserved`, `channel_info`, the channels' registers | channels taken and left, transfers and lists cut into blocks by the handler, abort | every item moved once, a channel runs for its owner |
| UART driver, `driver/uart/uart.c` | `rx_busy`, `send_active`, counters, channel of each direction; the divider | send, receive, abort and re-initialise against the handlers; accepted rates | busy means that something will end it; configured means the rate |
| SPI flash driver | addresses and remainders of its loops; device status | write enable, bounded waits, a device left busy | success means done, nothing else touched; calls return |
| SD/MMC driver, `driver/sdmmc/` | `cmplMask`, `ErrorSts` of the card, registers of the controller | read and write of sectors; completions, errors and time-outs race | success means done, nothing else touched; the handler returns |
| Clock manager, `driver/cmu/` | gates, dividers and sources of all devices, core dividers, PLLs | set and read back, in 32 bits; the program's order of calls | reports what was asked; buses within limits |
| Secure session, eFuse, crypto, GPIO, pins, logging, startup | registers | | not modelled, see below |

Interactions: interrupt handlers (SysTick, UART, DMA) post to the queue and
request polls; `uart_boot_process` fills the ring and posts BUF_RDY or ERASE to
`flash_prog_process`, which posts CONTINUE to `erase_a_block_process` and
`program_process`; these poll themselves while the flash is busy and post
CONTINUE with the result; `flash_prog_process` answers with BUF_FREE, PROG_OK or
PROG_ERR. For the SD card the loader fills a second ring and posts BUF_RDY to
`sd_prog_process`, which writes through `lib_sdc_write`. The UART asks the DMA driver for
a channel per transfer and is called back by its handler; the rate of the UART is a
divider of the clock manager. `PROJECT.json` lists all hazards with their lines.

## Modules

| Module | Models | Proofs |
|---|---|---|
| `EventFifo` | what the event queue promises: a bounded FIFO of posts, takes and handlings | |
| `Process` | the kernel of `process.c`, one action per memory access | `ProcessProofs` |
| `BlockRing` | the ring of load blocks | `BlockRingProofs` |
| `FlashProg` | the four processes of flash programming over the ring, with the queue as a FIFO | `FlashProgProofs` |
| `FlashCells` | the cells of a NOR flash: what erasing, programming and a power cut make of them | |
| `FlashStore` | what `flash_erase` and `flash_write` promise, over `FlashCells` | |
| `SpiFlash` | the blocking flash driver, one device command per step; implements `FlashStore` | `SpiFlashProofs` |
| `Ota` | the commands of `ota.c`, over `FlashStore` | `OtaProofs` |
| `Boot` | the decision of `main.c`: wake-up, boot pin, flash, SD card, upgrade | `BootProofs` |
| `SerialFrame` | the serial receive loop, the framing, and the reception it waits for | `BootProofs`, second half |
| `SdProg` | programming an SD card: loader, `sd_prog_process`, host, over an instance of `BlockRing` | `SdCardProofs` |
| `SdStore` | what `lib_sdc_read` and `lib_sdc_write` promise | |
| `SdHost` | the SD host driver with its interrupt handler, controller and card; implements `SdStore` | `SdCardProofs` |
| `Dma` | the DMA driver: channels, blocks, lists, handler | through `DmaUsers` |
| `DmaUsers` | a UART, or anyone, using the DMA driver | `DmaUsersProofs` |
| `ClockDevices` | the registers of each device's clock: gate, source, divider, limits | |
| `ClockTree` | setting and reading back the clocks, in 16-bit halves | |
| `UartBaud` | the divider that `uart_compute_div` finds for a rate | |
| `Clocking` | the program's calls of the clock manager, PLL_EN and SET_BAUD; or any calls | |
| `MCProcess`, `MCFlashProg`, `MCSpiFlash`, `MCOta`, `MCBoot`, `MCSerialFrame`, `MCSdProg`, `MCSdHost`, `MCDmaUsers`, `MCClocking` | constants for TLC | |
| `MCUpdates`, `MCDrivers`, `MCParts` | components that do not interact, side by side for one run | |

### Process

A step is one access to a shared variable; `n` and `head` are the values of
`nevents` and `fevent` that the compiled code holds in registers between load and
store. `current` is the running process, `pollCursor` and `castCursor` the
positions of `do_poll` and of the broadcast loop. Interrupt handlers are single
steps: all interrupts have one level (bsp/system_RISCVN300.c:587-605) and do not
nest. `Spec` lets them come anywhere; `QuietSpec` keeps posts of handlers out of
the windows between load and store of `nevents`, which is what a masked section
would do.

`Process` implements `EventFifo` under `QuietSpec` (`ImplementsFifo`). The
refinement mapping is the segment of `events` from `fevent` on; inside a window it
is taken from the registers, so that a post takes effect when `nevents` is stored.
Under `Spec` it does not: run `process_race`.

### BlockRing

`ring` is the control part of `flash_prog`. Its operators bear the names of the
functions (`flash_set_buf_rdy` is `SetBufRdy`). `RingSpec` is the abstract
specification that loader and programmer together must keep; `FlashProg` is
checked to implement it (`RingRefined`), with the same `ring`.

### FlashProg

`current` runs until it yields; the queue is the FIFO that `Process` implements;
`turn` keeps the order of `process_run`: the polls in the order of the process
list, then one event. `upc`, `fpc` and `worker[t].pc` are the places where the
protothreads stand. A packet is a record; the serial interrupt posts UART_RXD as
long as a packet waits and the queue is not half full. Contents of the flash are
*blank*, *old*, *garbage*, or page *i* of image *g*. A unit of size is a flash
page, a block is a sector. The worker processes share their code in the model
where it is the same in the source.

External, modelled from how the code uses them: the flash device
(`spirom_cmd_send`: obeys after write enable, gets busy, may fail or stay busy)
and the host (one command at a time; repeats a data packet whose reply was lost;
at an error it stops or, with `Restart`, begins anew).

Two abstractions to know of: status reads that still show *busy* are counted as
faults only when they lead to a time-out, and the mode in which the flash waits
for the latch is free to take any number of reads.

### FlashStore and SpiFlash

`FlashStore` is the abstract specification of `flash_erase` and `flash_write`: an
operation goes over a range in ascending order, touches nothing else, and
succeeds only when all of it is done. `late` states the limit of that promise: a
device that was given up while busy ignores the next command, and the call
succeeds nevertheless.

`SpiFlash` is `flash_erase`/`mxic_erase` and `flash_write`/`mxic_program`/
`_mxic_program` with their loops `mxic_wr_en` and `mxic_wr_rdy`. `pc` is the place
in these functions, `addr`, `left` and `part` their locals. `StoreImplemented` is
the refinement: `at` is the driver's address plus the command just given, `since`
is where that command began. It also tells success apart: a call that returns 0
(`Succeeds`) must be a `ReturnOk` of the store. The device's write protection is off and there is
one flash (`w_protect`, `dualflash_mode` are 0), as the callers leave them. A
command that a power cut interrupts leaves in each of its cells the new contents or
garbage, never the old ones. This is an assumption on the device: were an erasure
cut so that a valid flag stays over a half-erased image, only the samples of
`ota_check_sum` could tell.

### Ota

`env` is `ota_env`; `Initialize`, `CheckVersion`, `StartOta`, `WriteData` and
`CheckData` are the commands of `ota_process_command`, which call an operation of
the store and go on in `FlashOk` or `FlashFails`. A zone's first cell is its valid
flag, the second the rest of the header. Checksums are ideal: `ota_check_sum`
holds exactly when the sampled cells are right, `ota_check_zone_crc` when all are.
Packets come in any order, from any of the files the device may be sent, and need
not match what was announced. Reads through a null pointer and behind the zone
table find anything.

`skipped` is a history variable: a flash command was lost on a busy device. What
survives is promised without it only. `ConfirmedIsFound` leaves out a START of size
zero: the code lets it in (`ota.c:376`) and erases nothing, so that the flag that is
written afterwards may meet what was there before.

### Boot

`board` is what fuses, flash and card hold; it never changes. `at` is the place in
`main` and the functions it calls, `todo` the sources still to be tried. An image
is an identity with the checks that it satisfies (`holds`), so verification is
exact except in mode *NONE*, where `ota_check_sum` looks at `SampledBlocks` only.
The flash can be read plainly or through the region that decrypts (`region`); what
was encrypted is garbage when read plainly, and the reverse. `pins` tells to which
controller GPIOB_10 to 15 are connected: the flash answers only through its pins.
The modes of signature differ in what they compute, not in what they decide, and
are treated alike. `faulty` is a history variable: flash or card have failed.

Two cases the properties exclude or do not count. `MappedElsewhere`: an image at
the start of the flash that is linked to a region, while the fuses tell an offset,
is verified at the start, but `flash_ota_header` maps the region to the offset.
And `UpgradeIsLastResort` does not count an encrypted image at the start of a
flash whose fuses tell an offset, for the region is mapped to the offset there too.

### SerialFrame

`wire`, `fifo`, `cmd` are the bytes on their way, in the UART, and in SLIP_RX_BUF;
`events` are the UART_RXD events queued, by who posted them; `upc` is the place in
`uart_boot_process`, `acc` its `uart_time_out_acc`. Interrupts (`Arrive`,
`Transfer`, `Tick`) come between any two steps of the loop. Bytes are numbers and
SLIP's codes are the real ones, since escapes cut in two are part of the question;
a command is its direction, number and length, and its checksum is left out. In
UART mode the peripheral has no time-out of its own: UART_RXD comes from the tick
handler, which posts when two ticks find the same count, or from a full buffer.
`Tick` stands for both ticks.

`rx_busy` is the flag of the UART driver, `dma_on` whether the DMA channel writes what
comes. The two part when an abort finds the channel stopped because a byte has just ended
the first block (`Miss`; `DmaUsers` takes dma.c:1839 apart and calls it missed): a reception of 8064
bytes is two blocks of at most 4095, and the handler then starts the second. It
goes on through the answer, which is built and sent in the same buffer, and through the
`memset` after it. `UART_Receive` then marks the driver busy and resets the channel's count, but
the DMA driver refuses to configure a channel that runs: what comes is counted from `base` and
written behind the first block, while the loop parses from the buffer's start, which has
been cleared. Such frames run into their time-outs and are answered as refused, until the
second block is full. What keeps answers whole is that they are short (some 160 bytes with
their escapes) against a first block of 4095 that is already full: `AnswerUndisturbed`. It
is stated for every packet, fitting or not, and for every kind of damage.

`hurt` is a history variable: bytes damaged or lost, answers lost, pauses in a
frame, packets sent after damage. A frame longer than the buffer counts as
damaged, and so does one with more pauses than `MaxPauses`. The loop allows
`uart_time_out_max` events without an end of frame, of which `HalfQueue` may be
left over from the packet before; the assumption
`uart_time_out_max >= MaxPauses + HalfQueue` leaves the rest for pauses (100
against a half queue of 32 in the code).

Assumed: bytes wait in the FIFO rather than overflow it; the host writes a
frame as a whole and waits for the answer; a second buffer-full does not
arrive between two steps of the loop, nor the end of the second block inside
`UART_Receive` (one step here; `DmaUsers` takes it apart). One case lies outside the bounds of the run:
where the second block is longer than a frame, as in the code, and has been left running by a missed
abort, a host that sends early could have a whole frame received between the answer and
`UART_Receive`, which are a few instructions apart. If its last byte were also the
last of the buffer, nothing would be left to wake the loop, and the frame would not be answered. Not promised by the code, and so not
stated: a short, damaged or empty frame is executed, with the rest of the
packet before in `ub.buf` (uart_boot.c:260 compares no length). Left out: what
the commands do, the change of baud rate, and the error that `PROG_ERR` leaves
for the next answer.

### SdProg

`sdUpc` is the place in `uart_boot_process`, `sd_prog` and `sdRing` the programmer's
state; the ring is `BlockRing` once more, by INSTANCE, since the code is the same.
`sd_prog_process` programs every block it finds without yielding, and the write
busy-waits: for the other process a block is one step (`SdProgram`). A write
returns as `SdStore` promises, that is, a failure may have changed some of its sectors;
`lib_sdc_write_sector` turns failure into success (drv_sdc.c:496), and the model does so.
The host may begin another image at any time, while the BUF_RDY of the old one is
queued; BEGIN empties the ring. `sdBefore` and `sdFailed` are histories since BEGIN: the
card as it was, and whether a write failed. Flash and SD commands in turns, which
share `s_mem_*`, and damaged frames are left out.

### SdStore and SdHost

`SdStore` is the abstract specification: one operation at a time over a range of
sectors; success means that the sectors hold the data, or the buffer what is in the
sectors; after a failure the card may go on (`sdLate`), from the range's first sector on.

`SdHost` is `lib_sdc_read`/`lib_sdc_write` with `send_command`, `send_data_command`,
`transfer_data`, `send_stop_command` and `wait_for_state` of ftsdc021.c, by SDMA, the mode
that `scan_cards` chooses. `shPc` is the place in these functions; `cmplMask` and `ErrorSts` are
the words by which the handler tells them what is over. The handler is served before
the driver's next step, but completions, errors and give-ups come in any order.
Two facts of time are in the model. A missing answer to a command is reported by the
controller within 64 clocks, long before the driver's 100 ms, so that CMD_INHIBIT is
never found set. For data the driver's time-out is the controller's own 2^27 clocks, rounded down to
seconds (ftsdc021.c:2618), so that either may be first. A transfer given up goes on
(`late`): the next call writes its registers although the data line is in use
(ftsdc021.c:473), which moves its end or lets it pass a boundary.

`gaveUp` is a history variable: a transfer was given up while it ran. A transfer whose
buffer crosses a 64 KB boundary and that is given up there is resumed by the next
call, and its end, which nobody waits for, makes the handler spin (ftsdc021.c:1899).
`HandlerReturns` says that nothing else does. A last fact is not in the model: the answer to
STOP may carry error bits, and ftsdc021.c:713 does not look at them.

### Dma and DmaUsers

`reg` are the registers of each channel, `channel_info` what the driver keeps of it. A
transfer of more than `MAX_BLK_TS` items is cut into blocks, each started by the
handler (`HandleBlock`, `HandleList`, `HandleDone`, `HandleError`); a list is run likewise, as SUPPORT_HW_LLP is
off. The history variables `moved` and `goal` are the addresses that were read and written, and those asked for.

`DmaUsers` has a UART whose thread makes the calls of uart.c step by step, with
interrupts before each step; a register read may show the end of a block whose
interrupt has not been taken, which is how an abort meets it (`missed`). Or, instead,
anyone calls the DMA driver. `orphaned` are directions that got no channel or an error:
uart.c then leaves them busy for good. Not promised by the code, and so not among the
transfers: counts of gather or scatter that do not divide a block (wrong address at
the seam), a copy on a channel that keeps the list of an earlier transfer,
`dma_channel_configure_lite` on a channel whose widths were reset.

### ClockDevices, ClockTree, UartBaud and Clocking

`ClockDevices` is the table that `ClockManager.h` spells out as functions of one pattern per
device: `HAL_CRM_Set<Device>ClkDiv`, `...ClkSrc`, `Enable...`, `Get...Freq`. `ClockTree` is the pattern:
what a call writes, refuses and reports. Frequencies are 32 bits in two halves
<<high, low>>, for TLC's integers are signed; products wrap as in C. `UartBaud` is
`uart_compute_div` with its search for n/m.

`Clocking` runs the calls of `BootClock_Init`, `main`, `uart_dev_init` in their order, one per
step, then commands of the host; or, as `user = "anyone"`, any two calls with values at and
behind the limits. `asked`, `limit` and `ceiling` are histories: what each device was last asked to be,
the speed each bus was asked to have, and the most it may have while a command changes it.
IC_BOARD is 1. The AP bus has no limit after `main.c:484`, which runs it undivided.

`BusesWithinLimits` holds of the first change, which takes the core clock only when the dividers
are set, at every step. A later PLL_EN changes the core under buses that already run from it, and
their dividers after it (stub_load.c:78, 102-121): there the code does run buses faster than was asked
before or after. A host that asks for 200 MHz by 6 and then for the defaults (300 MHz by 8) has AON at 50 MHz
for some instructions, where 37.5 MHz are meant; the requests of the run hold this case. In such a
change the property bounds a bus only by the faster core and the smaller dividers (`Ceiling`), which
no order of these calls exceeds, and again by what was asked when the change has ended. A value that is refused
leaves the one there is, and so does its limit. The flash divider's comment
(ClockManager.c:543) has a range of 1 to 31; the code takes 32, and so does the model.

### MCUpdates, MCDrivers, MCParts

Each composes components that share no state. `component` chooses one at the start, the
others rest; so a run shows of each what a run of its own would show, and the checker
starts once.

## Runs

| Run | Question | Bounds |
|---|---|---|
| `process_quiet` | FIFO refinement, delivery of events | 3 slots, 2 processes, handlers that post and poll |
| `process_race` | an accepted event is queued: **violated** | 2 slots |
| `flash_image` | the promises to a host that stops at an error | 2 operations out of 2 images, 2 regions and the chip erase, 3 slots, blocks of 2 pages, erase sizes 1, 2 and 4 blocks, 1 fault, 1 lost reply, time-out 2 |
| `flash_end_tells_error` | success at END means the image is there: **violated** | 1 image, 1 fault |
| `flash_repeat` | a repeated packet is fine: **violated** | 1 image, no fault |
| `flash_chip` | chip erase erases the chip: **violated** | image, then chip erase |
| `flash_stuck` | every command is answered, also after a restart: **violated** | 2 operations, 1 fault |
| `updates` | kernel: poll requests with interrupts everywhere, types | 2 slots, 2 processes |
| | OTA: what updates leave in the flash, types | 14 cells, three devices (switch mode with two and three zones, overwrite mode), 2 STARTs, 2 packets, 1 flash error, 1 reset |
| `drivers` | flash programming: ring and events when the host starts anew in mid-flight | 3 operations: an image of more blocks than the ring has slots, in packets of 2 and 3 pages, 2 regions; 1 fault |
| | SD programming: what is acknowledged is on the card | 3 slots, blocks of 2 sectors, sectors of 2 units, 7 sectors; 2 images begun, 1 failing write or probe, 1 lost reply |
| | SD host: it implements the store, the handler returns | 3 sectors, 6 operations (one block and two, with and without a boundary, one beyond the card), 3 calls, 2 errors or give-ups |
| | clocks: read-back, limits of the buses, rates | all devices; 11 rates, 7 requests, 3 commands; or any 2 calls with 0, 1, the limit and one more |
| | DMA: items moved, owners, busy flags | 2 channels, blocks of 2 items, up to 3 blocks, 2 transfers, 1 error; UARTs with and without channels of their own |
| `sd_write_error` | a failed write is told to the host: **violated** | 1 image that ends beyond the card |
| `parts` | flash driver: it implements the store, every call returns | 32 cells, pages and sectors of 4, erase sizes 4, 8, 16, words of 2; 2 calls, 1 fault, time-out 3, resets |
| | boot: what runs is verified, the upgrade is the last resort, every start decides | images of 3 blocks, 2 sampled; 7 images, 5 cards, 20 flashes, 20 settings of the fuses; 5 retries, any number of failures |
| | serial: an intact packet is dealt with once, every frame is answered, answers are not overwritten | buffer of 9 bytes, 3 packets (no data, an escaped byte, too long), blocks of 5, FIFO 1, half queue 1, time-out 2; 1 byte damaged or answer lost, 1 pause, 1 packet after damage |
| `boot_fallback` | the flash is booted when the card is not: **violated** | as boot in `parts` |

Why the bounds are enough: three slots are the smallest ring in which slots and
buffers differ in number and both a full ring and a wrap occur; image sizes are
not multiples of a block and packets (2 and 3 pages) end inside, at and behind a
block's end; the first image begins with a large erase and the second lies inside
the first, so that stale erase lengths show; the second region takes erases of
three sizes; the queue of six events is never full but is full as soon as the
half-full test is dropped. The second operation finds the statics the first one
left. One fault reaches every failure path; the fault may hit before or after the
device has obeyed.

In `parts` the erasure from 4 to 32 takes all three erase sizes, the other one
begins and ends inside sectors; the writes cross two page ends with and without
an unaligned source, or are empty; the second call meets the device that the
first one left. The boot's images include every way to be refused (no flag, wrong
checksum, wrong signature, too large, encrypted or not), the cards every outcome
of the probe and a partition table that points to a place other than the default.
The serial packets end with and without data and with an escape that a pause can
cut in two; the packet too long is refused while it still comes, with an abort at or next to the
block's end, and runs on into the second block when that is missed; a packet sent
after a damaged one meets whatever the loop kept of it, and an event left over
from a packet may find the next one at any length.
In the OTA part an image needs two packets, so that every prefix of a
download occurs; two STARTs let a second attempt follow a failed, reset or
finished one; the zones hold the newest image in a place where a wrong choice of
the blank zone would take it. `Sampled` is below the image size, so that samples
and crc differ.

In the SD part the image of nine units fills the ring and ends inside a sector of the third
block; the other lies inside it, so that a late block of the first would be seen. SD host:
with three calls the first can be given up, the second meet what is left of it and the
third meet what both left; two errors do both kinds in either order. DMA: three items
are two blocks with an odd rest, the list has a transfer of one block and of two; a second transfer meets
what the first left. The rates have dividers that are exact, near, and none; the
requests hold defaults, values in range and values refused.

`CHECK_DEADLOCK FALSE` in the flash, SD and composed runs: the host may stop, calls are
bounded, and then nothing is left to do. Deadlock of the kernel is checked in
`process_quiet`.

**Fairness.** `WF(MainStep)`: the main loop calls `process_run` for ever and no
handler runs without end. `WF(RxInterrupt)`: the tick interrupt comes back and
posts UART_RXD as long as bytes wait. The host, faults and lost replies are not
fair. `WF(DriverStep)` in `SpiFlash`: the driver runs in one thread and goes on; the
device need not ever be ready. `WF(BootStep)`: `main` is one thread of control; nothing
makes the card or the flash succeed, and the pin need not be released.
`WF(FrameStep)`: bytes sent arrive (or are lost), the tick comes back, the loop
goes on; the host need not send. In `updates` the kernel has the fairness of `Process!Spec`.
Clocks, DMA and both SD modules state safety only, without fairness.

**What is violated** is in `PROJECT.json` under `findings`, with lines: events
lost between `process_post` of a process and of a handler; FLASH_END answered with
success though the last block failed; the last packet refused when repeated; chip
erase answered without erasing; an erase command after an error never answered; a failed write to the SD card
acknowledged;
the fallback from SD card to flash, which finds the flash's pins connected to the
card's controller.

## Proofs

All theorems hold for every value of the constants under the assumptions that the modules
name (`KernelAssumption`, `RingAssumption`, `FlashAssumption`, `SdHostAssumption`, `SdProgAssumption`,
`BootAssumption`, `DmaAssumption`, `DmaUsersAssumption`, `OtaAssumption`,
`CellsAssumption`, `DriverAssumption`, `FrameAssumption`, `PacketAssumption`). These say of which form the
constants are: an image lies in the flash and is not empty, a buffer has no more
boundaries than sectors, a block of an SD image is whole sectors, copies of images on a card do not overlap, a list of transfers is
not empty; a device's zones are whole sectors of the flash and do not overlap, the boot
loader's is the first and begins at zero, images that a device comes with are in their zones,
an image as long as a header can say can be read from any zone without leaving the
flash, and a flag is neither blank nor what is read outside an image; pages divide sectors,
sectors the larger erase sizes, and blocks the erase sizes (`LOAD_BLK_SIZE` of `main.h`
is the 4096 of a sector; the larger sizes of `spiflash.h` are 32K and 64K); a packet that
fits into the receive buffer is bytes, begins with the direction of a request and is as long as its
header says (what is sent otherwise is modelled as damage). None says how many
processes, slots, events, channels, zones, images, retries or faults there are.
Only the initial states and the steps of a specification are used, never its fairness.

| Module | Theorem | Property |
|---|---|---|
| `ProcessProofs` | `TypeCorrect` | `TypeOK` |
| | `PollRequestsKept` | `PollNotLost` |
| | `KernelQueueIsFifo` | `ImplementsFifo` (refinement) |
| `BlockRingProofs` | `RingTypeCorrect` | `RingTypeOK` |
| | `NoBufferShared`, `FreeBufHasRoom` | `BuffersDistinct`, `RoomWhenFree`, of the abstract loader and programmer |
| `FlashProgProofs` | `FlashTypeCorrect` | `FlashTypeOK` |
| | `FlashRingRefined` | `RingRefined` (refinement) |
| | `FlashNoBufferShared`, `FlashFreeBufHasRoom` | `BuffersDistinct`, `RoomWhenFree`, of the real ones |
| | `WakeupKept` | `NoLostWakeup` (of steps) |
| | `FlashQueueNeverFull` | `QueueNeverFull` |
| | `FlashErrorOnItsWay`, `FlashOnlyRealErrors` | `ErrorOnItsWay`, `OnlyRealErrors` |
| | `FlashImageProgrammed` | `AckedImageIsFlashed` |
| | `FlashOnlyErased`, `FlashRegionErased` | `ProgramOnlyErased`, `RegionIsErased` |
| | `FlashConfined` | `EraseConfined` (of steps) |
| `SdCardProofs` | `SdHandlerReturns` | `HandlerReturns` |
| | `SdStoreRefined` | `SdStoreImplemented` (refinement) |
| | `SdImageOnCard` | `SdAckedIsWritten` |
| `BootProofs` | `BootRunIsVerified` | `RunIsVerified` |
| | `BootUpgradeIsLastResort` | `UpgradeIsLastResort` |
| | `SerialDealtOnce` | `DealtOnce` |
| | `SerialAnswerUndisturbed` | `AnswerUndisturbed` |
| `DmaUsersProofs` | `DmaRunsForItsOwner` | `RunsForItsOwner` |
| | `DmaBusyWillEnd` | `BusyWillEnd` |
| | `DmaUartMovedAsAsked` | `MovedAsAsked`, of the UART |
| `SpiFlashProofs` | `FlashStoreImplemented` | `StoreImplemented` (refinement) |
| `OtaProofs` | `OtaTypeCorrect` | `OtaTypeOK` |
| | `FlagMeansComplete` | `FlaggedIsComplete` |
| | `ConfirmedCanBeFound` | `ConfirmedIsFound` |
| | `NewestImageSurvives` | `NewestSurvives` (of steps) |
| | `OverwriteLeavesTheRest` | `OverwriteConfined` (of steps) |

**Kernel.** `TypeOK` is not inductive: `nevents <= N` needs to know that a register that
will be stored is below N. `TypeInv` adds what each place of the program says of the
registers. `PollNotLost` is inductive relative to it: a marked process is behind the
cursor of `do_poll`, or the request flag is set, or someone is about to set it. For the
refinement the invariant is `QuietInv`: in a window the registers agree with the ring
(`Loaded`), the slot holds what has been written of the event (`Written`), an event is
handled exactly between its taking and its last receiver (`Handled`). Lemmas on segments of
the ring (`SegmentAppend`, `SegmentTail`, `SegmentKept`) turn slots into sequences.

**Ring.** `Sound`: the buffers of consecutive slots are consecutive modulo N-1, slots in use
number less than N, slots that are not in use are empty. The contents have lemmas of their own:
`Lined` says that the slots hold the next units of an image, each slot as full as it can be,
`Holds` that the buffers hold just these units; filling continues both at the end
(`FilledLined`, `FilledHolds`: the tail's buffer is no other slot's) and freeing at the
beginning (`FreedLined`, `FreedHolds`).

**Flash programming.** `FlashInv` has a part for each actor, and each is there because a step
of another needs it. That the ring is used as `BlockRing` says depends on the queue:
a completion may come after a FLASH_BEGIN that emptied the ring in mid-flight. The
refinement is a simulation with the same `ring`. The block that the programmer takes must
not be empty, so that `RingOK` adds `NoEmptyBlock`, and none is, because `LoaderOK` bounds
what is copied by what remains. `program_process`
tests its remaining size after a page (flash_prog.c:241), so that for a size of zero the code sends one
program command of no bytes; the model counts pages, of which the last is the one that leaves
none, and has no step for a size of zero.
`WorkerOK` and `ProgrammerOK` say that the size is positive wherever the event, the poll
or the process itself can be, queue included. `WakeupKept` follows step by step:
what can make `LeftLying` true is the first block of a ring, a programmer that goes to sleep,
or one that has used up its BUF_RDY; each but the named steps leaves a BUF_RDY behind or
finds the ring empty.

The theorems on events and on contents assume `Calm`: the host stops at an error (`~Restart`, as in
the runs that check these properties; one that starts again overtakes the operations in
progress), and the queue has at least 5 places (`process.h:88` has 64). Their invariant
joins two to `FlashInv`. `TalkInv` is the conversation of host and loader: what the host may
have asked, what is refused (only a packet the loader may have had), and how many units have
been `Taken` of the image, as host and loader each believe. `FlowInv` is the flow of events.
Besides UART_RXD, which stays in the half of the queue that `AlmostFull` leaves to it, there is at most
one event for `uart_boot_process` and behind it one that drives the programming (`Tidy`). That one is a
token: it is in the queue, or with `flash_prog_process`, or with the worker that it
handed the work to, or in that worker's result (`OneAtATime`). `JobsOK` and `QuietOK`
say when there is such work at all: no erasure while a block is
ready, nothing under way when the host begins anew, which is where `TalkInv` is needed.
`ErrorsOK` follows an error from the result through PROG_ERR to the flag; that it has been
told when the host stops is `OnlyRealErrors`.

The four theorems on the contents of the flash add `Kept` to these. Its first half, `PlaceInv`, holds
always and says where everything is: the ring and its buffers hold the next units of the image
(`ImageInv`, with `Lined` and `Holds` of `BlockRingProofs`), from the one that
`flash_prog.cnt` has come to up to the last one `Taken`; while the programmer waits, `flash_ops` is
the block at the ring's head; and every erasure or block in progress lies within what the host
named (`ErasePlace`, `ProgramPlace`), from which `EraseConfined` follows. The second half,
`CellsInv`, holds until an operation fails: the blocks counted are on the flash with
the units the host sent (`OnFlash`), what `erase_size` says is erased is blank beyond them
(`Fresh`), a region is blank as far as its erasure has come (`RegionWiped`), and the chip,
the worker and what has been replied agree (`InTune`). That last one is the crux: the chip has its work
done or not by the time a read says so, the answer may come as an event that is still
in the queue, and the programmer only then counts the block; at each place exactly one of
them owes the change. Division comes in where an
erase size is chosen by alignment and by what is left (`EraseSizeFits`, `WholeSectors`).
At FLASH_END `QuietOK` says that the ring is empty, so that what is on the flash is all that was
`Taken`, and `TalkInv` that this is the image.

**SD host.** `SdHostInv` relates three parties, driver, controller and card: what `cmplMask` and
`ErrorSts` may show at each place (`AwaitedOK`), which transfer is under way and whose
(`TransferOK`, `NeverLeftRunning`), how far it has come (`MovingOK`) and what the command
register means then (`CommandOK`, `StoppingOK`). The refinement maps an operation to the place in the driver's
functions, and a transfer that goes on after a give-up to `sdLate`. For `HandlerReturns` the
point is that the end of a transfer that nobody waits for exists only after a give-up.

**SD programming.** `SdProgInv` follows the units that the loader has taken: those below
`Programmed` are on the card (`OnCard`), those up to `Taken` in the ring (`InRing`), and
`Taken` agrees with what the host believes (`InStep`), before and after a packet whose answer was
lost. `InStep` holds through failing writes too, since nobody tells the loader; only `OnCard` is
given up. The programmer's counter counts sectors, so that after the last block `Programmed` lies
beyond `Taken`: `Lined` is about an integer that may be negative. That SD_END is
answered only when the ring is empty then gives the whole image, that the counter never passes
`Sectors(size)` the rest of the card. The events are not in the invariant at all: which BUF_RDY wakes
`sd_prog_process` does not matter for safety, an old one included.

**Boot.** `BootInv`: what `todo` still holds and what the region maps (`PlanOK`), what has been
read of the card's table (`CardOK`), and why the sources already passed were refused
(`TriedOK`); with `RunIsVerified` itself. The five retries of a block are in it as a fact
of what was read, not of how often.

**Serial line.** What has to be shown for `DealtOnce` is that it does not matter in which pieces a
frame comes. `uart_boot_process` parses from the beginning after every event, so the
question is what a prefix of a frame is parsed to. `Parsed` says where the parser stands after k bytes of it:
so many bytes of the packet stored, and k the place behind their escapes, or one more when it stands in
the middle of an escape. `TurnIs` is one byte's turn; `TurnsExist`, `ReceivedIs` and `ReceivedAs` make of it, by
induction over the bytes, that nothing is finished before the last byte and that then the
buffer holds the packet (`Dealt`). The induction is over sets of numbers, from the well-foundedness
of `<` (`EveryNatural`). `FrameInv` then keeps the bytes in sight:
what has been received, what waits in the UART and what is on the line are together
the frame (`Receiving`), and after the last of them nothing is (`Executing`, `Quiet`). That the
loop does not refuse the frame is `Patient`: as long as bytes are missing, the events counted
and those queued are at most those left over and the pauses, which the assumption on
`uart_time_out_max` leaves room for. `AnswerUndisturbed` needs none of this and holds for damaged
bytes too, but is not inductive: an abort with the driver idle does nothing, so that what it leaves
depends on what an earlier abort missed. `StrayInv` says that of every state: a channel
that runs while the driver is not busy has filled the first block, and from the answer to the next
`UART_Receive` the driver is not busy.

**DMA.** Neither of the properties on channels and ports is inductive. `DmaInv` adds that a channel whose block has ended
but whose handler has not yet run is owned too (`OwnedOK`), what the thread has seen of
the channel it aborts and whether that is still true (`AbortOK`), that the channel of a
busy direction has its callback and an unmasked interrupt (`Served`), and that a channel that
runs shows no end or error of the transfer before (`RegOK`).
What the UART's transfers move has an invariant of its own, `MoveInv`. A channel that runs, or whose
block has ended, is `Moving`: there is a transfer (`Lines`), and a number of bytes done
with earlier blocks, such that the registers hold the block behind those (`RegAt`), the driver's
record counts them and names the place where the block after this one begins (`InfoAt`),
and what has been moved is the transfer's beginning up to where the controller is. The lemmas go
one step each: a start (`StartMoves`), some items (`MoveMoves`, from `LinesGoOn`: lines
continue each other), the next block (`BlockMoves`), the end (`EndMoved`). It needs `DmaInv`
most in one place: a channel that is selected is not running (`SelectMoves`), or its history would be
cleared under it; which is also why a channel whose abort met the end of a block
(`missed`) is left out. The theorem is about `dmaUser = "uart"`: bytes, one address on one side, no
gaps. For anyone else's transfers `MovedAsAsked` does not hold whatever the constants: a gap
that does not divide the block size gives wrong addresses at the seam (see the hazards).

**SPI flash.** `SpiInv` says two things. `RangeOK`: the cells done, the part being written
and the parts that follow make up the range of the call, and what is erased goes by whole
sectors, so that no step can run over the end; it rests on `PartsAre` (first, middle and
last part make up the length for every alignment of the source), `EraseStepIs` and
`ProgramStepIs`. `DeviceOK`: what a busy device works on is what the last command was
about, unless that command was ignored. `ChangedIsDone` is the step where a program
command that ran over its page would show. With this theorem those of `OtaProofs`, which
are about `FlashStore`, rest on the driver as it is: single commands, bounded waits, and
a device left busy.

**OTA.** `FlaggedIsComplete` is not inductive: VERIFY looks at samples and at a crc, START
erases one sector after the other, and between any two steps the device may reset or
fail. `OtaInv` has two halves. `OtaBase` holds always: the table is one the device came with
(`DeviceOK`), state, base and command agree (`EnvOK`, `OpOK`, `GoalOK`), and a unit of an
image's data is found only at its place in a zone (`Own`), so that a complete image does not
reach into the next zone and erasing one zone leaves the others complete. `Promised` holds
until a flash command is lost (`skipped`): a flagged zone is complete and the device changes
nothing of it but the flag (`FlagOK`); from START on the flag is blank until VERIFY has seen
all of the image (`ErasedOK`), which is where the order of erasing matters; no zone that can
be run is as new as the image announced (`Announced`, from `CheckVersion`); and where START takes a zone that
can be run, another one has an image as new (`Spared`, from `ota_find_blank_zone`). `NewestSurvives` follows
from `Spared` step by step, `ConfirmedIsFound` from `Announced` and `FlagOK`: the new image is strictly
newer, so that `ota_find_zone` finds no other. Beyond what `Announced` says nothing is
assumed of versions: two zones may hold equal ones.

**Changed for the proofs.** `Parts` of `SpiFlash` puts its parts together by concatenation;
`StoreImplemented` asks of a success that it be a `ReturnOk`, where the step alone could
have passed as a failure. `Min` of the community modules is a CHOOSE, of which nothing is
known until a least element is shown to exist: in `DmaUsers` `Select` chooses from `Lowest`;
in `OtaProofs`, which needs `Min` and `Max`, the existence follows from the
well-foundedness of `<` (`SomeLeast`, `SomeGreatest`, `MinIs`, `MaxIs`). `NewestSurvives` is stated with quantifiers, without the operator for
"the newest". `ConfirmedIsFound` got its exemption of size zero when its
proof failed there. `NoLostWakeup`, once
an invariant, is stated of steps, since a block once left lying after a region's erasure
stays so until the next event: the state formula had to exempt more than the step that does it.

`RecvByte` of `SerialFrame` was a CASE whose guards overlapped, which TLA+ leaves
to choose between the values (TLC takes the first): the proof failed at the byte ESC, and
the guards are now disjoint. `uart_receive_bytes`, a fold before, is a recursive function,
about which a proof by induction can speak.

**Model-checked only.** All liveness (fairness and ENABLED are out of the provers' reach).
`MovedAsAsked` for other callers than the UART: transfers of two widths, with gaps, copies and lists
of transfers. It compares addresses that come from products and quotients of widths, and for a
list what a fold over it asks for; the provers have neither a useful theory of such
products nor of folds over lists. `ReportsAsAsked`, `BusesWithinLimits` and `ConfiguredMeansRate` of
`Clocking`: arithmetic in 32-bit halves, products that wrap, and tables of the devices whose entries
TLC enumerates; the first two are about these numbers and little else.

## Not modelled

Crypto and MD5 compute functions of data; GPIO and pin multiplexer write registers;
logging formats text. Of the stub's commands, memory load, registers, eFuse and MD5
do what they are told within one step. Of the SD/MMC driver: identification of the
card and tuning, which are straight sequences, and erasing, SDIO, ADMA and PIO,
which the program does not use. Of the DMA driver: cache maintenance, burst sizes,
priorities, lists walked by the hardware. Of the UART: the interrupt mode. Of the clock
manager: resets, power domains, the RC calibration.
The hazards without a property (`PROJECT.json`) are of two kinds: no document says what the
code should do (a frame cut short, decryption left on or off), or the device is modelled
without the case (error bits in the answer to STOP).
`process_start`, `process_exit`: processes are started once, before the loop.
Other processes' events (LED, timers) take places in the queue; the model leaves
them out.

## Plan

1. Done: all modules above, and the proofs of the table.
2. Proofs that say most next: `MovedAsAsked` for lists of transfers of one width, with the
   invariant of `MoveInv` for each and the list's rest; and `ReportsAsAsked` for the divider
   of a single device.
3. If more is to be modelled: `Etimer` (the timer list against the tick), the
   identification of the SD card, the interrupt mode of the UART.

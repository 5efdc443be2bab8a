-------------------------------- MODULE Dma --------------------------------
(***************************************************************************)
(* The DMA driver (driver/dma/dma.c): which channels are taken, what is     *)
(* known of each, and its registers.  A transfer of more than MAX_BLK_TS    *)
(* items is a sequence of blocks, each started by the interrupt handler at   *)
(* the end of the one before; a list of transfers (LLI) is run likewise, as *)
(* SUPPORT_HW_LLP is off.  Addresses are bytes; cache maintenance, burst     *)
(* sizes and priorities are left out.                                        *)
(*                                                                         *)
(* External is the controller: an enabled channel moves items, ends its      *)
(* block or fails, and raises a status that is an interrupt unless masked.   *)
(***************************************************************************)
EXTENDS Integers, SequencesExt

CONSTANTS
  Channels,      \* 0 .. DMA_NUMBER_OF_CHANNELS - 1
  MAX_BLK_TS     \* items that a block may have

ASSUME DmaAssumption == Channels \subseteq Nat /\ MAX_BLK_TS \in Nat \ {0}

VARIABLES
  init_cnt,
  channel_active, channel_reserved,   \* sets of channels
  channel_info,  \* of each channel: who is called back, what is left, what comes next
  reg,           \* of each channel: its registers
  moved,         \* history: addresses read and written since it was configured
  goal           \* history: what it was configured for

dmaVars == <<init_cnt, channel_active, channel_reserved, channel_info, reg, moved, goal>>

DMA_CHANNEL_ANY == -1
NoGaps == [count |-> 0, interval |-> 0]
NoInfo ==
  [ cb_event |-> "none", polling |-> FALSE, SizeToXfer |-> 0, SizeXfered |-> 0, llp |-> <<>>,
    SrcAddr |-> 0, DstAddr |-> 0, width |-> 1, dst_width |-> 1, gath |-> NoGaps, scat |-> NoGaps ]

(* Control: how the addresses go on, and the bytes of an item on each side. *)
NoControl == [src |-> "none", dst |-> "none", src_width |-> 1, dst_width |-> 1,
              gather |-> FALSE, scatter |-> FALSE]
Cleared ==
  [ enabled |-> FALSE, suspended |-> FALSE, size |-> 0, count |-> 0, sar |-> 0, dar |-> 0,
    ctl |-> NoControl, gath |-> NoGaps, scat |-> NoGaps, xfer |-> FALSE, error |-> FALSE,
    unmasked |-> FALSE ]
Nothing == [from |-> <<>>, to |-> <<>>]

DmaInit ==
  /\ init_cnt = 0 /\ channel_active = {} /\ channel_reserved = {}
  /\ channel_info = [ch \in Channels |-> NoInfo]
  /\ reg = [ch \in Channels |-> Cleared]
  /\ moved = [ch \in Channels |-> Nothing] /\ goal = [ch \in Channels |-> Nothing]

-----------------------------------------------------------------------------
(* Addresses *)

(* calc_src_bytes, calc_dst_bytes: bytes from one block to the next. *)
Span(size, width, sg) ==
  IF sg.count = 0 THEN size * width
  ELSE ((size \div sg.count) * (sg.count + sg.interval) + (size % sg.count)) * width

Onward(mode, addr, bytes) ==
  CASE mode = "inc" -> addr + bytes [] mode = "dec" -> addr - bytes [] mode = "fix" -> addr

Gaps(on, sg) == IF on THEN sg ELSE NoGaps
DstItems(w, size) == (size * w.src_width) \div w.dst_width

(* update_next_xfer_addr, with the widths of the first block of a list. *)
WithNextBlock(i, c, src, dst, size) ==
  [ i EXCEPT
      !.SrcAddr = Onward(c.src, src, Span(size, i.width, Gaps(c.gather, i.gath))),
      !.DstAddr = Onward(c.dst, dst,
                    IF c.scatter THEN Span((size * i.width) \div i.dst_width, i.dst_width, i.scat)
                    ELSE size * i.width) ]

(* The addresses that the controller goes through: the bytes of each item,   *)
(* with a gap behind each count of them.                                     *)
Trace(mode, addr, width, items, sg) ==
  [ b \in 1 .. items * width |->
      LET k == (b - 1) \div width
          at == IF sg.count = 0 THEN k ELSE k + (k \div sg.count) * sg.interval
      IN  Onward(mode, addr, at * width) + ((b - 1) % width) ]
Path(c, src, dst, gath, scat, size) ==
  [ from |-> Trace(c.src, src, c.src_width, size, Gaps(c.gather, gath)),
    to   |-> Trace(c.dst, dst, c.dst_width, DstItems(c, size), Gaps(c.scatter, scat)) ]
Joined(p, q) == [from |-> p.from \o q.from, to |-> p.to \o q.to]

Block(size) == IF size > MAX_BLK_TS THEN MAX_BLK_TS ELSE size

-----------------------------------------------------------------------------
(* Taking and leaving channels *)
FreeChannels == Channels \ channel_active

(* clear_channel_active_flag *)
Left(ch) == IF ch \in channel_reserved THEN channel_active ELSE channel_active \ {ch}

(* dma_channel_select, once the channel is found, and dma_channel_reserve.   *)
Claim(ch, cb) ==
  /\ ch \notin channel_active /\ channel_active' = channel_active \cup {ch}
  /\ channel_info' = [channel_info EXCEPT ![ch] = [NoInfo EXCEPT !.cb_event = cb]]
  /\ moved' = [moved EXCEPT ![ch] = Nothing] /\ goal' = [goal EXCEPT ![ch] = Nothing]
  /\ UNCHANGED <<init_cnt, reg>>

dma_channel_unreserve(ch) ==
  /\ ch \in channel_reserved
  /\ channel_reserved' = channel_reserved \ {ch} /\ channel_active' = channel_active \ {ch}
  /\ UNCHANGED <<init_cnt, channel_info, reg, moved, goal>>

(* dma_initialize and dma_uninitialize: counted, the first and the last one  *)
(* stop all channels.  Neither looks at the flags.                           *)
AllOff == [ch \in Channels |-> [reg[ch] EXCEPT !.enabled = FALSE]]
dma_initialize ==
  /\ init_cnt' = init_cnt + 1
  /\ IF init_cnt = 0
       THEN /\ channel_info' = [ch \in Channels |-> NoInfo]
            /\ reg' = [ch \in Channels |-> [AllOff[ch] EXCEPT !.xfer = FALSE, !.error = FALSE]]
       ELSE UNCHANGED <<channel_info, reg>>
  /\ UNCHANGED <<channel_active, channel_reserved, moved, goal>>
dma_uninitialize ==
  /\ init_cnt' = IF init_cnt = 0 THEN 0 ELSE init_cnt - 1
  /\ reg' = IF init_cnt = 1 THEN AllOff ELSE reg
  /\ UNCHANGED <<channel_active, channel_reserved, channel_info, moved, goal>>

-----------------------------------------------------------------------------
(* Starting a transfer *)

(* dma_channel_configure_internal *)
Started(r, i, src, dst, size, c, en_int) ==
  [ r EXCEPT !.enabled = TRUE, !.suspended = FALSE, !.size = size, !.count = 0,
             !.sar = src, !.dar = dst, !.ctl = c, !.unmasked = en_int,
             !.gath = Gaps(c.gather, i.gath), !.scat = Gaps(c.scatter, i.scat) ]

(* dma_channel_configure_internal_lite *)
GoesOn(r, src, dst, size) ==
  [r EXCEPT !.enabled = TRUE, !.size = size, !.count = 0, !.sar = src, !.dar = dst]

CanConfigure(ch) == ~reg[ch].enabled /\ ch \in channel_active
Quiet(r) == [r EXCEPT !.xfer = FALSE, !.error = FALSE]    \* clear_all_interrupts

(* What is common to all that configure a channel, for a transfer t. *)
Start(ch, i, t, en_int, what) ==
  /\ CanConfigure(ch)
  /\ channel_info' = [channel_info EXCEPT ![ch] = WithNextBlock(i, t.ctl, t.src, t.dst, Block(i.SizeToXfer))]
  /\ reg' = [reg EXCEPT ![ch] =
               Started(Quiet(@), i, t.src, t.dst, Block(i.SizeToXfer), t.ctl, en_int)]
  /\ moved' = [moved EXCEPT ![ch] = Nothing] /\ goal' = [goal EXCEPT ![ch] = what]
  /\ UNCHANGED <<init_cnt, channel_active, channel_reserved>>

Asked(t) == Path(t.ctl, t.src, t.dst, t.gath, t.scat, t.size)
CountsGiven(t) ==
  (t.ctl.gather => t.gath.count # 0) /\ (t.ctl.scatter => t.scat.count # 0)
InfoFor(ch, t, rest) ==
  [channel_info[ch] EXCEPT !.SizeToXfer = t.size, !.SizeXfered = 0, !.llp = rest,
     !.width = t.ctl.src_width, !.dst_width = t.ctl.dst_width, !.gath = t.gath, !.scat = t.scat]

(* dma_channel_configure_wrapper; without interrupts it is                   *)
(* dma_channel_configure_polling, which takes one block only.                *)
Configure(ch, t, en_int) ==
  /\ CountsGiven(t) /\ (~en_int => t.size <= MAX_BLK_TS)
  /\ Start(ch, [InfoFor(ch, t, <<>>) EXCEPT !.polling = ~en_int], t, en_int, Asked(t))

(* dma_channel_configure_LLP *)
ConfigureList(ch, list) ==
  /\ \A k \in DOMAIN list : CountsGiven(list[k])
  /\ Start(ch, [InfoFor(ch, list[1], Tail(list)) EXCEPT !.polling = FALSE], list[1], TRUE,
           FoldLeft(LAMBDA p, t : Joined(p, Asked(t)), Nothing, list))

(* dma_memcpy and dma_memcpy_SG, which both count words; what they move      *)
(* themselves is left out.  What else is known of the channel is kept.       *)
MemCopy(ch, t) ==
  Start(ch, [channel_info[ch] EXCEPT !.SizeToXfer = (t.size * t.ctl.src_width) \div 4,
                                     !.width = t.ctl.src_width,
                                     !.dst_width = t.ctl.dst_width, !.gath = t.gath,
                                     !.scat = t.scat, !.polling = FALSE],
        t, TRUE, Asked(t))

MemCopyNone(ch) ==
  /\ CanConfigure(ch) /\ channel_active' = Left(ch)
  /\ UNCHANGED <<init_cnt, channel_reserved, channel_info, reg, moved, goal>>

(* dma_channel_select_if_configured and dma_channel_configure_lite: to or     *)
(* from a peripheral that the channel is still set up for.                     *)
ConfigureLite(ch, src, dst, size) ==
  LET r == reg[ch]
      i == [channel_info[ch] EXCEPT !.SizeToXfer = size, !.SizeXfered = 0]
  IN  /\ ~r.enabled /\ ch \notin channel_active /\ "fix" \in {r.ctl.src, r.ctl.dst}
      /\ channel_info' = [channel_info EXCEPT ![ch] =
           IF size > MAX_BLK_TS THEN WithNextBlock(i, r.ctl, src, dst, MAX_BLK_TS) ELSE i]
      /\ reg' = [reg EXCEPT ![ch] = GoesOn(@, src, dst, Block(size))]
      /\ moved' = [moved EXCEPT ![ch] = Nothing]
      /\ goal' = [goal EXCEPT ![ch] = Path(r.ctl, src, dst, r.gath, r.scat, size)]
      /\ channel_active' = channel_active \cup {ch}
      /\ UNCHANGED <<init_cnt, channel_reserved>>

-----------------------------------------------------------------------------
(* The controller *)
Running(ch) == reg[ch].enabled /\ ~reg[ch].suspended
Interrupt(ch) == reg[ch].unmasked /\ (reg[ch].xfer \/ reg[ch].error)

(* n items of a block, and with the last one its end. *)
Move(ch, n) ==
  LET r == reg[ch]
      k == r.count + n
      before == Path(r.ctl, r.sar, r.dar, r.gath, r.scat, r.count)
      after == Path(r.ctl, r.sar, r.dar, r.gath, r.scat, k)
      Rest(q, p) == SubSeq(q, Len(p) + 1, Len(q))
  IN  /\ Running(ch) /\ k <= r.size
      /\ moved' = [moved EXCEPT ![ch] = Joined(@, [from |-> Rest(after.from, before.from),
                                                    to |-> Rest(after.to, before.to)])]
      /\ reg' = [reg EXCEPT ![ch].count = k, ![ch].enabled = k < r.size, ![ch].xfer = k = r.size]
      /\ UNCHANGED <<init_cnt, channel_active, channel_reserved, channel_info, goal>>

Fail(ch) ==
  /\ Running(ch)
  /\ reg' = [reg EXCEPT ![ch].enabled = FALSE, ![ch].error = TRUE]
  /\ UNCHANGED <<init_cnt, channel_active, channel_reserved, channel_info, moved, goal>>

-----------------------------------------------------------------------------
(* dma_irq_handler, for one channel *)
Counted(i, n) ==
  [i EXCEPT !.SizeXfered = @ + n, !.SizeToXfer = IF @ > n THEN @ - n ELSE 0]

(* An error ends the transfer. *)
HandleError(ch) ==
  /\ Interrupt(ch) /\ reg[ch].error
  /\ channel_info' = [channel_info EXCEPT ![ch] = Counted(@, reg[ch].count)]
  /\ reg' = [reg EXCEPT ![ch] = [Quiet(@) EXCEPT !.ctl = NoControl, !.count = 0]]
  /\ channel_active' = Left(ch)
  /\ UNCHANGED <<init_cnt, channel_reserved, moved, goal>>

(* More of this transfer, the next one of the list, or the end. *)
After(ch) == Counted(channel_info[ch], reg[ch].count)
Finished(ch) == Interrupt(ch) /\ ~reg[ch].error /\ After(ch).SizeToXfer = 0 /\ After(ch).llp = <<>>

(* Mutation: the block after the next begins where the next one does. *)
HandleBlockInPlace(ch) ==
  LET i == After(ch)
  IN  /\ Interrupt(ch) /\ ~reg[ch].error /\ i.SizeToXfer > 0
      /\ channel_info' = [channel_info EXCEPT ![ch] = i]
      /\ reg' = [reg EXCEPT ![ch] = GoesOn([@ EXCEPT !.xfer = FALSE], i.SrcAddr, i.DstAddr,
                                           Block(i.SizeToXfer))]
      /\ UNCHANGED <<init_cnt, channel_active, channel_reserved, moved, goal>>

HandleBlock(ch) ==
  LET i == After(ch)
  IN  /\ Interrupt(ch) /\ ~reg[ch].error /\ i.SizeToXfer > 0
      /\ channel_info' = [channel_info EXCEPT ![ch] =
           WithNextBlock(i, reg[ch].ctl, i.SrcAddr, i.DstAddr, Block(i.SizeToXfer))]
      /\ reg' = [reg EXCEPT ![ch] = GoesOn([@ EXCEPT !.xfer = FALSE], i.SrcAddr, i.DstAddr,
                                           Block(i.SizeToXfer))]
      /\ UNCHANGED <<init_cnt, channel_active, channel_reserved, moved, goal>>

HandleList(ch) ==
  LET i == After(ch)
      t == Head(i.llp)
      j == [i EXCEPT !.llp = Tail(i.llp), !.SizeToXfer = t.size]
  IN  /\ Interrupt(ch) /\ ~reg[ch].error /\ i.SizeToXfer = 0 /\ i.llp # <<>>
      /\ channel_info' = [channel_info EXCEPT ![ch] =
           WithNextBlock([j EXCEPT !.polling = FALSE], t.ctl, t.src, t.dst, Block(t.size))]
      /\ reg' = [reg EXCEPT ![ch] =
           Started([@ EXCEPT !.xfer = FALSE], j, t.src, t.dst, Block(t.size), t.ctl, TRUE)]
      /\ UNCHANGED <<init_cnt, channel_active, channel_reserved, moved, goal>>

HandleDone(ch) ==
  /\ Finished(ch)
  /\ channel_info' = [channel_info EXCEPT ![ch] = After(ch)]
  /\ reg' = [reg EXCEPT ![ch].xfer = FALSE, ![ch].count = 0]
  /\ channel_active' = Left(ch)
  /\ UNCHANGED <<init_cnt, channel_reserved, moved, goal>>

-----------------------------------------------------------------------------
(* Looking at a transfer and stopping it *)
dma_channel_get_count(ch) == channel_info[ch].SizeXfered + reg[ch].count

Suspend(ch, to) ==
  /\ reg[ch].enabled /\ reg[ch].suspended # to
  /\ reg' = [reg EXCEPT ![ch].suspended = to]
  /\ UNCHANGED <<init_cnt, channel_active, channel_reserved, channel_info, moved, goal>>

(* dma_channel_disable, after it has found the channel enabled or not. *)
(* Mutation: the channel is only suspended. *)
SuspendedOnly(ch) == [reg EXCEPT ![ch].suspended = TRUE]
Stopped(ch) == [reg EXCEPT ![ch].enabled = FALSE, ![ch].suspended = TRUE]

(* dma_channel_clear_xfer_status, after polling *)
ClearStatus(ch) ==
  /\ reg[ch].xfer \/ reg[ch].error
  /\ ~reg[ch].unmasked
  /\ channel_info' = [channel_info EXCEPT ![ch] =
       [(IF reg[ch].xfer THEN After(ch) ELSE @) EXCEPT !.polling = FALSE]]
  /\ reg' = [reg EXCEPT ![ch] = [Quiet(@) EXCEPT !.ctl = NoControl, !.count = 0]]
  /\ channel_active' = Left(ch)
  /\ UNCHANGED <<init_cnt, channel_reserved, moved, goal>>
=============================================================================

-------------------------- MODULE DmaUsersProofs ----------------------------
(***************************************************************************)
(* What the DMA driver promises a UART that uses it, for any number of     *)
(* channels, any transfers and lists, and however interrupts come between  *)
(* the steps of a call: a channel that runs has an owner, a busy port has  *)
(* something under way that will end it, and a transfer that ends has      *)
(* moved every byte once, in order and to where it was asked.              *)
(*                                                                         *)
(* The first two are not inductive by themselves. DmaInv adds what their   *)
(* steps need: the end of a block leaves a channel stopped that its        *)
(* handler starts again, so such a channel is owned too (OwnedOK); an      *)
(* abort must end the owner it was called for and no other, so what it     *)
(* has seen of the channel is still true when it leaves it (AbortOK); a    *)
(* busy port's channel can raise its interrupt (Served); and a channel     *)
(* that runs shows no end and no error of an earlier transfer (RegOK).     *)
(*                                                                         *)
(* For the bytes, MoveInv (second half) says that what a channel has       *)
(* moved is the beginning of what was asked, that its registers have the   *)
(* block it is in, and that what is known of it names the place where the  *)
(* block behind that one begins. It is stated of the UART, whose           *)
(* transfers go byte by byte and without gaps.                             *)
(***************************************************************************)
EXTENDS DmaUsers, SequenceTheorems, TLAPS

(* What a channel's record and registers hold; one that runs shows neither  *)
(* the end nor the error of a transfer before.                              *)
InfoOK(i) ==
  DOMAIN i = DOMAIN NoInfo /\ i.SizeToXfer \in Int /\ i.llp \in Seq(Listed)

RegOK(r) ==
  /\ DOMAIN r = DOMAIN Cleared /\ r.size \in Int /\ r.count \in Int
  /\ r.enabled \in BOOLEAN /\ r.xfer \in BOOLEAN /\ r.error \in BOOLEAN /\ r.unmasked \in BOOLEAN
  /\ r.enabled => ~r.xfer /\ ~r.error

(* All channels are so at all times.                                        *)
RegisterOK ==
  /\ DOMAIN reg = Channels /\ DOMAIN channel_info = Channels
  /\ \A ch \in Channels : RegOK(reg[ch]) /\ InfoOK(channel_info[ch])

(* Where the thread can be in a call.                                       *)
Labels == {"idle", "select", "configure", "stop", "leave", "power"}

(* The two directions of the UART; the port it was set up with may be any   *)
(* channel or none.                                                         *)
PortOK ==
  /\ DOMAIN port = Directions
  /\ \A d \in Directions :
       /\ DOMAIN port[d] = {"busy", "num", "cnt", "channel"}
       /\ port[d].busy \in BOOLEAN /\ port[d].num \in Nat
       /\ port[d].channel \in Channels \cup {DMA_CHANNEL_ANY}

(* No port is busy while the driver is off or in use by another; another    *)
(* user never is in a call.                                                 *)
ThreadOK ==
  /\ DOMAIN call = DOMAIN NoCall /\ call.at \in Labels /\ call.dir \in Directions
  /\ dmaUser = "anyone" \/ call.at = "power" => \A d \in Directions : ~port[d].busy
  /\ dmaUser = "anyone" => call.at = "idle"

(* A channel that runs, or whose block's end is to be handled, is owned.    *)
OwnedOK ==
  \A ch \in Channels \ missed :
    reg[ch].enabled \/ (Interrupt(ch) /\ ~Finished(ch)) => ch \in channel_active

(* Nothing will start the channel again: the one event left is the end.     *)
Ending(ch) == ~reg[ch].enabled /\ (Interrupt(ch) => Finished(ch))

(* What a call knows when it goes on: the channel selected has its callback; *)
(* an abort stops the channel of its own direction, or, after an error, one  *)
(* whose owner is counted as orphaned; and it leaves a channel that ends.    *)
AbortOK ==
  /\ call.at = "configure" =>
       /\ port[call.dir].channel \in Channels
       /\ channel_info[port[call.dir].channel].cb_event = call.dir
  /\ call.at \in {"stop", "leave"} /\ call.ch \in Channels =>
       \/ channel_info[call.ch].cb_event = call.dir
       \/ call.at = "stop" /\ call.dir \in orphaned
       \/ call.at = "leave" /\ Robbed \subseteq orphaned
  /\ call.at = "stop" /\ call.ch \in Channels \ missed => call.enabled = TRUE \/ Ending(call.ch)
  /\ call.at = "leave" /\ call.ch \in Channels \ missed => Ending(call.ch)

(* The channel of d is d's own and runs or has its end or error pending.    *)
Served(d) ==
  LET ch == port[d].channel
  IN  /\ ch \in channel_active /\ ch \in Channels /\ channel_info[ch].cb_event = d
      /\ reg[ch].unmasked /\ (reg[ch].enabled \/ reg[ch].xfer \/ reg[ch].error)

(* A busy port is served, but for one whose channel was lost.               *)
UnderWay ==
  \A d \in Directions :
    port[d].busy /\ d \notin orphaned /\ (call.dir = d => call.at = "idle") => Served(d)

(* The inductive invariant.                                                 *)
DmaInv == RegisterOK /\ PortOK /\ ThreadOK /\ OwnedOK /\ AbortOK /\ UnderWay

-----------------------------------------------------------------------------
(* Counting keeps who is called back and the rest of the list.              *)
LEMMA CountedIs ==
  ASSUME NEW i, InfoOK(i), NEW n \in Int
  PROVE  /\ InfoOK(Counted(i, n))
         /\ Counted(i, n).cb_event = i.cb_event /\ Counted(i, n).llp = i.llp
BY DEF InfoOK, Counted, NoInfo

(* So does telling where the next block begins.                             *)
LEMMA NextBlockIs ==
  ASSUME NEW i, InfoOK(i), NEW c, NEW src, NEW dst, NEW size
  PROVE  /\ InfoOK(WithNextBlock(i, c, src, dst, size))
         /\ WithNextBlock(i, c, src, dst, size).cb_event = i.cb_event
         /\ WithNextBlock(i, c, src, dst, size).SizeToXfer = i.SizeToXfer
BY DEF InfoOK, WithNextBlock, NoInfo

(* A channel that is started runs, with its status cleared.                 *)
LEMMA StartedIs ==
  ASSUME NEW r, RegOK(r), ~r.xfer, ~r.error, NEW i, NEW src, NEW dst, NEW size \in Int,
         NEW c, NEW en_int \in BOOLEAN
  PROVE  /\ RegOK(Started(r, i, src, dst, size, c, en_int))
         /\ Started(r, i, src, dst, size, c, en_int).enabled
         /\ en_int => Started(r, i, src, dst, size, c, en_int).unmasked
<1> DEFINE s == Started(r, i, src, dst, size, c, en_int)
<1>1. DOMAIN r = DOMAIN Cleared
  BY DEF RegOK
<1>2. DOMAIN s = DOMAIN Cleared
  BY <1>1 DEF Started
<1>3. {"enabled", "size", "count", "unmasked", "xfer", "error"} \subseteq DOMAIN r
  BY <1>1 DEF Cleared
<1>4. s.enabled /\ s.unmasked = en_int /\ s.size = size /\ s.count = 0
  BY <1>3 DEF Started
<1>5. (s.xfer <=> r.xfer) /\ (s.error <=> r.error)
  BY <1>3 DEF Started
<1> HIDE DEF s
<1>6. RegOK(s)
  <2>1. r.xfer = FALSE /\ r.error = FALSE
    BY DEF RegOK
  <2>2. s.enabled \in BOOLEAN /\ s.unmasked \in BOOLEAN /\ s.xfer = FALSE /\ s.error = FALSE
    BY <1>4, <1>5, <2>1
  <2>3. s.size \in Int /\ s.count \in Int
    BY <1>4
  <2>4. QED
    BY <1>2, <2>2, <2>3 DEF RegOK
<1>7. QED
  BY <1>4, <1>6 DEF s

(* So does one that goes on, with its interrupt as it was.                  *)
LEMMA GoesOnIs ==
  ASSUME NEW r, RegOK(r), ~r.xfer, ~r.error, NEW src, NEW dst, NEW size \in Int
  PROVE  /\ RegOK(GoesOn(r, src, dst, size)) /\ GoesOn(r, src, dst, size).enabled
         /\ (GoesOn(r, src, dst, size).unmasked <=> r.unmasked)
BY DEF RegOK, GoesOn, Cleared

(* Clearing the status changes nothing else.                                *)
LEMMA QuietIs ==
  ASSUME NEW r, RegOK(r)
  PROVE  /\ RegOK(Quiet(r)) /\ ~Quiet(r).xfer /\ ~Quiet(r).error
         /\ (Quiet(r).enabled <=> r.enabled) /\ (Quiet(r).unmasked <=> r.unmasked)
BY DEF RegOK, Quiet, Cleared

(* A block is a number of items.                                            *)
LEMMA BlockIs == \A size \in Int : Block(size) \in Int
BY DmaAssumption DEF Block

-----------------------------------------------------------------------------
(* What the driver's calls and handlers do to the channel they are for, as   *)
(* far as it matters whose it is; the other channels they leave alone.       *)
Elsewhere(ch) ==
  \A c \in Channels \ {ch} : reg'[c] = reg[c] /\ channel_info'[c] = channel_info[c]

(* A channel's registers and what is known of it are replaced.               *)
LEMMA ReplacedIs ==
  ASSUME RegisterOK, NEW ch \in Channels, NEW r, NEW i, RegOK(r), InfoOK(i),
         reg' = [reg EXCEPT ![ch] = r], channel_info' = [channel_info EXCEPT ![ch] = i]
  PROVE  RegisterOK' /\ Elsewhere(ch) /\ reg'[ch] = r /\ channel_info'[ch] = i
<1>1. /\ DOMAIN reg' = Channels /\ DOMAIN channel_info' = Channels
      /\ reg'[ch] = r /\ channel_info'[ch] = i
      /\ \A c \in Channels \ {ch} : reg'[c] = reg[c] /\ channel_info'[c] = channel_info[c]
  BY DEF RegisterOK
<1>2. RegisterOK'
  BY <1>1 DEF RegisterOK
<1>3. QED
  BY <1>1, <1>2 DEF Elsewhere

(* A channel that is taken has nothing known of it but who is called back.   *)
LEMMA ClaimDoes ==
  ASSUME RegisterOK, NEW ch \in Channels, NEW cb, Claim(ch, cb)
  PROVE  /\ RegisterOK' /\ Elsewhere(ch) /\ reg'[ch] = reg[ch]
         /\ channel_info'[ch].cb_event = cb
         /\ ch \notin channel_active /\ channel_active' = channel_active \cup {ch}
<1>1. reg' = reg /\ ch \notin channel_active /\ channel_active' = channel_active \cup {ch}
      /\ channel_info' = [channel_info EXCEPT ![ch] = [NoInfo EXCEPT !.cb_event = cb]]
  BY DEF Claim
<1>2. InfoOK([NoInfo EXCEPT !.cb_event = cb]) /\ [NoInfo EXCEPT !.cb_event = cb].cb_event = cb
  BY DEF InfoOK, NoInfo
<1>3. /\ DOMAIN channel_info' = Channels /\ channel_info'[ch] = [NoInfo EXCEPT !.cb_event = cb]
      /\ \A c \in Channels \ {ch} : channel_info'[c] = channel_info[c]
  BY <1>1 DEF RegisterOK
<1>4. RegisterOK'
  BY <1>1, <1>2, <1>3 DEF RegisterOK
<1>5. QED
  BY <1>1, <1>2, <1>3, <1>4 DEF Elsewhere

(* A channel that is started is someone's, runs, and calls him back.         *)
LEMMA StartDoes ==
  ASSUME RegisterOK, NEW ch \in Channels, NEW i, InfoOK(i), NEW t, NEW en_int \in BOOLEAN,
         NEW what, Start(ch, i, t, en_int, what)
  PROVE  /\ RegisterOK' /\ Elsewhere(ch)
         /\ reg'[ch].enabled /\ (en_int => reg'[ch].unmasked)
         /\ channel_info'[ch].cb_event = i.cb_event
         /\ CanConfigure(ch) /\ channel_active' = channel_active /\ init_cnt' = init_cnt
<1> DEFINE size == Block(i.SizeToXfer)
           r == Started(Quiet(reg[ch]), i, t.src, t.dst, size, t.ctl, en_int)
           j == WithNextBlock(i, t.ctl, t.src, t.dst, size)
<1>1. /\ reg' = [reg EXCEPT ![ch] = r] /\ channel_info' = [channel_info EXCEPT ![ch] = j]
      /\ CanConfigure(ch) /\ channel_active' = channel_active /\ init_cnt' = init_cnt
  BY DEF Start, RegisterOK
<1>2. RegOK(reg[ch])
  BY DEF RegisterOK
<1>3. RegOK(Quiet(reg[ch])) /\ ~Quiet(reg[ch]).xfer /\ ~Quiet(reg[ch]).error
  BY <1>2, QuietIs
<1>4. size \in Int
  BY BlockIs DEF InfoOK
<1>5. RegOK(r) /\ r.enabled /\ (en_int => r.unmasked)
  <2> HIDE DEF size
  <2>1. QED
    BY <1>3, <1>4, StartedIs
<1>6. InfoOK(j) /\ j.cb_event = i.cb_event
  BY NextBlockIs
<1> HIDE DEF size, r, j
<1>7. QED
  BY <1>1, <1>5, <1>6, ReplacedIs

(* For one transfer, dma_channel_configure_wrapper.                          *)
LEMMA ConfigureDoes ==
  ASSUME RegisterOK, NEW ch \in Channels, NEW t, t.size \in Int, NEW en_int \in BOOLEAN,
         Configure(ch, t, en_int)
  PROVE  /\ RegisterOK' /\ Elsewhere(ch)
         /\ reg'[ch].enabled /\ (en_int => reg'[ch].unmasked)
         /\ channel_info'[ch].cb_event = channel_info[ch].cb_event
         /\ CanConfigure(ch) /\ channel_active' = channel_active /\ init_cnt' = init_cnt
<1> DEFINE i == [InfoFor(ch, t, <<>>) EXCEPT !.polling = ~en_int]
<1>1. InfoOK(channel_info[ch])
  BY DEF RegisterOK
<1>2. <<>> \in Seq(Listed)
  OBVIOUS
<1>2a. i.cb_event = channel_info[ch].cb_event
  BY <1>1 DEF InfoOK, InfoFor, NoInfo
<1>2b. InfoOK(i)
  BY <1>1, <1>2 DEF InfoOK, InfoFor, NoInfo
<1>3. Start(ch, i, t, en_int, Asked(t))
  BY DEF Configure
<1> HIDE DEF i
<1>4. QED
  BY <1>2a, <1>2b, <1>3, StartDoes

(* For a list of them, dma_channel_configure_LLP.                            *)
LEMMA ConfigureListDoes ==
  ASSUME RegisterOK, NEW ch \in Channels, NEW list \in Lists, ConfigureList(ch, list)
  PROVE  /\ RegisterOK' /\ Elsewhere(ch) /\ reg'[ch].enabled
         /\ CanConfigure(ch) /\ channel_active' = channel_active /\ init_cnt' = init_cnt
<1> DEFINE i == [InfoFor(ch, list[1], Tail(list)) EXCEPT !.polling = FALSE]
<1>1. InfoOK(channel_info[ch])
  BY DEF RegisterOK
<1>2. list \in Seq(Listed) /\ list # <<>> /\ list[1] \in Listed /\ list[1].size \in Int
  BY DmaUsersAssumption
<1>3. Tail(list) \in Seq(Listed)
  BY <1>2
<1>4. InfoOK(i)
  BY <1>1, <1>2, <1>3 DEF InfoOK, InfoFor, NoInfo
<1>5. \E what : Start(ch, i, list[1], TRUE, what)
  BY DEF ConfigureList
<1> HIDE DEF i
<1>6. QED
  BY <1>4, <1>5, StartDoes

(* dma_memcpy of some bytes, and of none.                                    *)
LEMMA MemCopyDoes ==
  ASSUME RegisterOK, NEW ch \in Channels, NEW t \in Transfers, MemCopy(ch, t)
  PROVE  /\ RegisterOK' /\ Elsewhere(ch) /\ reg'[ch].enabled
         /\ CanConfigure(ch) /\ channel_active' = channel_active /\ init_cnt' = init_cnt
<1> DEFINE size == (t.size * t.ctl.src_width) \div 4
           i == [channel_info[ch] EXCEPT !.SizeToXfer = size, !.width = t.ctl.src_width,
                                         !.dst_width = t.ctl.dst_width, !.gath = t.gath,
                                         !.scat = t.scat, !.polling = FALSE]
<1>1. InfoOK(channel_info[ch])
  BY DEF RegisterOK
<1>2. size \in Int
  <2>1. t.size \in Nat /\ t.ctl.src_width \in Nat
    BY DmaUsersAssumption
  <2>2. QED
    BY <2>1
<1>3. Start(ch, i, t, TRUE, Asked(t))
  BY DEF MemCopy
<1>4. InfoOK(i)
  <2> HIDE DEF size
  <2>1. QED
    BY <1>1, <1>2 DEF InfoOK, NoInfo
<1> HIDE DEF i
<1>5. QED
  BY <1>3, <1>4, StartDoes

(* To go on with what a peripheral's channel is set up for, which takes it.  *)
LEMMA ConfigureLiteDoes ==
  ASSUME RegisterOK, NEW ch \in Channels, NEW src, NEW dst, NEW size \in Int,
         ~reg[ch].xfer, ~reg[ch].error, ConfigureLite(ch, src, dst, size)
  PROVE  /\ RegisterOK' /\ Elsewhere(ch) /\ reg'[ch].enabled
         /\ channel_active' = channel_active \cup {ch} /\ init_cnt' = init_cnt
<1> DEFINE r == GoesOn(reg[ch], src, dst, Block(size))
           i == [channel_info[ch] EXCEPT !.SizeToXfer = size, !.SizeXfered = 0]
           j == IF size > MAX_BLK_TS THEN WithNextBlock(i, reg[ch].ctl, src, dst, MAX_BLK_TS) ELSE i
<1>1. /\ reg' = [reg EXCEPT ![ch] = r] /\ channel_info' = [channel_info EXCEPT ![ch] = j]
      /\ channel_active' = channel_active \cup {ch} /\ init_cnt' = init_cnt
  BY DEF ConfigureLite, RegisterOK
<1>2. RegOK(reg[ch]) /\ InfoOK(channel_info[ch])
  BY DEF RegisterOK
<1>3. InfoOK(i)
  BY <1>2 DEF InfoOK, NoInfo
<1>4. InfoOK(j)
  <2> HIDE DEF i
  <2>1. QED
    BY <1>3, NextBlockIs
<1>5. Block(size) \in Int
  BY BlockIs
<1>6. RegOK(r) /\ r.enabled
  BY <1>2, <1>5, GoesOnIs
<1> HIDE DEF r, j
<1>7. QED
  BY <1>1, <1>4, <1>6, ReplacedIs

(* The controller ends a block with its last item, and the channel with it.  *)
LEMMA MoveDoes ==
  ASSUME RegisterOK, NEW ch \in Channels, NEW n \in Int, Move(ch, n)
  PROVE  /\ RegisterOK' /\ Elsewhere(ch) /\ reg[ch].enabled
         /\ (reg'[ch].enabled \/ reg'[ch].xfer) /\ (reg'[ch].unmasked <=> reg[ch].unmasked)
         /\ channel_info' = channel_info /\ channel_active' = channel_active
         /\ init_cnt' = init_cnt
<1> DEFINE k == reg[ch].count + n
           goes == k < reg[ch].size
           ends == k = reg[ch].size
           r == [reg[ch] EXCEPT !.count = k, !.enabled = goes, !.xfer = ends]
<1>1. RegOK(reg[ch]) /\ InfoOK(channel_info[ch]) /\ ch \in DOMAIN reg /\ ch \in DOMAIN channel_info
  BY DEF RegisterOK
<1>2. /\ reg[ch].enabled /\ k <= reg[ch].size
      /\ channel_info' = channel_info /\ channel_active' = channel_active /\ init_cnt' = init_cnt
  BY DEF Move, Running
<1>3. reg' = [reg EXCEPT ![ch] = r]
  BY <1>1 DEF Move, RegOK, Cleared
<1>4. k \in Int /\ reg[ch].size \in Int
  BY <1>1 DEF RegOK
<1>5. DOMAIN r = DOMAIN Cleared
  BY <1>1 DEF RegOK
<1>6. /\ r.count = k /\ r.size = reg[ch].size /\ (r.error <=> reg[ch].error)
      /\ (r.unmasked <=> reg[ch].unmasked)
      /\ r.enabled = goes /\ r.xfer = ends
  <2>1. {"count", "enabled", "xfer", "size", "error", "unmasked"} \subseteq DOMAIN reg[ch]
    BY <1>1 DEF RegOK, Cleared
  <2> HIDE DEF goes, ends, k
  <2>2. QED
    BY <2>1
<1>6a. /\ goes \in BOOLEAN /\ ends \in BOOLEAN /\ (goes => ~ends) /\ (goes \/ ends)
  BY <1>2, <1>4
<1> HIDE DEF r, k, goes, ends
<1>7. RegOK(r)
  <2>1. r.size \in Int /\ r.count \in Int
    BY <1>4, <1>6
  <2>2. r.enabled \in BOOLEAN /\ r.xfer \in BOOLEAN
    BY <1>6, <1>6a
  <2>3. r.error = FALSE /\ r.unmasked \in BOOLEAN
    <3>1. reg[ch].error = FALSE /\ reg[ch].unmasked \in BOOLEAN
      BY <1>1, <1>2 DEF RegOK
    <3>2. r.error = reg[ch].error /\ r.unmasked = reg[ch].unmasked
      BY <1>1, <1>5 DEF r, RegOK, Cleared
    <3>3. QED
      BY <3>1, <3>2
  <2>4. r.enabled => ~r.xfer
    BY <1>6, <1>6a
  <2>5. QED
    BY <1>5, <2>1, <2>2, <2>3, <2>4 DEF RegOK
<1>8. r.enabled \/ r.xfer
  BY <1>6, <1>6a
<1>9. RegisterOK' /\ Elsewhere(ch) /\ reg'[ch] = r
  <2>1. /\ DOMAIN reg' = Channels /\ reg'[ch] = r
        /\ \A c \in Channels \ {ch} : reg'[c] = reg[c]
    BY <1>3 DEF RegisterOK
  <2>2. RegisterOK'
    BY <1>2, <1>7, <2>1 DEF RegisterOK
  <2>3. QED
    BY <1>2, <2>1, <2>2 DEF Elsewhere
<1>10. QED
  BY <1>2, <1>6, <1>8, <1>9

(* Only the registers of one channel change, in a way that keeps their kind. *)
LEMMA RegisterOnly ==
  ASSUME RegisterOK, NEW ch \in Channels, NEW r, RegOK(r),
         reg' = [reg EXCEPT ![ch] = r], channel_info' = channel_info
  PROVE  RegisterOK' /\ Elsewhere(ch) /\ reg'[ch] = r
<1>1. /\ DOMAIN reg' = Channels /\ reg'[ch] = r
      /\ \A c \in Channels \ {ch} : reg'[c] = reg[c]
  BY DEF RegisterOK
<1>2. RegisterOK'
  BY <1>1 DEF RegisterOK
<1>3. QED
  BY <1>1, <1>2 DEF Elsewhere

(* An error stops a channel, and says so.                                    *)
LEMMA FailDoes ==
  ASSUME RegisterOK, NEW ch \in Channels, Fail(ch)
  PROVE  /\ RegisterOK' /\ Elsewhere(ch) /\ reg[ch].enabled
         /\ reg'[ch].error /\ (reg'[ch].unmasked <=> reg[ch].unmasked)
         /\ channel_info' = channel_info /\ channel_active' = channel_active
         /\ init_cnt' = init_cnt
<1> DEFINE r == [reg[ch] EXCEPT !.enabled = FALSE, !.error = TRUE]
<1>1. RegOK(reg[ch]) /\ ch \in DOMAIN reg
  BY DEF RegisterOK
<1>2. /\ reg[ch].enabled /\ reg' = [reg EXCEPT ![ch] = r]
      /\ channel_info' = channel_info /\ channel_active' = channel_active /\ init_cnt' = init_cnt
  BY <1>1 DEF Fail, Running, RegOK, Cleared
<1>3. RegOK(r) /\ r.error = TRUE /\ (r.unmasked <=> reg[ch].unmasked)
  BY <1>1 DEF RegOK, Cleared
<1> HIDE DEF r
<1>4. QED
  BY <1>2, <1>3, RegisterOnly

(* Suspending and resuming is not seen here.                                 *)
LEMMA SuspendDoes ==
  ASSUME RegisterOK, NEW ch \in Channels, NEW to, Suspend(ch, to)
  PROVE  /\ RegisterOK' /\ Elsewhere(ch)
         /\ (reg'[ch].enabled <=> reg[ch].enabled) /\ (reg'[ch].xfer <=> reg[ch].xfer)
         /\ (reg'[ch].error <=> reg[ch].error) /\ (reg'[ch].unmasked <=> reg[ch].unmasked)
         /\ reg'[ch].count = reg[ch].count
         /\ channel_info' = channel_info /\ channel_active' = channel_active
         /\ init_cnt' = init_cnt
<1> DEFINE r == [reg[ch] EXCEPT !.suspended = to]
<1>1. RegOK(reg[ch]) /\ ch \in DOMAIN reg
  BY DEF RegisterOK
<1>2. /\ reg' = [reg EXCEPT ![ch] = r]
      /\ channel_info' = channel_info /\ channel_active' = channel_active /\ init_cnt' = init_cnt
  BY <1>1 DEF Suspend, RegOK, Cleared
<1>3. /\ RegOK(r) /\ (r.enabled <=> reg[ch].enabled) /\ (r.xfer <=> reg[ch].xfer)
      /\ (r.error <=> reg[ch].error) /\ (r.unmasked <=> reg[ch].unmasked) /\ r.count = reg[ch].count
  BY <1>1 DEF RegOK, Cleared
<1> HIDE DEF r
<1>4. QED
  BY <1>2, <1>3, RegisterOnly

(* dma_channel_disable stops a channel: it is not enabled after it.          *)
LEMMA StoppedIs ==
  ASSUME RegisterOK, NEW ch \in Channels, reg' = Stopped(ch), channel_info' = channel_info
  PROVE  /\ RegisterOK' /\ Elsewhere(ch) /\ ~reg'[ch].enabled
         /\ (reg'[ch].xfer <=> reg[ch].xfer) /\ (reg'[ch].error <=> reg[ch].error)
         /\ (reg'[ch].unmasked <=> reg[ch].unmasked)
<1> DEFINE r == [reg[ch] EXCEPT !.enabled = FALSE, !.suspended = TRUE]
<1>1. RegOK(reg[ch]) /\ ch \in DOMAIN reg
  BY DEF RegisterOK
<1>2. reg' = [reg EXCEPT ![ch] = r]
  BY <1>1 DEF Stopped, RegOK, Cleared
<1>3. /\ RegOK(r) /\ r.enabled = FALSE /\ (r.xfer <=> reg[ch].xfer)
      /\ (r.error <=> reg[ch].error) /\ (r.unmasked <=> reg[ch].unmasked)
  BY <1>1 DEF RegOK, Cleared
<1> HIDE DEF r
<1>4. QED
  BY <1>2, <1>3, RegisterOnly

-----------------------------------------------------------------------------
(* The interrupt handler, by what it finds.                                  *)
LEMMA HandleErrorDoes ==
  ASSUME RegisterOK, NEW ch \in Channels, HandleError(ch)
  PROVE  /\ RegisterOK' /\ Elsewhere(ch) /\ Interrupt(ch)
         /\ ~reg'[ch].enabled /\ ~reg'[ch].xfer /\ ~reg'[ch].error
         /\ channel_info'[ch].cb_event = channel_info[ch].cb_event
         /\ channel_active' = Left(ch) /\ init_cnt' = init_cnt
<1> DEFINE r == [Quiet(reg[ch]) EXCEPT !.ctl = NoControl, !.count = 0]
           i == Counted(channel_info[ch], reg[ch].count)
<1>1. RegOK(reg[ch]) /\ InfoOK(channel_info[ch]) /\ ch \in DOMAIN reg /\ ch \in DOMAIN channel_info
  BY DEF RegisterOK
<1>2. /\ reg' = [reg EXCEPT ![ch] = r] /\ channel_info' = [channel_info EXCEPT ![ch] = i]
      /\ Interrupt(ch) /\ reg[ch].error /\ channel_active' = Left(ch) /\ init_cnt' = init_cnt
  BY <1>1 DEF HandleError
<1>3. /\ RegOK(Quiet(reg[ch])) /\ ~Quiet(reg[ch]).xfer /\ ~Quiet(reg[ch]).error
      /\ (Quiet(reg[ch]).enabled <=> reg[ch].enabled)
  BY <1>1, QuietIs
<1>4. RegOK(r) /\ ~r.xfer /\ ~r.error /\ (r.enabled <=> reg[ch].enabled)
  BY <1>3 DEF RegOK, Cleared
<1>5. InfoOK(i) /\ i.cb_event = channel_info[ch].cb_event
  <2>1. reg[ch].count \in Int
    BY <1>1 DEF RegOK
  <2>2. QED
    BY <1>1, <2>1, CountedIs
<1>6. ~reg[ch].enabled
  BY <1>1, <1>2 DEF RegOK
<1> HIDE DEF r, i
<1>7. QED
  BY <1>2, <1>4, <1>5, <1>6, ReplacedIs

(* What is known of a channel after a block of it has been counted.          *)
LEMMA AfterIs ==
  ASSUME RegisterOK, NEW ch \in Channels
  PROVE  InfoOK(After(ch)) /\ After(ch).cb_event = channel_info[ch].cb_event
<1>1. InfoOK(channel_info[ch]) /\ reg[ch].count \in Int
  BY DEF RegisterOK, RegOK
<1>2. QED
  BY <1>1, CountedIs DEF After

(* With the status of the block cleared, before the next one is started.     *)
LEMMA ClearedIs ==
  ASSUME NEW r, RegOK(r), ~r.error
  PROVE  LET q == [r EXCEPT !.xfer = FALSE]
         IN  /\ RegOK(q) /\ ~q.xfer /\ ~q.error /\ (q.unmasked <=> r.unmasked)
             /\ (q.enabled <=> r.enabled)
BY DEF RegOK, Cleared

(* The next block of a transfer is started.                                  *)
LEMMA HandleBlockDoes ==
  ASSUME RegisterOK, NEW ch \in Channels, HandleBlock(ch)
  PROVE  /\ RegisterOK' /\ Elsewhere(ch) /\ Interrupt(ch) /\ ~Finished(ch)
         /\ reg'[ch].enabled /\ reg'[ch].unmasked
         /\ channel_info'[ch].cb_event = channel_info[ch].cb_event
         /\ channel_active' = channel_active /\ init_cnt' = init_cnt
<1> DEFINE i == After(ch)
           q == [reg[ch] EXCEPT !.xfer = FALSE]
           r == GoesOn(q, i.SrcAddr, i.DstAddr, Block(i.SizeToXfer))
           j == WithNextBlock(i, reg[ch].ctl, i.SrcAddr, i.DstAddr, Block(i.SizeToXfer))
<1>1. RegOK(reg[ch]) /\ ch \in DOMAIN reg /\ ch \in DOMAIN channel_info
  BY DEF RegisterOK
<1>2. /\ reg' = [reg EXCEPT ![ch] = r] /\ channel_info' = [channel_info EXCEPT ![ch] = j]
      /\ Interrupt(ch) /\ ~reg[ch].error /\ i.SizeToXfer > 0
      /\ channel_active' = channel_active /\ init_cnt' = init_cnt
  BY <1>1 DEF HandleBlock
<1>3. InfoOK(i) /\ i.cb_event = channel_info[ch].cb_event
  BY AfterIs
<1>4. RegOK(q) /\ ~q.xfer /\ ~q.error /\ (q.unmasked <=> reg[ch].unmasked)
  BY <1>1, <1>2, ClearedIs
<1>5. Block(i.SizeToXfer) \in Int
  BY <1>3, BlockIs DEF InfoOK
<1>6. ~Finished(ch)
  BY <1>2, <1>3 DEF Finished, InfoOK
<1>7. reg[ch].unmasked
  BY <1>2 DEF Interrupt
<1> HIDE DEF i, q
<1>8. RegOK(r) /\ r.enabled /\ (r.unmasked <=> q.unmasked)
  BY <1>4, <1>5, GoesOnIs
<1>9. InfoOK(j) /\ j.cb_event = i.cb_event
  BY <1>3, NextBlockIs
<1> HIDE DEF r, j
<1>10. QED
  <2>1. RegisterOK' /\ Elsewhere(ch) /\ reg'[ch] = r /\ channel_info'[ch] = j
    BY <1>2, <1>8, <1>9, ReplacedIs
  <2>2. reg'[ch].enabled /\ reg'[ch].unmasked
    BY <1>4, <1>7, <1>8, <2>1
  <2>3. channel_info'[ch].cb_event = channel_info[ch].cb_event
    BY <1>3, <1>9, <2>1
  <2>4. QED
    BY <1>2, <1>6, <2>1, <2>2, <2>3

(* The next transfer of a list is started.                                   *)
LEMMA HandleListDoes ==
  ASSUME RegisterOK, NEW ch \in Channels, HandleList(ch)
  PROVE  /\ RegisterOK' /\ Elsewhere(ch) /\ Interrupt(ch) /\ ~Finished(ch)
         /\ reg'[ch].enabled /\ reg'[ch].unmasked
         /\ channel_info'[ch].cb_event = channel_info[ch].cb_event
         /\ channel_active' = channel_active /\ init_cnt' = init_cnt
<1> DEFINE i == After(ch)
           t == Head(i.llp)
           k == [i EXCEPT !.llp = Tail(i.llp), !.SizeToXfer = t.size]
           p == [k EXCEPT !.polling = FALSE]
           q == [reg[ch] EXCEPT !.xfer = FALSE]
           r == Started(q, k, t.src, t.dst, Block(t.size), t.ctl, TRUE)
           j == WithNextBlock(p, t.ctl, t.src, t.dst, Block(t.size))
<1>1. RegOK(reg[ch]) /\ ch \in DOMAIN reg /\ ch \in DOMAIN channel_info
  BY DEF RegisterOK
<1>2. /\ reg' = [reg EXCEPT ![ch] = r] /\ channel_info' = [channel_info EXCEPT ![ch] = j]
      /\ Interrupt(ch) /\ ~reg[ch].error /\ i.llp # <<>>
      /\ channel_active' = channel_active /\ init_cnt' = init_cnt
  BY <1>1 DEF HandleList
<1>3. InfoOK(i) /\ i.cb_event = channel_info[ch].cb_event
  BY AfterIs
<1>4. RegOK(q) /\ ~q.xfer /\ ~q.error
  BY <1>1, <1>2, ClearedIs
<1>5. ~Finished(ch)
  BY <1>2 DEF Finished
<1> HIDE DEF i, q
<1>6. i.llp \in Seq(Listed) /\ i.llp # <<>>
  BY <1>2, <1>3 DEF InfoOK
<1>7. t \in Listed /\ Tail(i.llp) \in Seq(Listed)
  BY <1>6
<1>8. t.size \in Int
  BY <1>7, DmaUsersAssumption
<1>9. Block(t.size) \in Int
  BY <1>8, BlockIs
<1> HIDE DEF t
<1>10. InfoOK(k) /\ k.cb_event = i.cb_event
  BY <1>3, <1>7, <1>8 DEF InfoOK, NoInfo
<1> HIDE DEF k
<1>11. InfoOK(p) /\ p.cb_event = k.cb_event
  BY <1>10 DEF InfoOK, NoInfo
<1> HIDE DEF p
<1>12. InfoOK(j) /\ j.cb_event = p.cb_event
  BY <1>11, NextBlockIs
<1>13. RegOK(r) /\ r.enabled /\ r.unmasked
  <2>1. ASSUME NEW e \in BOOLEAN, e = TRUE, NEW size \in Int
        PROVE  /\ RegOK(Started(q, k, t.src, t.dst, size, t.ctl, e))
               /\ Started(q, k, t.src, t.dst, size, t.ctl, e).enabled
               /\ Started(q, k, t.src, t.dst, size, t.ctl, e).unmasked
    BY <1>4, <2>1, StartedIs
  <2>2. QED
    BY <1>9, <2>1
<1> HIDE DEF r, j
<1>14. QED
  <2>1. RegisterOK' /\ Elsewhere(ch) /\ reg'[ch] = r /\ channel_info'[ch] = j
    BY <1>2, <1>12, <1>13, ReplacedIs
  <2>2. reg'[ch].enabled /\ reg'[ch].unmasked
    BY <1>13, <2>1
  <2>3. channel_info'[ch].cb_event = channel_info[ch].cb_event
    BY <1>3, <1>10, <1>11, <1>12, <2>1
  <2>4. QED
    BY <1>2, <1>5, <2>1, <2>2, <2>3

(* The end of a transfer: the channel is left, and at rest.                  *)
LEMMA HandleDoneDoes ==
  ASSUME RegisterOK, NEW ch \in Channels, HandleDone(ch)
  PROVE  /\ RegisterOK' /\ Elsewhere(ch) /\ Interrupt(ch)
         /\ ~reg'[ch].enabled /\ ~reg'[ch].xfer /\ ~reg'[ch].error
         /\ channel_info'[ch].cb_event = channel_info[ch].cb_event
         /\ channel_active' = Left(ch) /\ init_cnt' = init_cnt
<1> DEFINE r == [reg[ch] EXCEPT !.xfer = FALSE, !.count = 0]
           i == After(ch)
<1>1. RegOK(reg[ch]) /\ ch \in DOMAIN reg /\ ch \in DOMAIN channel_info
  BY DEF RegisterOK
<1>2. /\ reg' = [reg EXCEPT ![ch] = r] /\ channel_info' = [channel_info EXCEPT ![ch] = i]
      /\ Interrupt(ch) /\ ~reg[ch].error /\ channel_active' = Left(ch) /\ init_cnt' = init_cnt
  BY <1>1 DEF HandleDone, Finished, RegOK, Cleared
<1>3. reg[ch].xfer /\ ~reg[ch].enabled
  BY <1>1, <1>2 DEF Interrupt, RegOK
<1>4. RegOK(r) /\ ~r.xfer /\ ~r.error /\ ~r.enabled
  BY <1>1, <1>2, <1>3 DEF RegOK, Cleared
<1>5. InfoOK(i) /\ i.cb_event = channel_info[ch].cb_event
  BY AfterIs
<1> HIDE DEF r, i
<1>6. QED
  BY <1>2, <1>4, <1>5, ReplacedIs

(* Polling ends with the status cleared, and the channel left.               *)
LEMMA ClearStatusDoes ==
  ASSUME RegisterOK, NEW ch \in Channels, ClearStatus(ch)
  PROVE  /\ RegisterOK' /\ Elsewhere(ch)
         /\ ~reg'[ch].enabled /\ ~reg'[ch].xfer /\ ~reg'[ch].error
         /\ channel_active' = Left(ch) /\ init_cnt' = init_cnt
<1> DEFINE r == [Quiet(reg[ch]) EXCEPT !.ctl = NoControl, !.count = 0]
           i == IF reg[ch].xfer THEN After(ch) ELSE channel_info[ch]
           j == [i EXCEPT !.polling = FALSE]
<1>1. RegOK(reg[ch]) /\ InfoOK(channel_info[ch]) /\ ch \in DOMAIN reg /\ ch \in DOMAIN channel_info
  BY DEF RegisterOK
<1>2. /\ reg' = [reg EXCEPT ![ch] = r] /\ channel_info' = [channel_info EXCEPT ![ch] = j]
      /\ reg[ch].xfer \/ reg[ch].error
      /\ channel_active' = Left(ch) /\ init_cnt' = init_cnt
  BY <1>1 DEF ClearStatus
<1>3. ~reg[ch].enabled
  BY <1>1, <1>2 DEF RegOK
<1>4. /\ RegOK(Quiet(reg[ch])) /\ ~Quiet(reg[ch]).xfer /\ ~Quiet(reg[ch]).error
      /\ (Quiet(reg[ch]).enabled <=> reg[ch].enabled)
  BY <1>1, QuietIs
<1>5. RegOK(r) /\ ~r.xfer /\ ~r.error /\ ~r.enabled
  BY <1>3, <1>4 DEF RegOK, Cleared
<1>6. InfoOK(i)
  BY <1>1, AfterIs
<1> HIDE DEF i
<1>7. InfoOK(j)
  BY <1>6 DEF InfoOK, NoInfo
<1> HIDE DEF r, j
<1>8. QED
  BY <1>2, <1>5, <1>7, ReplacedIs

(* dma_initialize stops all channels and forgets what is known of them, the  *)
(* first time it is called.                                                  *)
LEMMA InitializeDoes ==
  ASSUME RegisterOK, dma_initialize
  PROVE  /\ RegisterOK' /\ channel_active' = channel_active
         /\ init_cnt = 0 => \A c \in Channels : ~reg'[c].enabled /\ ~reg'[c].xfer /\ ~reg'[c].error
         /\ init_cnt # 0 => reg' = reg /\ channel_info' = channel_info
<1>1. CASE init_cnt = 0
  <2>1. /\ DOMAIN reg' = Channels /\ DOMAIN channel_info' = Channels
        /\ \A c \in Channels :
             /\ reg'[c] = [AllOff[c] EXCEPT !.xfer = FALSE, !.error = FALSE]
             /\ channel_info'[c] = NoInfo
        /\ channel_active' = channel_active
    BY <1>1 DEF dma_initialize
  <2>2. ASSUME NEW c \in Channels
        PROVE  RegOK(reg'[c]) /\ ~reg'[c].enabled /\ ~reg'[c].xfer /\ ~reg'[c].error
    <3>1. RegOK(reg[c])
      BY DEF RegisterOK
    <3>2. AllOff[c] = [reg[c] EXCEPT !.enabled = FALSE]
      BY DEF AllOff
    <3>3. RegOK(AllOff[c]) /\ ~AllOff[c].enabled
      BY <3>1, <3>2 DEF RegOK, Cleared
    <3>4. QED
      BY <2>1, <3>3 DEF RegOK, Cleared
  <2>3. InfoOK(NoInfo)
    BY DEF InfoOK, NoInfo
  <2>4. RegisterOK'
    BY <2>1, <2>2, <2>3 DEF RegisterOK
  <2>5. QED
    BY <1>1, <2>1, <2>2, <2>4
<1>2. CASE init_cnt # 0
  BY <1>2 DEF dma_initialize, RegisterOK
<1>3. QED
  BY <1>1, <1>2

(* dma_uninitialize stops them too, the last time.                           *)
LEMMA UninitializeDoes ==
  ASSUME RegisterOK, dma_uninitialize
  PROVE  /\ RegisterOK' /\ channel_active' = channel_active /\ channel_info' = channel_info
         /\ \A c \in Channels :
              /\ reg'[c].enabled => reg[c].enabled
              /\ (reg'[c].xfer <=> reg[c].xfer) /\ (reg'[c].error <=> reg[c].error)
              /\ (reg'[c].unmasked <=> reg[c].unmasked) /\ reg'[c].count = reg[c].count
<1>1. CASE init_cnt = 1
  <2>1. /\ DOMAIN reg' = Channels /\ channel_info' = channel_info
        /\ \A c \in Channels : reg'[c] = [reg[c] EXCEPT !.enabled = FALSE]
        /\ channel_active' = channel_active
    BY <1>1 DEF dma_uninitialize, AllOff
  <2>2. ASSUME NEW c \in Channels
        PROVE  /\ RegOK(reg'[c]) /\ ~reg'[c].enabled
               /\ (reg'[c].xfer <=> reg[c].xfer) /\ (reg'[c].error <=> reg[c].error)
               /\ (reg'[c].unmasked <=> reg[c].unmasked) /\ reg'[c].count = reg[c].count
    <3>1. RegOK(reg[c])
      BY DEF RegisterOK
    <3>2. QED
      BY <2>1, <3>1 DEF RegOK, Cleared
  <2>3. RegisterOK'
    BY <2>1, <2>2 DEF RegisterOK
  <2>4. QED
    BY <2>1, <2>2, <2>3
<1>2. CASE init_cnt # 1
  BY <1>2 DEF dma_uninitialize, RegisterOK
<1>3. QED
  BY <1>1, <1>2

-----------------------------------------------------------------------------
(* What is seen of a channel that is left alone does not change.             *)
LEMMA OthersSeen ==
  ASSUME NEW c \in Channels, reg'[c] = reg[c], channel_info'[c] = channel_info[c]
  PROVE  /\ Interrupt(c)' <=> Interrupt(c)
         /\ Finished(c)' <=> Finished(c)
         /\ Ending(c)' <=> Ending(c)
<1>1. Interrupt(c)' <=> Interrupt(c)
  BY DEF Interrupt
<1>2. Finished(c)' <=> Finished(c)
  BY <1>1 DEF Finished, After
<1>3. QED
  BY <1>1, <1>2 DEF Ending

(* A running channel goes on: the controller moves items or fails, or the    *)
(* handler starts the next block.                                            *)
LEMMA GoingOnKeeps ==
  ASSUME DmaInv, NEW ch \in Channels, RegisterOK', Elsewhere(ch),
         reg[ch].enabled \/ (Interrupt(ch) /\ ~Finished(ch)),
         reg'[ch].enabled \/ reg'[ch].xfer \/ reg'[ch].error, reg[ch].unmasked => reg'[ch].unmasked,
         channel_info'[ch].cb_event = channel_info[ch].cb_event,
         channel_active' = channel_active, UNCHANGED <<dmaUser, call, port, orphaned, missed>>
  PROVE  DmaInv'
<1>0. \A c \in Channels : channel_info'[c].cb_event = channel_info[c].cb_event
  BY DEF Elsewhere
<1>1. PortOK' /\ ThreadOK'
  BY DEF DmaInv, PortOK, ThreadOK
<1>2. OwnedOK'
  <2>1. SUFFICES ASSUME NEW c \in Channels \ missed,
                        reg'[c].enabled \/ (Interrupt(c)' /\ ~Finished(c)')
                 PROVE  c \in channel_active
    BY DEF OwnedOK
  <2>2. CASE c = ch
    BY <2>1, <2>2 DEF DmaInv, OwnedOK
  <2>3. CASE c # ch
    <3>1. reg'[c] = reg[c] /\ channel_info'[c] = channel_info[c]
      BY <2>1, <2>3 DEF Elsewhere
    <3>2. reg[c].enabled \/ (Interrupt(c) /\ ~Finished(c))
      BY <2>1, <3>1, OthersSeen
    <3>3. QED
      BY <2>1, <3>2 DEF DmaInv, OwnedOK
  <2>4. QED
    BY <2>2, <2>3
<1>3. AbortOK'
  <2>1. Robbed' = Robbed
    BY <1>0 DEF Robbed
  <2>2. ~Ending(ch)
    BY DEF Ending
  <2>3. ASSUME call.ch \in Channels \ missed, Ending(call.ch) PROVE Ending(call.ch)'
    <3>1. call.ch # ch
      BY <2>2, <2>3
    <3>2. reg'[call.ch] = reg[call.ch] /\ channel_info'[call.ch] = channel_info[call.ch]
      BY <2>3, <3>1 DEF Elsewhere
    <3>3. \A c \in Channels : reg'[c] = reg[c] /\ channel_info'[c] = channel_info[c]
            => (Ending(c)' <=> Ending(c))
      BY OthersSeen
    <3>4. QED
      BY <2>3, <3>2, <3>3 DEF Ending, Interrupt, Finished, After
  <2>4. call.at = "configure" =>
          /\ port[call.dir].channel \in Channels
          /\ channel_info'[port[call.dir].channel].cb_event = call.dir
    BY <1>0 DEF DmaInv, AbortOK
  <2>5. call.at \in {"stop", "leave"} /\ call.ch \in Channels =>
          \/ channel_info'[call.ch].cb_event = call.dir
          \/ call.at = "stop" /\ call.dir \in orphaned
          \/ call.at = "leave" /\ Robbed' \subseteq orphaned
    BY <1>0, <2>1 DEF DmaInv, AbortOK
  <2>6. /\ call.at = "stop" /\ call.ch \in Channels \ missed => call.enabled = TRUE \/ Ending(call.ch)'
        /\ call.at = "leave" /\ call.ch \in Channels \ missed => Ending(call.ch)'
    BY <2>3 DEF DmaInv, AbortOK
  <2>7. QED
    BY <2>4, <2>5, <2>6 DEF AbortOK
<1>4. UnderWay'
  <2>1. SUFFICES ASSUME NEW d \in Directions, port[d].busy, d \notin orphaned,
                        call.dir = d => call.at = "idle"
                 PROVE  Served(d)'
    BY DEF UnderWay
  <2>2. Served(d)
    BY <2>1 DEF DmaInv, UnderWay
  <2>3. QED
    BY <1>0, <2>2 DEF Served, Elsewhere
<1>5. QED
  BY <1>1, <1>2, <1>3, <1>4 DEF DmaInv

(* A transfer comes to its end: the channel is left at rest, and the call    *)
(* that it was for is told.                                                  *)
LEMMA EndingKeeps ==
  ASSUME DmaInv, NEW ch \in Channels, RegisterOK', Elsewhere(ch),
         ~reg'[ch].enabled, ~reg'[ch].xfer, ~reg'[ch].error,
         channel_info'[ch].cb_event = channel_info[ch].cb_event,
         channel_active' = Left(ch), missed' = missed \ {ch}, orphaned \subseteq orphaned',
         UNCHANGED <<dmaUser, call>>, PortOK',
         \A d \in Directions : port'[d].busy => port[d].busy,
         \A d \in Directions : port'[d].channel = port[d].channel,
         \A d \in Owner(ch) : ~port'[d].busy \/ d \in orphaned'
  PROVE  DmaInv'
<1>0. \A c \in Channels : channel_info'[c].cb_event = channel_info[c].cb_event
  BY DEF Elsewhere
<1>a. ~Interrupt(ch)' /\ Ending(ch)'
  BY DEF Interrupt, Ending
<1>b. \A c \in channel_active : c # ch => c \in channel_active'
  BY DEF Left
<1>1. ThreadOK'
  BY DEF DmaInv, ThreadOK
<1>2. OwnedOK'
  <2>1. SUFFICES ASSUME NEW c \in Channels \ missed',
                        reg'[c].enabled \/ (Interrupt(c)' /\ ~Finished(c)')
                 PROVE  c \in channel_active'
    BY DEF OwnedOK
  <2>2. c # ch
    BY <1>a, <2>1
  <2>3. reg'[c] = reg[c] /\ channel_info'[c] = channel_info[c]
    BY <2>1, <2>2 DEF Elsewhere
  <2>4. reg[c].enabled \/ (Interrupt(c) /\ ~Finished(c))
    BY <2>1, <2>3, OthersSeen
  <2>5. QED
    BY <1>b, <2>1, <2>2, <2>4 DEF DmaInv, OwnedOK
<1>3. AbortOK'
  <2>1. Robbed' = Robbed
    BY <1>0 DEF Robbed
  <2>3. ASSUME call.ch \in Channels \ missed', call.ch # ch, Ending(call.ch)
        PROVE  Ending(call.ch)'
    <3>1. reg'[call.ch] = reg[call.ch] /\ channel_info'[call.ch] = channel_info[call.ch]
      BY <2>3 DEF Elsewhere
    <3>2. QED
      BY <2>3, <3>1 DEF Ending, Interrupt, Finished, After
  <2>4. call.at = "configure" =>
          /\ port'[call.dir].channel \in Channels
          /\ channel_info'[port'[call.dir].channel].cb_event = call.dir
    BY <1>0 DEF DmaInv, AbortOK, ThreadOK
  <2>5. call.at \in {"stop", "leave"} /\ call.ch \in Channels =>
          \/ channel_info'[call.ch].cb_event = call.dir
          \/ call.at = "stop" /\ call.dir \in orphaned'
          \/ call.at = "leave" /\ Robbed' \subseteq orphaned'
    BY <1>0, <2>1 DEF DmaInv, AbortOK
  <2>6. call.ch = ch => Ending(call.ch)'
    BY <1>a DEF Ending, Interrupt, Finished, After
  <2>7. /\ call.at = "stop" /\ call.ch \in Channels \ missed' => call.enabled = TRUE \/ Ending(call.ch)'
        /\ call.at = "leave" /\ call.ch \in Channels \ missed' => Ending(call.ch)'
    BY <2>3, <2>6 DEF DmaInv, AbortOK
  <2>8. QED
    BY <2>4, <2>5, <2>7 DEF AbortOK
<1>4. UnderWay'
  <2>1. SUFFICES ASSUME NEW d \in Directions, port'[d].busy, d \notin orphaned',
                        call.dir = d => call.at = "idle"
                 PROVE  Served(d)'
    BY DEF UnderWay
  <2>2. Served(d)
    BY <2>1 DEF DmaInv, UnderWay
  <2>3. port[d].channel # ch
    BY <2>1, <2>2 DEF Served, Owner
  <2>4. QED
    BY <1>0, <1>b, <2>2, <2>3 DEF Served, Elsewhere
<1>5. QED
  BY <1>1, <1>2, <1>3, <1>4 DEF DmaInv

-----------------------------------------------------------------------------
(* The controller moves items.                                              *)
LEMMA MoveItemsKeeps == DmaInv /\ MoveItems => DmaInv'
<1> SUFFICES ASSUME DmaInv, MoveItems PROVE DmaInv'
  OBVIOUS
<1>1. PICK ch \in Channels : \E n \in 1 .. reg[ch].size - reg[ch].count : Move(ch, n)
  BY DEF MoveItems
<1>2. RegisterOK /\ RegOK(reg[ch])
  BY DEF DmaInv, RegisterOK
<1>3. PICK n \in Int : Move(ch, n)
  BY <1>1
<1>4. /\ RegisterOK' /\ Elsewhere(ch) /\ reg[ch].enabled
      /\ (reg'[ch].enabled \/ reg'[ch].xfer) /\ (reg'[ch].unmasked <=> reg[ch].unmasked)
      /\ channel_info' = channel_info /\ channel_active' = channel_active
  BY <1>2, <1>3, MoveDoes
<1>5. QED
  BY <1>4, GoingOnKeeps DEF MoveItems, Machine

(* It fails.                                                                *)
LEMMA FailItemKeeps == DmaInv /\ FailItem => DmaInv'
<1> SUFFICES ASSUME DmaInv, FailItem PROVE DmaInv'
  OBVIOUS
<1>1. PICK ch \in Channels : Fail(ch)
  BY DEF FailItem
<1>2. RegisterOK
  BY DEF DmaInv
<1>3. /\ RegisterOK' /\ Elsewhere(ch) /\ reg[ch].enabled
      /\ reg'[ch].error /\ (reg'[ch].unmasked <=> reg[ch].unmasked)
      /\ channel_info' = channel_info /\ channel_active' = channel_active
  BY <1>1, <1>2, FailDoes
<1>4. QED
  BY <1>3, GoingOnKeeps DEF FailItem, Machine

(* The handler starts the next block, or the next transfer of a list.       *)
LEMMA BlockEndsKeeps == DmaInv /\ BlockEnds => DmaInv'
<1> SUFFICES ASSUME DmaInv, BlockEnds PROVE DmaInv'
  OBVIOUS
<1>1. PICK ch \in Channels : HandleBlock(ch) \/ HandleList(ch)
  BY DEF BlockEnds
<1>2. RegisterOK
  BY DEF DmaInv
<1>3. /\ RegisterOK' /\ Elsewhere(ch) /\ Interrupt(ch) /\ ~Finished(ch)
      /\ reg'[ch].enabled /\ reg'[ch].unmasked
      /\ channel_info'[ch].cb_event = channel_info[ch].cb_event
      /\ channel_active' = channel_active
  BY <1>1, <1>2, HandleBlockDoes, HandleListDoes
<1>4. QED
  BY <1>3, GoingOnKeeps DEF BlockEnds, Machine

(* The transfer has ended: who was to be called back is busy no more.       *)
LEMMA TransferEndsKeeps == DmaInv /\ TransferEnds => DmaInv'
<1> SUFFICES ASSUME DmaInv, TransferEnds PROVE DmaInv'
  OBVIOUS
<1>1. PICK ch \in Channels :
        /\ HandleDone(ch)
        /\ port' = [d \in Directions |-> IF d \in Owner(ch) THEN Completed(d) ELSE port[d]]
        /\ missed' = missed \ {ch}
  BY DEF TransferEnds
<1>2. RegisterOK /\ PortOK
  BY DEF DmaInv
<1>3. /\ RegisterOK' /\ Elsewhere(ch) /\ ~reg'[ch].enabled /\ ~reg'[ch].xfer /\ ~reg'[ch].error
      /\ channel_info'[ch].cb_event = channel_info[ch].cb_event /\ channel_active' = Left(ch)
  BY <1>1, <1>2, HandleDoneDoes
<1>4. /\ DOMAIN port' = Directions
      /\ \A d \in Directions : port'[d] = IF d \in Owner(ch) THEN Completed(d) ELSE port[d]
  BY <1>1
<1>5. ASSUME NEW d \in Directions
      PROVE  /\ DOMAIN Completed(d) = {"busy", "num", "cnt", "channel"}
             /\ Completed(d).busy = FALSE /\ Completed(d).num = port[d].num
             /\ Completed(d).channel = port[d].channel
  BY <1>2 DEF PortOK, Completed
<1>6. PortOK'
  BY <1>2, <1>4, <1>5 DEF PortOK
<1>7. \A d \in Directions :
        /\ port'[d].busy => port[d].busy
        /\ port'[d].channel = port[d].channel
        /\ d \in Owner(ch) => ~port'[d].busy
  BY <1>4, <1>5
<1>8. Owner(ch) \subseteq Directions
  BY DEF Owner
<1>9. UNCHANGED <<dmaUser, call, orphaned>>
  BY DEF TransferEnds, Machine
<1>10. QED
  BY <1>1, <1>3, <1>6, <1>7, <1>8, <1>9, EndingKeeps

(* It has failed: nobody tells who waits.                                   *)
LEMMA TransferFailsKeeps == DmaInv /\ TransferFails => DmaInv'
<1> SUFFICES ASSUME DmaInv, TransferFails PROVE DmaInv'
  OBVIOUS
<1>1. PICK ch \in Channels :
        /\ HandleError(ch) /\ orphaned' = orphaned \cup Owner(ch)
        /\ missed' = missed \ {ch}
  BY DEF TransferFails
<1>2. RegisterOK /\ PortOK
  BY DEF DmaInv
<1>3. /\ RegisterOK' /\ Elsewhere(ch) /\ ~reg'[ch].enabled /\ ~reg'[ch].xfer /\ ~reg'[ch].error
      /\ channel_info'[ch].cb_event = channel_info[ch].cb_event /\ channel_active' = Left(ch)
  BY <1>1, <1>2, HandleErrorDoes
<1>4. UNCHANGED <<dmaUser, call, port>>
  BY DEF TransferFails, Machine
<1>5. PortOK'
  BY <1>2, <1>4 DEF PortOK
<1>6. QED
  BY <1>1, <1>3, <1>4, <1>5, EndingKeeps

-----------------------------------------------------------------------------
(* Anyone's calls are no matter of the UART's.                              *)
LEMMA AnyoneKeeps ==
  ASSUME DmaInv, Anyone, RegisterOK', OwnedOK'
  PROVE  DmaInv'
<1>1. dmaUser = "anyone" /\ UNCHANGED <<dmaUser, port, call, orphaned, missed>>
  BY DEF Anyone
<1>2. call.at = "idle" /\ \A d \in Directions : ~port[d].busy
  BY <1>1 DEF DmaInv, ThreadOK
<1>3. PortOK' /\ ThreadOK'
  BY <1>1 DEF DmaInv, PortOK, ThreadOK
<1>4. AbortOK' /\ UnderWay'
  BY <1>1, <1>2 DEF AbortOK, UnderWay
<1>5. QED
  BY <1>3, <1>4 DEF DmaInv

(* When one channel changes hands or state, the others are owned as before.  *)
LEMMA OwnedIfOne ==
  ASSUME DmaInv, NEW ch \in Channels, Elsewhere(ch), missed' = missed,
         \A c \in channel_active : c # ch => c \in channel_active',
         ch \notin missed =>
           \/ ch \in channel_active'
           \/ ~reg'[ch].enabled /\ ~Interrupt(ch)'
  PROVE  OwnedOK'
<1>1. SUFFICES ASSUME NEW c \in Channels \ missed,
                      reg'[c].enabled \/ (Interrupt(c)' /\ ~Finished(c)')
               PROVE  c \in channel_active'
  BY DEF OwnedOK
<1>2. CASE c = ch
  BY <1>1, <1>2 DEF Interrupt
<1>3. CASE c # ch
  <2>1. reg'[c] = reg[c] /\ channel_info'[c] = channel_info[c]
    BY <1>1, <1>3 DEF Elsewhere
  <2>2. reg[c].enabled \/ (Interrupt(c) /\ ~Finished(c))
    BY <1>1, <2>1, OthersSeen
  <2>3. QED
    BY <1>1, <1>3, <2>2 DEF DmaInv, OwnedOK
<1>4. QED
  BY <1>2, <1>3

(* dma_initialize.                                                          *)
LEMMA OpenKeeps == DmaInv /\ Open => DmaInv'
<1> SUFFICES ASSUME DmaInv, Open PROVE DmaInv'
  OBVIOUS
<1>1. RegisterOK /\ Anyone /\ init_cnt = 0 /\ dma_initialize
  BY DEF DmaInv, Open
<1>2. RegisterOK' /\ \A c \in Channels : ~reg'[c].enabled /\ ~reg'[c].xfer /\ ~reg'[c].error
  BY <1>1, InitializeDoes
<1>3. OwnedOK'
  BY <1>2 DEF OwnedOK, Interrupt
<1>4. QED
  BY <1>1, <1>2, <1>3, AnyoneKeeps

(* A channel is taken, for good or for one transfer.                        *)
LEMMA TakeKeeps == DmaInv /\ Take => DmaInv'
<1> SUFFICES ASSUME DmaInv, Take PROVE DmaInv'
  OBVIOUS
<1>1. RegisterOK /\ Anyone /\ missed' = missed
  BY DEF DmaInv, Take, Anyone
<1>2. PICK ch \in Channels : Claim(ch, "anyone")
  BY DEF Take, Lowest, FreeChannels
<1>3. RegisterOK' /\ Elsewhere(ch) /\ channel_active' = channel_active \cup {ch}
  BY <1>1, <1>2, ClaimDoes
<1>4. OwnedOK'
  BY <1>1, <1>3, OwnedIfOne
<1>5. QED
  BY <1>1, <1>3, <1>4, AnyoneKeeps

(* A transfer is started.                                                   *)
LEMMA StartAnyKeeps == DmaInv /\ StartAny => DmaInv'
<1> SUFFICES ASSUME DmaInv, StartAny PROVE DmaInv'
  OBVIOUS
<1>1. RegisterOK /\ Anyone /\ missed' = missed /\ NoInterrupt
  BY DEF DmaInv, StartAny, Anyone
<1>2. PICK ch \in Channels :
        \/ \E t \in Transfers, en_int \in BOOLEAN : Configure(ch, t, en_int)
        \/ \E list \in Lists : ConfigureList(ch, list)
        \/ MemCopyNone(ch) \/ \E t \in Transfers : MemCopy(ch, t)
        \/ \E size \in Amounts : reg[ch].unmasked /\ ConfigureLite(ch, 8, 50, size)
  BY DEF StartAny
<1>3. CASE \E t \in Transfers, en_int \in BOOLEAN : Configure(ch, t, en_int)
  <2>1. PICK t \in Transfers, en_int \in BOOLEAN : Configure(ch, t, en_int)
    BY <1>3
  <2>2. t.size \in Int
    BY DmaUsersAssumption
  <2>3. RegisterOK' /\ Elsewhere(ch) /\ CanConfigure(ch) /\ channel_active' = channel_active
    BY <1>1, <2>1, <2>2, ConfigureDoes
  <2>4. OwnedOK'
    BY <1>1, <2>3, OwnedIfOne DEF CanConfigure
  <2>5. QED
    BY <1>1, <2>3, <2>4, AnyoneKeeps
<1>4. CASE \E list \in Lists : ConfigureList(ch, list)
  <2>1. RegisterOK' /\ Elsewhere(ch) /\ CanConfigure(ch) /\ channel_active' = channel_active
    BY <1>1, <1>4, ConfigureListDoes
  <2>2. OwnedOK'
    BY <1>1, <2>1, OwnedIfOne DEF CanConfigure
  <2>3. QED
    BY <1>1, <2>1, <2>2, AnyoneKeeps
<1>5. CASE MemCopyNone(ch)
  <2>1. /\ reg' = reg /\ channel_info' = channel_info /\ channel_active' = Left(ch)
        /\ ~reg[ch].enabled
    BY <1>5 DEF MemCopyNone, CanConfigure
  <2>2. RegisterOK' /\ Elsewhere(ch) /\ ~Interrupt(ch)'
    BY <1>1, <2>1 DEF RegisterOK, Elsewhere, NoInterrupt, Interrupt
  <2>3. \A c \in channel_active : c # ch => c \in channel_active'
    BY <2>1 DEF Left
  <2>4. OwnedOK'
    BY <1>1, <2>1, <2>2, <2>3, OwnedIfOne
  <2>5. QED
    BY <1>1, <2>2, <2>4, AnyoneKeeps
<1>6. CASE \E t \in Transfers : MemCopy(ch, t)
  <2>1. RegisterOK' /\ Elsewhere(ch) /\ CanConfigure(ch) /\ channel_active' = channel_active
    BY <1>1, <1>6, MemCopyDoes
  <2>2. OwnedOK'
    BY <1>1, <2>1, OwnedIfOne DEF CanConfigure
  <2>3. QED
    BY <1>1, <2>1, <2>2, AnyoneKeeps
<1>7. CASE \E size \in Amounts : reg[ch].unmasked /\ ConfigureLite(ch, 8, 50, size)
  <2>1. PICK size \in Amounts : reg[ch].unmasked /\ ConfigureLite(ch, 8, 50, size)
    BY <1>7
  <2>2. size \in Int
    BY DmaUsersAssumption
  <2>3. ~reg[ch].xfer /\ ~reg[ch].error
    BY <1>1, <2>1 DEF NoInterrupt, Interrupt
  <2>4. RegisterOK' /\ Elsewhere(ch) /\ channel_active' = channel_active \cup {ch}
    BY <1>1, <2>1, <2>2, <2>3, ConfigureLiteDoes
  <2>5. OwnedOK'
    BY <1>1, <2>4, OwnedIfOne
  <2>6. QED
    BY <1>1, <2>4, <2>5, AnyoneKeeps
<1>8. QED
  BY <1>2, <1>3, <1>4, <1>5, <1>6, <1>7

(* It is suspended, or goes on.                                             *)
LEMMA PauseKeeps == DmaInv /\ Pause => DmaInv'
<1> SUFFICES ASSUME DmaInv, Pause PROVE DmaInv'
  OBVIOUS
<1>1. RegisterOK /\ Anyone /\ missed' = missed
  BY DEF DmaInv, Pause, Anyone
<1>2. PICK ch \in Channels, to \in BOOLEAN : Suspend(ch, to)
  BY DEF Pause
<1>3. /\ RegisterOK' /\ Elsewhere(ch)
      /\ (reg'[ch].enabled <=> reg[ch].enabled) /\ (reg'[ch].xfer <=> reg[ch].xfer)
      /\ (reg'[ch].error <=> reg[ch].error) /\ (reg'[ch].unmasked <=> reg[ch].unmasked)
      /\ reg'[ch].count = reg[ch].count
      /\ channel_info' = channel_info /\ channel_active' = channel_active
  BY <1>1, <1>2, SuspendDoes
<1>4. OwnedOK'
  <2>1. reg[ch].enabled
    BY <1>2 DEF Suspend
  <2>2. QED
    BY <1>1, <1>3, <2>1, OwnedIfOne DEF DmaInv, OwnedOK
<1>5. QED
  BY <1>1, <1>3, <1>4, AnyoneKeeps

(* Its status is polled and cleared.                                        *)
LEMMA PollKeeps == DmaInv /\ Poll => DmaInv'
<1> SUFFICES ASSUME DmaInv, Poll PROVE DmaInv'
  OBVIOUS
<1>1. RegisterOK /\ Anyone /\ missed' = missed
  BY DEF DmaInv, Poll, Anyone
<1>2. PICK ch \in Channels : ClearStatus(ch)
  BY DEF Poll
<1>3. /\ RegisterOK' /\ Elsewhere(ch) /\ ~reg'[ch].enabled /\ ~reg'[ch].xfer /\ ~reg'[ch].error
      /\ channel_active' = Left(ch)
  BY <1>1, <1>2, ClearStatusDoes
<1>4. \A c \in channel_active : c # ch => c \in channel_active'
  BY <1>3 DEF Left
<1>5. ~Interrupt(ch)'
  BY <1>3 DEF Interrupt
<1>6. OwnedOK'
  BY <1>1, <1>3, <1>4, <1>5, OwnedIfOne
<1>7. QED
  BY <1>1, <1>3, <1>6, AnyoneKeeps

(* The channel is given back.                                               *)
LEMMA ReleaseKeeps == DmaInv /\ Release => DmaInv'
<1> SUFFICES ASSUME DmaInv, Release PROVE DmaInv'
  OBVIOUS
<1>1. RegisterOK /\ Anyone /\ missed' = missed /\ NoInterrupt
  BY DEF DmaInv, Release, Anyone
<1>2. PICK ch \in Channels : ~reg[ch].enabled /\ dma_channel_unreserve(ch)
  BY DEF Release
<1>3. /\ reg' = reg /\ channel_info' = channel_info /\ channel_active' = channel_active \ {ch}
  BY <1>2 DEF dma_channel_unreserve
<1>4. RegisterOK' /\ Elsewhere(ch) /\ ~Interrupt(ch)'
  BY <1>1, <1>3 DEF RegisterOK, Elsewhere, NoInterrupt, Interrupt
<1>5. OwnedOK'
  BY <1>1, <1>2, <1>3, <1>4, OwnedIfOne
<1>6. QED
  BY <1>1, <1>4, <1>5, AnyoneKeeps

-----------------------------------------------------------------------------
(* The UART's calls.  UART_Send and UART_Receive mark the port busy.        *)
LEMMA TransferCallKeeps == DmaInv /\ TransferCall => DmaInv'
<1> SUFFICES ASSUME DmaInv, TransferCall PROVE DmaInv'
  OBVIOUS
<1>1. /\ dmaUser = "uart" /\ dmaUser' = dmaUser /\ call.at = "idle" /\ missed' = missed
      /\ UNCHANGED dmaVars
  BY DEF TransferCall, Calm, Thread
<1>2. PICK d \in Directions, n \in Amounts :
        /\ BeginTransfer(d, n)
        /\ call' = [NoCall EXCEPT !.at = "select", !.dir = d]
        /\ orphaned' = orphaned \ {d}
  BY DEF TransferCall
<1>3. n \in Nat /\ PortOK /\ ThreadOK
  BY DmaUsersAssumption DEF DmaInv
<1>4. /\ DOMAIN port' = Directions
      /\ \A e \in Directions \ {d} : port'[e] = port[e]
      /\ port'[d] = [port[d] EXCEPT !.busy = TRUE, !.num = n, !.cnt = 0]
  BY <1>2, <1>3 DEF BeginTransfer, PortOK
<1>5. /\ DOMAIN port'[d] = {"busy", "num", "cnt", "channel"} /\ port'[d].busy \in BOOLEAN
      /\ port'[d].num = n /\ port'[d].channel = port[d].channel
  BY <1>3, <1>4 DEF PortOK
<1>6. PortOK'
  <2>1. SUFFICES ASSUME NEW e \in Directions
                 PROVE  /\ DOMAIN port'[e] = {"busy", "num", "cnt", "channel"}
                        /\ port'[e].busy \in BOOLEAN /\ port'[e].num \in Nat
                        /\ port'[e].channel \in Channels \cup {DMA_CHANNEL_ANY}
    BY <1>4 DEF PortOK
  <2>2. CASE e = d
    BY <1>3, <1>5, <2>1, <2>2 DEF PortOK
  <2>3. CASE e # d
    BY <1>3, <1>4, <2>1, <2>3 DEF PortOK
  <2>4. QED
    BY <2>2, <2>3
<1>7. call'.at = "select" /\ call'.dir = d /\ DOMAIN call' = DOMAIN NoCall
  BY <1>2 DEF NoCall
<1>8. ThreadOK'
  BY <1>1, <1>7 DEF ThreadOK, Labels
<1>9. AbortOK'
  BY <1>7 DEF AbortOK
<1>10. RegisterOK' /\ OwnedOK'
  BY <1>1 DEF DmaInv, RegisterOK, OwnedOK, Interrupt, Finished, After, dmaVars
<1>11. UnderWay'
  <2>1. SUFFICES ASSUME NEW e \in Directions, port'[e].busy, e \notin orphaned', e # d
                 PROVE  Served(e)'
    BY <1>7 DEF UnderWay
  <2>2. port'[e] = port[e] /\ e \notin orphaned
    BY <1>2, <1>4, <2>1
  <2>3. Served(e)
    BY <1>1, <2>1, <2>2 DEF DmaInv, UnderWay
  <2>4. QED
    BY <1>1, <2>2, <2>3 DEF Served, dmaVars
<1>12. QED
  BY <1>6, <1>8, <1>9, <1>10, <1>11 DEF DmaInv

(* dma_channel_select: a channel that nobody has, or none.                  *)
LEMMA SelectKeeps == DmaInv /\ Select => DmaInv'
<1> SUFFICES ASSUME DmaInv, Select PROVE DmaInv'
  OBVIOUS
<1> DEFINE d == call.dir
<1>1. /\ dmaUser = "uart" /\ dmaUser' = dmaUser /\ call.at = "select" /\ missed' = missed
  BY DEF Select, Calm, Thread
<1>2. d \in Directions /\ PortOK /\ ThreadOK /\ RegisterOK
  BY DEF DmaInv, ThreadOK
<1>3. ASSUME NEW ch \in Channels \cup {DMA_CHANNEL_ANY}, port' = [port EXCEPT ![d].channel = ch]
      PROVE  /\ PortOK' /\ port'[d].channel = ch
             /\ \A e \in Directions \ {d} : port'[e] = port[e]
  <2>1. /\ DOMAIN port' = Directions
        /\ \A e \in Directions \ {d} : port'[e] = port[e]
        /\ port'[d] = [port[d] EXCEPT !.channel = ch]
    BY <1>2, <1>3 DEF PortOK
  <2>2. /\ DOMAIN port'[d] = {"busy", "num", "cnt", "channel"} /\ port'[d].busy \in BOOLEAN
        /\ port'[d].num \in Nat /\ port'[d].channel = ch
    BY <1>2, <2>1 DEF PortOK
  <2>3. PortOK'
    BY <1>2, <1>3, <2>1, <2>2 DEF PortOK
  <2>4. QED
    BY <2>1, <2>2, <2>3
<1>4. CASE /\ port' = [port EXCEPT ![d].channel = DMA_CHANNEL_ANY]
           /\ call' = NoCall /\ orphaned' = orphaned \cup {d} /\ UNCHANGED dmaVars
  <2>1. PortOK' /\ \A e \in Directions \ {d} : port'[e] = port[e]
    BY <1>3, <1>4
  <2>2. call'.at = "idle" /\ call'.dir \in Directions /\ DOMAIN call' = DOMAIN NoCall
    BY <1>4 DEF NoCall, Directions
  <2>3. ThreadOK' /\ AbortOK'
    BY <1>1, <2>2 DEF ThreadOK, AbortOK, Labels
  <2>4. RegisterOK' /\ OwnedOK'
    BY <1>1, <1>4 DEF DmaInv, RegisterOK, OwnedOK, Interrupt, Finished, After, dmaVars
  <2>5. UnderWay'
    <3>1. SUFFICES ASSUME NEW e \in Directions, port'[e].busy, e \notin orphaned'
                   PROVE  Served(e)'
      BY DEF UnderWay
    <3>2. e # d /\ port'[e] = port[e] /\ e \notin orphaned
      BY <1>4, <2>1, <3>1
    <3>3. Served(e)
      BY <1>1, <3>1, <3>2 DEF DmaInv, UnderWay
    <3>4. QED
      BY <1>4, <3>2, <3>3 DEF Served, dmaVars
  <2>6. QED
    BY <2>1, <2>3, <2>4, <2>5 DEF DmaInv
<1>5. ASSUME NEW ch \in Channels,
             port' = [port EXCEPT ![d].channel = ch], Claim(ch, d),
             call' = [call EXCEPT !.at = "configure"], orphaned' = orphaned
      PROVE  DmaInv'
  <2>1. PortOK' /\ port'[d].channel = ch /\ \A e \in Directions \ {d} : port'[e] = port[e]
    BY <1>3, <1>5
  <2>2. call'.at = "configure" /\ call'.dir = d /\ DOMAIN call' = DOMAIN NoCall
    BY <1>2, <1>5 DEF ThreadOK, NoCall
  <2>3. /\ RegisterOK' /\ Elsewhere(ch) /\ channel_info'[ch].cb_event = d
        /\ ch \notin channel_active /\ channel_active' = channel_active \cup {ch}
    BY <1>2, <1>5, ClaimDoes
  <2>4. ThreadOK'
    BY <1>1, <1>2, <2>2 DEF ThreadOK, Labels
  <2>5. AbortOK'
    BY <2>1, <2>2, <2>3 DEF AbortOK
  <2>6. OwnedOK'
    BY <1>1, <2>3, OwnedIfOne
  <2>7. UnderWay'
    <3>1. SUFFICES ASSUME NEW e \in Directions, port'[e].busy, e \notin orphaned, e # d
                   PROVE  Served(e)'
      BY <1>5, <2>2 DEF UnderWay
    <3>2. port'[e] = port[e]
      BY <2>1, <3>1
    <3>3. Served(e)
      BY <1>1, <3>1, <3>2 DEF DmaInv, UnderWay
    <3>4. port[e].channel # ch
      BY <2>3, <3>3 DEF Served
    <3>5. QED
      BY <2>3, <3>2, <3>3, <3>4 DEF Served, Elsewhere
  <2>8. QED
    BY <2>1, <2>3, <2>4, <2>5, <2>6, <2>7 DEF DmaInv
<1>6. Lowest(Found(d)) \subseteq Channels
  BY DEF Lowest, Found, FreeChannels
<1>7. QED
  BY <1>4, <1>5, <1>6 DEF Select

(* The channel is set going, unless it is still in use.                     *)
LEMMA ConfigureUartKeeps == DmaInv /\ ConfigureUart => DmaInv'
<1> SUFFICES ASSUME DmaInv, ConfigureUart PROVE DmaInv'
  OBVIOUS
<1> DEFINE d == call.dir
           ch == port[d].channel
<1>1. /\ dmaUser = "uart" /\ dmaUser' = dmaUser /\ call.at = "configure" /\ missed' = missed
      /\ call' = NoCall /\ port' = port
  BY DEF ConfigureUart, Calm, Thread
<1>2. /\ d \in Directions /\ PortOK /\ ThreadOK /\ RegisterOK
      /\ ch \in Channels /\ channel_info[ch].cb_event = d
  BY <1>1 DEF DmaInv, ThreadOK, AbortOK
<1>3. call'.at = "idle" /\ call'.dir \in Directions /\ DOMAIN call' = DOMAIN NoCall
  BY <1>1 DEF NoCall, Directions
<1>4. PortOK' /\ ThreadOK' /\ AbortOK'
  BY <1>1, <1>2, <1>3 DEF PortOK, ThreadOK, AbortOK, Labels
<1>5. CASE Configure(ch, Bytes(d, port[d].num), TRUE) /\ orphaned' = orphaned
  <2>1. Bytes(d, port[d].num).size \in Int
    BY <1>2 DEF Bytes, PortOK
  <2>2. /\ RegisterOK' /\ Elsewhere(ch) /\ reg'[ch].enabled /\ reg'[ch].unmasked
        /\ channel_info'[ch].cb_event = channel_info[ch].cb_event
        /\ CanConfigure(ch) /\ channel_active' = channel_active
    <3>1. ASSUME NEW e \in BOOLEAN, e = TRUE, NEW t, t.size \in Int, NEW c \in Channels,
                 Configure(c, t, e)
          PROVE  /\ RegisterOK' /\ Elsewhere(c) /\ reg'[c].enabled /\ reg'[c].unmasked
                 /\ channel_info'[c].cb_event = channel_info[c].cb_event
                 /\ CanConfigure(c) /\ channel_active' = channel_active
      BY <1>2, <3>1, ConfigureDoes
    <3>2. QED
      BY <1>2, <1>5, <2>1, <3>1
  <2>3. ch \in channel_active
    BY <2>2 DEF CanConfigure
  <2>4. OwnedOK'
    BY <1>1, <1>2, <2>2, <2>3, OwnedIfOne
  <2>5. UnderWay'
    <3>1. SUFFICES ASSUME NEW e \in Directions, port[e].busy, e \notin orphaned
                   PROVE  Served(e)'
      BY <1>1, <1>5 DEF UnderWay
    <3>2. CASE e = d
      BY <1>1, <1>2, <2>2, <2>3, <3>2 DEF Served
    <3>3. CASE e # d
      <4>1. Served(e)
        BY <3>1, <3>3 DEF DmaInv, UnderWay
      <4>2. port[e].channel # ch
        BY <1>2, <3>3, <4>1 DEF Served
      <4>3. QED
        BY <1>1, <2>2, <4>1, <4>2 DEF Served, Elsewhere
    <3>4. QED
      BY <3>2, <3>3
  <2>6. QED
    BY <1>4, <2>2, <2>4, <2>5 DEF DmaInv
<1>6. CASE orphaned' = orphaned \cup {d} /\ UNCHANGED dmaVars
  <2>1. RegisterOK' /\ OwnedOK'
    BY <1>1, <1>6 DEF DmaInv, RegisterOK, OwnedOK, Interrupt, Finished, After, dmaVars
  <2>2. UnderWay'
    <3>1. SUFFICES ASSUME NEW e \in Directions, port[e].busy, e \notin orphaned, e # d
                   PROVE  Served(e)'
      BY <1>1, <1>6 DEF UnderWay
    <3>2. Served(e)
      BY <3>1 DEF DmaInv, UnderWay
    <3>3. QED
      BY <1>1, <1>6, <3>2 DEF Served, dmaVars
  <2>3. QED
    BY <1>4, <2>1, <2>2 DEF DmaInv
<1>7. QED
  BY <1>5, <1>6 DEF ConfigureUart

(* An abort looks whether the channel is enabled.  When it is not, and the   *)
(* end of a block is at hand, the handler will start the next one.           *)
LEMMA AbortTestKeeps == DmaInv /\ AbortTest => DmaInv'
<1> SUFFICES ASSUME DmaInv, AbortTest PROVE DmaInv'
  OBVIOUS
<1>1. dmaUser = "uart" /\ call.at = "idle" /\ UNCHANGED <<dmaVars, dmaUser, port, orphaned>>
  BY DEF AbortTest
<1>2. PICK d \in Directions :
        LET ch == port[d].channel
        IN  /\ port[d].busy
            /\ call' = [ at |-> "stop", dir |-> d, ch |-> ch,
                         enabled |-> ch # DMA_CHANNEL_ANY /\ reg[ch].enabled ]
            /\ missed' = missed \cup {c \in {ch} \cap Channels : Interrupt(c) /\ ~Finished(c)}
  BY DEF AbortTest
<1> DEFINE ch == port[d].channel
<1>3. PortOK /\ ThreadOK /\ RegisterOK /\ ch \in Channels \cup {DMA_CHANNEL_ANY}
  BY DEF DmaInv, PortOK
<1>4. /\ DOMAIN call' = DOMAIN NoCall /\ call'.at = "stop" /\ call'.dir = d /\ call'.ch = ch
      /\ call'.enabled = (ch # DMA_CHANNEL_ANY /\ reg[ch].enabled)
  BY <1>2 DEF NoCall
<1>5. PortOK' /\ ThreadOK' /\ RegisterOK'
  BY <1>1, <1>3, <1>4 DEF PortOK, ThreadOK, Labels, RegisterOK, dmaVars
<1>6. OwnedOK'
  BY <1>1, <1>2 DEF DmaInv, OwnedOK, Interrupt, Finished, After, dmaVars
<1>7. AbortOK'
  <2>1. ch \in Channels => channel_info[ch].cb_event = d \/ d \in orphaned
    BY <1>1, <1>2 DEF DmaInv, UnderWay, Served
  <2>2. ASSUME ch \in Channels \ missed', ~(call'.enabled = TRUE) PROVE Ending(ch)
    <3>1. ch # DMA_CHANNEL_ANY
      BY <2>2, DmaAssumption DEF DMA_CHANNEL_ANY
    <3>2. ~reg[ch].enabled
      BY <1>3, <1>4, <2>2, <3>1 DEF RegisterOK, RegOK
    <3>3. ~(Interrupt(ch) /\ ~Finished(ch))
      BY <1>2, <2>2
    <3>4. QED
      BY <3>2, <3>3 DEF Ending
  <2>3. Ending(ch) => Ending(call.ch)'
    BY <1>1, <1>4 DEF Ending, Interrupt, Finished, After, dmaVars
  <2>4. QED
    BY <1>1, <1>4, <2>1, <2>2, <2>3 DEF AbortOK, dmaVars
<1>8. UnderWay'
  <2>1. SUFFICES ASSUME NEW e \in Directions, port[e].busy, e \notin orphaned, e # d
                 PROVE  Served(e)'
    BY <1>1, <1>4 DEF UnderWay
  <2>2. Served(e)
    BY <1>1, <2>1 DEF DmaInv, UnderWay
  <2>3. QED
    BY <1>1, <2>2 DEF Served, dmaVars
<1>9. QED
  BY <1>5, <1>6, <1>7, <1>8 DEF DmaInv

(* It stops the channel, if it was enabled.                                 *)
LEMMA AbortStopKeeps == DmaInv /\ AbortStop => DmaInv'
<1> SUFFICES ASSUME DmaInv, AbortStop PROVE DmaInv'
  OBVIOUS
<1> DEFINE d == call.dir
           ch == call.ch
<1>1. /\ dmaUser = "uart" /\ dmaUser' = dmaUser /\ call.at = "stop" /\ missed' = missed
      /\ NoInterrupt /\ call' = [call EXCEPT !.at = "leave"]
      /\ orphaned' = (IF d \in orphaned THEN orphaned \cup Robbed ELSE orphaned)
      /\ UNCHANGED <<channel_active, channel_info, port>>
  BY DEF AbortStop, Calm, Thread
<1>2. d \in Directions /\ PortOK /\ ThreadOK /\ RegisterOK
  BY DEF DmaInv, ThreadOK
<1>3. call'.at = "leave" /\ call'.dir = d /\ call'.ch = ch /\ DOMAIN call' = DOMAIN NoCall
  BY <1>1, <1>2 DEF ThreadOK, NoCall
<1>4. PortOK' /\ ThreadOK'
  BY <1>1, <1>2, <1>3 DEF PortOK, ThreadOK, Labels
<1>5. /\ RegisterOK' /\ \A c \in Channels : c # ch => reg'[c] = reg[c]
      /\ \A c \in Channels : ~Interrupt(c)'
      /\ ch \in Channels /\ call.enabled => ~reg'[ch].enabled
      /\ ~call.enabled => reg' = reg
      /\ \A c \in Channels : reg'[c].enabled => reg[c].enabled
  <2>1. CASE ~call.enabled
    <3>1. reg' = reg
      BY <2>1 DEF AbortStop
    <3>2. QED
      BY <1>1, <1>2, <2>1, <3>1 DEF RegisterOK, NoInterrupt, Interrupt
  <2>2. CASE call.enabled
    <3>1. reg' = Stopped(ch)
      BY <2>2 DEF AbortStop
    <3>2. CASE ch \in Channels
      <4>1. /\ RegisterOK' /\ Elsewhere(ch) /\ ~reg'[ch].enabled
            /\ (reg'[ch].xfer <=> reg[ch].xfer) /\ (reg'[ch].error <=> reg[ch].error)
            /\ (reg'[ch].unmasked <=> reg[ch].unmasked)
        BY <1>1, <1>2, <3>1, <3>2, StoppedIs
      <4>2. QED
        BY <1>1, <2>2, <4>1 DEF Elsewhere, NoInterrupt, Interrupt
    <3>3. CASE ch \notin Channels
      <4>1. DOMAIN reg' = Channels /\ \A c \in Channels : reg'[c] = reg[c]
        BY <1>2, <3>1, <3>3 DEF Stopped, RegisterOK
      <4>2. QED
        BY <1>1, <1>2, <2>2, <3>3, <4>1 DEF RegisterOK, NoInterrupt, Interrupt
    <3>4. QED
      BY <3>2, <3>3
  <2>3. QED
    BY <2>1, <2>2
<1>6. OwnedOK'
  BY <1>1, <1>5 DEF DmaInv, OwnedOK
<1>7. AbortOK'
  <2>1. Robbed' = Robbed
    BY <1>1, <1>3 DEF Robbed
  <2>2. ch \in Channels => channel_info[ch].cb_event = d \/ d \in orphaned
    BY <1>1 DEF DmaInv, AbortOK
  <2>3. d \in orphaned => Robbed \subseteq orphaned'
    BY <1>1
  <2>4. ASSUME ch \in Channels \ missed PROVE ~reg'[ch].enabled
    <3>1. call.enabled = TRUE \/ Ending(ch)
      BY <1>1, <2>4 DEF DmaInv, AbortOK
    <3>2. CASE call.enabled = TRUE
      BY <1>5, <2>4, <3>2
    <3>3. CASE Ending(ch)
      BY <1>5, <2>4, <3>3 DEF Ending
    <3>4. QED
      BY <3>1, <3>2, <3>3
  <2>5. ch \in Channels \ missed => Ending(call.ch)'
    BY <1>3, <1>5, <2>4 DEF Ending, Interrupt
  <2>6. QED
    BY <1>1, <1>3, <2>1, <2>2, <2>3, <2>5 DEF AbortOK
<1>8. UnderWay'
  <2>1. SUFFICES ASSUME NEW e \in Directions, port[e].busy, e \notin orphaned', e # d
                 PROVE  Served(e)'
    BY <1>1, <1>3 DEF UnderWay
  <2>2. Served(e)
    BY <1>1, <2>1 DEF DmaInv, UnderWay
  <2>3. port[e].channel # ch
    <3>1. SUFFICES ASSUME ch \in Channels, channel_info[ch].cb_event = e PROVE FALSE
      BY <2>2 DEF Served
    <3>2. d \in orphaned
      BY <1>1, <2>1, <3>1 DEF DmaInv, AbortOK
    <3>3. e \in Robbed
      BY <2>1, <3>1 DEF Robbed
    <3>4. QED
      BY <1>1, <2>1, <3>2, <3>3
  <2>4. QED
    BY <1>1, <1>5, <2>2, <2>3 DEF Served
<1>9. QED
  BY <1>4, <1>5, <1>6, <1>7, <1>8 DEF DmaInv

(* And leaves it.                                                           *)
LEMMA AbortLeaveKeeps == DmaInv /\ AbortLeave => DmaInv'
<1> SUFFICES ASSUME DmaInv, AbortLeave PROVE DmaInv'
  OBVIOUS
<1> DEFINE d == call.dir
           ch == call.ch
<1>1. /\ dmaUser = "uart" /\ dmaUser' = dmaUser /\ call.at = "leave" /\ missed' = missed
      /\ NoInterrupt /\ call' = NoCall /\ channel_active' = Left(ch)
      /\ port' = [port EXCEPT ![d].busy = FALSE] /\ orphaned' = orphaned \ {d}
      /\ UNCHANGED <<channel_info, reg>>
  BY DEF AbortLeave, Calm, Thread
<1>2. d \in Directions /\ PortOK /\ ThreadOK /\ RegisterOK
  BY DEF DmaInv, ThreadOK
<1>3. call'.at = "idle" /\ call'.dir \in Directions /\ DOMAIN call' = DOMAIN NoCall
  BY <1>1 DEF NoCall, Directions
<1>4. /\ DOMAIN port' = Directions
      /\ \A e \in Directions \ {d} : port'[e] = port[e]
      /\ port'[d] = [port[d] EXCEPT !.busy = FALSE]
  BY <1>1, <1>2 DEF PortOK
<1>5. /\ DOMAIN port'[d] = {"busy", "num", "cnt", "channel"} /\ port'[d].busy = FALSE
      /\ port'[d].num \in Nat /\ port'[d].channel \in Channels \cup {DMA_CHANNEL_ANY}
  BY <1>2, <1>4 DEF PortOK
<1>6. PortOK' /\ ThreadOK' /\ AbortOK'
  BY <1>1, <1>2, <1>3, <1>4, <1>5 DEF PortOK, ThreadOK, AbortOK, Labels
<1>7. RegisterOK' /\ \A c \in Channels : ~Interrupt(c)'
  BY <1>1, <1>2 DEF RegisterOK, NoInterrupt, Interrupt
<1>8. OwnedOK'
  <2>1. SUFFICES ASSUME NEW c \in Channels \ missed, reg[c].enabled PROVE c \in channel_active'
    BY <1>1, <1>7 DEF OwnedOK
  <2>2. c \in channel_active
    BY <2>1 DEF DmaInv, OwnedOK
  <2>3. c # ch
    BY <1>1, <2>1 DEF DmaInv, AbortOK, Ending
  <2>4. QED
    BY <1>1, <2>2, <2>3 DEF Left
<1>9. UnderWay'
  <2>1. SUFFICES ASSUME NEW e \in Directions, port'[e].busy, e \notin orphaned'
                 PROVE  Served(e)'
    BY DEF UnderWay
  <2>2. e # d /\ port'[e] = port[e] /\ e \notin orphaned
    BY <1>1, <1>4, <1>5, <2>1
  <2>3. Served(e)
    BY <1>1, <2>1, <2>2 DEF DmaInv, UnderWay
  <2>4. port[e].channel # ch
    <3>1. SUFFICES ASSUME ch \in Channels, channel_info[ch].cb_event = e PROVE FALSE
      BY <2>3 DEF Served
    <3>2. Robbed \subseteq orphaned
      BY <1>1, <2>2, <3>1 DEF DmaInv, AbortOK
    <3>3. e \in Robbed
      BY <2>1, <3>1 DEF Robbed
    <3>4. QED
      BY <2>2, <3>2, <3>3
  <2>5. QED
    BY <1>1, <2>2, <2>3, <2>4 DEF Served, Left
<1>10. QED
  BY <1>6, <1>7, <1>8, <1>9 DEF DmaInv

(* uart_dev_init: no port is busy.                                          *)
LEMMA PowerOffKeeps == DmaInv /\ PowerOff => DmaInv'
<1> SUFFICES ASSUME DmaInv, PowerOff PROVE DmaInv'
  OBVIOUS
<1>1. /\ dmaUser = "uart" /\ dmaUser' = dmaUser /\ call.at = "idle" /\ missed' = missed
      /\ call' = [call EXCEPT !.at = "power"] /\ dma_uninitialize
      /\ UNCHANGED <<port, orphaned>> /\ \A d \in Directions : ~port[d].busy
  BY DEF PowerOff, Calm, Thread
<1>2. PortOK /\ ThreadOK /\ RegisterOK
  BY DEF DmaInv
<1>3. call'.at = "power" /\ call'.dir \in Directions /\ DOMAIN call' = DOMAIN NoCall
  BY <1>1, <1>2 DEF ThreadOK, NoCall
<1>4. PortOK' /\ ThreadOK' /\ AbortOK' /\ UnderWay'
  BY <1>1, <1>2, <1>3 DEF PortOK, ThreadOK, AbortOK, UnderWay, Labels
<1>5. /\ RegisterOK' /\ channel_active' = channel_active /\ channel_info' = channel_info
      /\ \A c \in Channels :
           /\ reg'[c].enabled => reg[c].enabled
           /\ (reg'[c].xfer <=> reg[c].xfer) /\ (reg'[c].error <=> reg[c].error)
           /\ (reg'[c].unmasked <=> reg[c].unmasked) /\ reg'[c].count = reg[c].count
  BY <1>1, <1>2, UninitializeDoes
<1>6. OwnedOK'
  BY <1>1, <1>5 DEF DmaInv, OwnedOK, Interrupt, Finished, After
<1>7. QED
  BY <1>4, <1>5, <1>6 DEF DmaInv

(* Nor is any when the driver is initialised again.                         *)
LEMMA PowerOnKeeps == DmaInv /\ PowerOn => DmaInv'
<1> SUFFICES ASSUME DmaInv, PowerOn PROVE DmaInv'
  OBVIOUS
<1>1. /\ dmaUser = "uart" /\ dmaUser' = dmaUser /\ call.at = "power" /\ missed' = missed
      /\ call' = NoCall /\ dma_initialize
      /\ port' = [d \in Directions |-> [port[d] EXCEPT !.num = 0, !.cnt = 0]]
      /\ UNCHANGED orphaned
  BY DEF PowerOn, Calm, Thread
<1>2. PortOK /\ ThreadOK /\ RegisterOK /\ \A d \in Directions : ~port[d].busy
  BY <1>1 DEF DmaInv, ThreadOK
<1>3. call'.at = "idle" /\ call'.dir \in Directions /\ DOMAIN call' = DOMAIN NoCall
  BY <1>1 DEF NoCall, Directions
<1>4. PortOK' /\ \A d \in Directions : ~port'[d].busy
  <2>1. ASSUME NEW d \in Directions
        PROVE  /\ DOMAIN port'[d] = {"busy", "num", "cnt", "channel"}
               /\ (port'[d].busy <=> port[d].busy) /\ port'[d].busy \in BOOLEAN
               /\ port'[d].num = 0 /\ port'[d].channel = port[d].channel
    BY <1>1, <1>2 DEF PortOK
  <2>2. DOMAIN port' = Directions
    BY <1>1
  <2>3. PortOK'
    BY <1>2, <2>1, <2>2 DEF PortOK
  <2>4. QED
    BY <1>2, <2>1, <2>3
<1>5. ThreadOK' /\ AbortOK' /\ UnderWay'
  BY <1>3, <1>4 DEF ThreadOK, AbortOK, UnderWay, Labels
<1>6. /\ RegisterOK' /\ channel_active' = channel_active
      /\ \/ \A c \in Channels : ~reg'[c].enabled /\ ~reg'[c].xfer /\ ~reg'[c].error
         \/ reg' = reg /\ channel_info' = channel_info
  BY <1>1, <1>2, InitializeDoes
<1>7. OwnedOK'
  BY <1>1, <1>6 DEF DmaInv, OwnedOK, Interrupt, Finished, After
<1>8. QED
  BY <1>4, <1>5, <1>6, <1>7 DEF DmaInv

-----------------------------------------------------------------------------
(* Before anything is initialised there is nothing to own.                  *)
LEMMA DmaUsersInitOK == DmaUsersInit => DmaInv
<1> SUFFICES ASSUME DmaUsersInit PROVE DmaInv
  OBVIOUS
<1>1. /\ reg = [ch \in Channels |-> Cleared] /\ channel_info = [ch \in Channels |-> NoInfo]
      /\ call = NoCall
  BY DEF DmaUsersInit, DmaInit
<1>2. RegOK(Cleared) /\ InfoOK(NoInfo) /\ ~Cleared.enabled /\ ~Cleared.unmasked
  BY DEF RegOK, Cleared, InfoOK, NoInfo
<1>3. RegisterOK /\ OwnedOK
  BY <1>1, <1>2 DEF RegisterOK, OwnedOK, Interrupt
<1>4. PICK s : /\ \A d \in Directions : s[d] \in Channels \cup {DMA_CHANNEL_ANY}
               /\ port = [d \in Directions |-> [busy |-> FALSE, num |-> 0, cnt |-> 0, channel |-> s[d]]]
  BY DmaUsersAssumption DEF DmaUsersInit, Directions
<1>5. PortOK /\ \A d \in Directions : ~port[d].busy
  <2>1. DOMAIN port = Directions
    BY <1>4
  <2>2. ASSUME NEW d \in Directions
        PROVE  /\ DOMAIN port[d] = {"busy", "num", "cnt", "channel"}
               /\ port[d].busy = FALSE /\ port[d].num = 0
               /\ port[d].channel \in Channels \cup {DMA_CHANNEL_ANY}
    <3>1. port[d] = [busy |-> FALSE, num |-> 0, cnt |-> 0, channel |-> s[d]]
      BY <1>4
    <3>2. QED
      BY <1>4, <3>1
  <2>3. ASSUME NEW d \in Directions
        PROVE  port[d].busy \in BOOLEAN /\ ~port[d].busy /\ port[d].num \in Nat
    <3>1. port[d].busy = FALSE /\ port[d].num = 0
      BY <2>2
    <3>2. port[d].num \in Nat
      BY <3>1
    <3>3. port[d].busy \in BOOLEAN /\ ~port[d].busy
      BY <3>1, Zenon
    <3>4. QED
      BY <3>2, <3>3
  <2>4. PortOK
    BY <2>1, <2>2, <2>3, Zenon DEF PortOK
  <2>5. QED
    BY <2>3, <2>4
<1>6. call.at = "idle" /\ call.dir \in Directions /\ DOMAIN call = DOMAIN NoCall
  BY <1>1 DEF NoCall, Directions
<1>7. ThreadOK /\ AbortOK /\ UnderWay
  BY <1>5, <1>6 DEF ThreadOK, AbortOK, UnderWay, Labels
<1>8. QED
  BY <1>3, <1>5, <1>7 DEF DmaInv

(* Every step keeps the invariant.                                          *)
LEMMA DmaUsersNextKeeps == DmaInv /\ [DmaUsersNext]_dmaUsersVars => DmaInv'
<1> SUFFICES ASSUME DmaInv, [DmaUsersNext]_dmaUsersVars PROVE DmaInv'
  OBVIOUS
<1>1. CASE UNCHANGED dmaUsersVars
  BY <1>1 DEF DmaInv, RegisterOK, PortOK, ThreadOK, OwnedOK, AbortOK, UnderWay, Served, Ending,
     Robbed, Interrupt, Finished, After, dmaUsersVars, dmaVars, userVars
<1>2. QED
  BY <1>1, TransferCallKeeps, SelectKeeps, ConfigureUartKeeps, AbortTestKeeps, AbortStopKeeps,
     AbortLeaveKeeps, PowerOffKeeps, PowerOnKeeps, OpenKeeps, TakeKeeps, StartAnyKeeps,
     PauseKeeps, PollKeeps, ReleaseKeeps, MoveItemsKeeps, FailItemKeeps, BlockEndsKeeps,
     TransferEndsKeeps, TransferFailsKeeps DEF DmaUsersNext

(* The invariant holds however interrupts come between the steps.           *)
THEOREM DmaInvHolds == DmaUsersSpec => []DmaInv
<1>1. DmaUsersInit => DmaInv
  BY DmaUsersInitOK
<1>2. DmaInv /\ [DmaUsersNext]_dmaUsersVars => DmaInv'
  BY DmaUsersNextKeeps
<1>3. QED
  BY <1>1, <1>2, PTL DEF DmaUsersSpec

(* A channel that runs has an owner: dma_channel_select gives no channel to  *)
(* another while it runs, but for the abort at the end of a block.           *)
THEOREM DmaRunsForItsOwner == DmaUsersSpec => []RunsForItsOwner
<1>1. DmaInv => RunsForItsOwner
  BY DEF DmaInv, OwnedOK, RunsForItsOwner
<1>2. QED
  BY <1>1, DmaInvHolds, PTL

(* A busy port has a transfer under way, or its end at hand, whose handler   *)
(* will end it (UART_Send, UART_Receive, UART_DMA_RX_Handler).               *)
THEOREM DmaBusyWillEnd == DmaUsersSpec => []BusyWillEnd
<1>1. ASSUME DmaInv PROVE BusyWillEnd
  <2>1. SUFFICES ASSUME NEW d \in Directions, port[d].busy, d \notin orphaned,
                        call.dir = d => call.at = "idle"
                 PROVE  LET ch == port[d].channel
                        IN  /\ ch \in channel_active /\ channel_info[ch].cb_event = d
                            /\ reg[ch].enabled \/ Interrupt(ch)
    BY DEF BusyWillEnd
  <2>2. Served(d)
    BY <1>1, <2>1 DEF DmaInv, UnderWay
  <2>3. QED
    BY <2>2 DEF Served, Interrupt
<1>2. QED
  BY <1>1, DmaInvHolds, PTL

-----------------------------------------------------------------------------
(* What a transfer moves that goes byte by byte, without gaps.  On each side *)
(* the bytes follow each other, or have all one address.                     *)
Ahead(mode, addr, k) == IF mode = "inc" THEN addr + k ELSE addr
Line(mode, addr, n) == [b \in 1 .. n |-> Ahead(mode, addr, b - 1)]
Lines(c, src, dst, n) == [from |-> Line(c.src, src, n), to |-> Line(c.dst, dst, n)]

(* The control of such a transfer.                                          *)
Plain(c) ==
  /\ c.src \in {"inc", "fix"} /\ c.dst \in {"inc", "fix"}
  /\ c.src_width = 1 /\ c.dst_width = 1 /\ c.gather = FALSE /\ c.scatter = FALSE

(* Bytes are counted one by one.                                            *)
LEMMA ByOnes == \A k \in Int : k \div 1 = k /\ k % 1 = 0
  OBVIOUS

(* The addresses on the way are those of a line.                            *)
LEMMA TraceIs ==
  ASSUME NEW mode \in {"inc", "fix"}, NEW addr \in Int, NEW n \in Nat
  PROVE  Trace(mode, addr, 1, n, NoGaps) = Line(mode, addr, n)
<1>1. NoGaps.count = 0
  BY DEF NoGaps
<1>2. n * 1 = n
  OBVIOUS
<1>3. ASSUME NEW b \in 1 .. n
      PROVE  Onward(mode, addr, ((b - 1) \div 1) * 1) + ((b - 1) % 1) = Ahead(mode, addr, b - 1)
  <2>1. b - 1 \in Int /\ ((b - 1) \div 1) * 1 = b - 1 /\ (b - 1) % 1 = 0
    BY ByOnes
  <2>2. CASE mode = "inc"
    <3>1. Onward(mode, addr, b - 1) = addr + (b - 1)
      BY <2>2 DEF Onward
    <3>2. Ahead(mode, addr, b - 1) = addr + (b - 1)
      BY <2>2 DEF Ahead
    <3>3. QED
      BY <2>1, <3>1, <3>2
  <2>3. CASE mode = "fix"
    <3>1. Onward(mode, addr, b - 1) = addr
      BY <2>3 DEF Onward
    <3>2. Ahead(mode, addr, b - 1) = addr
      BY <2>3 DEF Ahead
    <3>3. QED
      BY <2>1, <3>1, <3>2
  <2>4. QED
    BY <2>2, <2>3
<1>4. Trace(mode, addr, 1, n, NoGaps) =
        [b \in 1 .. n |-> Onward(mode, addr, ((b - 1) \div 1) * 1) + ((b - 1) % 1)]
  BY <1>1, <1>2 DEF Trace
<1>5. QED
  BY <1>3, <1>4 DEF Line

(* On both sides.                                                           *)
LEMMA PathIs ==
  ASSUME NEW c, Plain(c), NEW src \in Int, NEW dst \in Int, NEW gath, NEW scat, NEW n \in Nat
  PROVE  Path(c, src, dst, gath, scat, n) = Lines(c, src, dst, n)
<1>1. Gaps(c.gather, gath) = NoGaps /\ Gaps(c.scatter, scat) = NoGaps
  BY DEF Plain, Gaps
<1>2. DstItems(c, n) = n
  <2>1. c.src_width = 1 /\ c.dst_width = 1
    BY DEF Plain
  <2>2. n * 1 = n /\ n \div 1 = n
    BY ByOnes
  <2>3. QED
    BY <2>1, <2>2 DEF DstItems
<1>3. /\ Trace(c.src, src, c.src_width, n, Gaps(c.gather, gath)) = Line(c.src, src, n)
      /\ Trace(c.dst, dst, c.dst_width, n, Gaps(c.scatter, scat)) = Line(c.dst, dst, n)
  BY <1>1, TraceIs DEF Plain
<1>4. QED
  BY <1>2, <1>3 DEF Path, Lines

(* A line is a sequence, as long as it says.                                *)
LEMMA LineIs ==
  ASSUME NEW mode, NEW addr \in Int, NEW n \in Nat
  PROVE  Line(mode, addr, n) \in Seq(Int) /\ Len(Line(mode, addr, n)) = n
<1>1. \A b \in 1 .. n : Ahead(mode, addr, b - 1) \in Int
  BY DEF Ahead
<1>2. QED
  BY <1>1 DEF Line

(* Its address is on the line, wherever it is counted from.                  *)
LEMMA AheadIs ==
  ASSUME NEW mode, NEW addr \in Int, NEW j \in Int, NEW k \in Int
  PROVE  Ahead(mode, addr, j) \in Int /\ Ahead(mode, Ahead(mode, addr, j), k) = Ahead(mode, addr, j + k)
         /\ Ahead(mode, addr, 0) = addr
BY DEF Ahead

(* A line of l, continued by k more of another, is longer by k.             *)
Continues(l, q, m, k, w) == l \o SubSeq(q, m + 1, m + k) = w

LEMMA LineGoesOn ==
  ASSUME NEW mode, NEW addr \in Int, NEW x \in Nat, NEW m \in Nat, NEW k \in Nat
  PROVE  Continues(Line(mode, addr, x + m), Line(mode, Ahead(mode, addr, x), m + k), m, k,
                   Line(mode, addr, x + (m + k)))
<1> DEFINE p == Line(mode, addr, x + m)
           q == Line(mode, Ahead(mode, addr, x), m + k)
           s == SubSeq(q, m + 1, m + k)
           w == Line(mode, addr, x + (m + k))
<1>1. x + m \in Nat /\ m + k \in Nat /\ x + (m + k) \in Nat /\ Ahead(mode, addr, x) \in Int
  BY DEF Ahead
<1>2. p \in Seq(Int) /\ q \in Seq(Int) /\ w \in Seq(Int)
  BY <1>1, LineIs
<1>3. Len(p) = x + m /\ Len(q) = m + k /\ Len(w) = x + (m + k)
  BY <1>1, LineIs
<1>4. /\ \A b \in 1 .. x + m : p[b] = Ahead(mode, addr, b - 1)
      /\ \A b \in 1 .. x + (m + k) : w[b] = Ahead(mode, addr, b - 1)
  BY DEF Line
<1>5. \A b \in 1 .. m + k : q[b] = Ahead(mode, addr, x + (b - 1))
  <2>1. ASSUME NEW b \in 1 .. m + k PROVE q[b] = Ahead(mode, addr, x + (b - 1))
    <3>1. q[b] = Ahead(mode, Ahead(mode, addr, x), b - 1)
      BY DEF Line
    <3>2. x \in Int /\ b - 1 \in Int
      OBVIOUS
    <3>3. QED
      BY <3>1, <3>2, AheadIs
  <2>2. QED
    BY <2>1
<1> HIDE DEF p, q, w
<1>6. /\ s \in Seq(Int) /\ Len(s) = k
      /\ \A b \in 1 .. k : s[b] = q[(m + 1) + b - 1]
  <2>1. m + 1 \in Int /\ m + k \in Int /\ (m + k) - (m + 1) + 1 = k
    OBVIOUS
  <2>2. \A b \in m + 1 .. m + k : q[b] \in Int
    <3>1. \A b \in m + 1 .. m + k : b \in 1 .. Len(q)
      BY <1>3
    <3>2. QED
      BY <1>2, <3>1, ElementOfSeq
  <2>3. /\ s \in Seq(Int) /\ Len(s) = IF m + 1 <= m + k THEN (m + k) - (m + 1) + 1 ELSE 0
        /\ \A b \in 1 .. (m + k) - (m + 1) + 1 : s[b] = q[(m + 1) + b - 1]
    BY <2>1, <2>2, SubSeqProperties
  <2> HIDE DEF s
  <2>4. k >= 0 /\ (~(m + 1 <= m + k) => k = 0)
    OBVIOUS
  <2>5. Len(s) = k
    BY <2>1, <2>3, <2>4
  <2>6. \A b \in 1 .. k : s[b] = q[(m + 1) + b - 1]
    BY <2>1, <2>3
  <2>7. QED
    BY <2>3, <2>5, <2>6
<1> HIDE DEF s
<1>7. /\ p \o s \in Seq(Int) /\ Len(p \o s) = (x + m) + k
      /\ \A b \in 1 .. (x + m) + k :
            (p \o s)[b] = IF b <= x + m THEN p[b] ELSE s[b - (x + m)]
  <2>1. s \in Seq(Int) /\ Len(s) = k
    BY <1>6
  <2>2. /\ p \o s \in Seq(Int) /\ Len(p \o s) = Len(p) + Len(s)
        /\ \A b \in 1 .. Len(p) + Len(s) :
              (p \o s)[b] = IF b <= Len(p) THEN p[b] ELSE s[b - Len(p)]
    BY <1>2, <2>1, ConcatProperties
  <2> DEFINE t == p \o s
  <2> HIDE DEF t
  <2>3. /\ t \in Seq(Int) /\ Len(t) = (x + m) + k
        /\ \A b \in 1 .. (x + m) + k : t[b] = IF b <= x + m THEN p[b] ELSE s[b - (x + m)]
    BY <1>3, <2>1, <2>2 DEF t
  <2>4. QED
    BY <2>3 DEF t
<1>8. ASSUME NEW b \in 1 .. (x + m) + k
      PROVE  (p \o s)[b] = w[b]
  <2> DEFINE t == p \o s
  <2>1. t[b] = IF b <= x + m THEN p[b] ELSE s[b - (x + m)]
    BY <1>7
  <2> HIDE DEF t
  <2>2. w[b] = Ahead(mode, addr, b - 1)
    BY <1>4
  <2>3. CASE b <= x + m
    <3>1. b \in 1 .. x + m
      BY <2>3
    <3>2. QED
      BY <1>4, <2>1, <2>2, <2>3, <3>1 DEF t
  <2>4. CASE ~(b <= x + m)
    <3> DEFINE a == b - (x + m)
    <3>1. a \in 1 .. k /\ (m + 1) + a - 1 \in 1 .. m + k /\ x + (((m + 1) + a - 1) - 1) = b - 1
      BY <2>4
    <3>2. s[a] = q[(m + 1) + a - 1]
      BY <1>6, <3>1
    <3>3. q[(m + 1) + a - 1] = Ahead(mode, addr, b - 1)
      BY <1>5, <3>1
    <3> HIDE DEF a
    <3>4. QED
      BY <2>1, <2>2, <2>4, <3>2, <3>3 DEF t, a
  <2>5. QED
    BY <2>3, <2>4
<1>9. Len(p \o s) = Len(w)
  BY <1>3, <1>7
<1>10. QED
  BY <1>2, <1>7, <1>8, <1>9, SeqEqual DEF p, s, w, q, Continues

(* What comes after a part of a path.                                       *)
Further(p, before, after) ==
  p = [ from |-> SubSeq(after.from, Len(before.from) + 1, Len(after.from)),
        to   |-> SubSeq(after.to, Len(before.to) + 1, Len(after.to)) ]

(* Items of a block, and what they make of the lines.                       *)
NextItems(p, c, src, dst, x, m, k) ==
  Further(p, Lines(c, Ahead(c.src, src, x), Ahead(c.dst, dst, x), m),
             Lines(c, Ahead(c.src, src, x), Ahead(c.dst, dst, x), m + k))
MakeLonger(p, c, src, dst, x, m, k) ==
  Joined(Lines(c, src, dst, x + m), p) = Lines(c, src, dst, x + (m + k))

(* The items that the controller moves in a block are the next of the line.  *)
LEMMA LinesGoOn ==
  ASSUME NEW c, Plain(c), NEW src \in Int, NEW dst \in Int, NEW x \in Nat, NEW m \in Nat, NEW k \in Nat,
         NEW p, NextItems(p, c, src, dst, x, m, k)
  PROVE  MakeLonger(p, c, src, dst, x, m, k)
<1> DEFINE a == Ahead(c.src, src, x)
           b == Ahead(c.dst, dst, x)
           before == Lines(c, a, b, m)
           after == Lines(c, a, b, m + k)
<1>1. m + k \in Nat /\ a \in Int /\ b \in Int
  BY DEF Ahead
<1> HIDE DEF a, b
<1>2. /\ before.from = Line(c.src, a, m) /\ before.to = Line(c.dst, b, m)
      /\ after.from = Line(c.src, a, m + k) /\ after.to = Line(c.dst, b, m + k)
  BY DEF Lines, a, b
<1>3. /\ Len(Line(c.src, a, m)) = m /\ Len(Line(c.dst, b, m)) = m
      /\ Len(Line(c.src, a, m + k)) = m + k /\ Len(Line(c.dst, b, m + k)) = m + k
  BY <1>1, LineIs
<1>4. /\ Continues(Line(c.src, src, x + m), Line(c.src, a, m + k), m, k, Line(c.src, src, x + (m + k)))
      /\ Continues(Line(c.dst, dst, x + m), Line(c.dst, b, m + k), m, k, Line(c.dst, dst, x + (m + k)))
  BY LineGoesOn DEF a, b
<1>5. /\ Line(c.src, src, x + m) \o SubSeq(after.from, m + 1, m + k) = Line(c.src, src, x + (m + k))
      /\ Line(c.dst, dst, x + m) \o SubSeq(after.to, m + 1, m + k) = Line(c.dst, dst, x + (m + k))
  BY <1>2, <1>4 DEF Continues
<1>6. /\ Len(before.from) = m /\ Len(before.to) = m
      /\ Len(after.from) = m + k /\ Len(after.to) = m + k
  BY <1>2, <1>3
<1>7. Further(p, before, after)
  BY DEF a, b, NextItems
<1> HIDE DEF before, after
<1>8. p = [from |-> SubSeq(after.from, m + 1, m + k), to |-> SubSeq(after.to, m + 1, m + k)]
  BY <1>6, <1>7, Zenon DEF Further
<1>9. p.from = SubSeq(after.from, m + 1, m + k) /\ p.to = SubSeq(after.to, m + 1, m + k)
  BY <1>8
<1>10. Joined(Lines(c, src, dst, x + m), p) = Lines(c, src, dst, x + (m + k))
  BY <1>5, <1>9 DEF Joined, Lines
<1>11. QED
  BY <1>10 DEF MakeLonger

-----------------------------------------------------------------------------
(* A channel with a transfer of n bytes, of which x are done with earlier    *)
(* blocks.  Its registers have the next block.                               *)
RegAt(r, c, src, dst, n, x) ==
  /\ r.ctl = c /\ r.unmasked = TRUE
  /\ r.size = Block(n - x) /\ r.count \in 0 .. r.size /\ (r.xfer => r.count = r.size)
  /\ r.sar = Ahead(c.src, src, x) /\ r.dar = Ahead(c.dst, dst, x)

(* What is known of it counts the blocks done, and names the place that the  *)
(* block behind this one begins at; no list follows.                         *)
InfoAt(i, c, src, dst, n, x, next) ==
  /\ i.SizeXfered = x /\ i.SizeToXfer = n - x /\ i.llp = <<>> /\ i.polling = FALSE
  /\ i.width = 1 /\ i.dst_width = 1
  /\ i.SrcAddr = Ahead(c.src, src, next) /\ i.DstAddr = Ahead(c.dst, dst, next)

(* And what has been moved is the beginning of what was asked.               *)
UnderWayAt(r, i, m, g, c, src, dst, n, x) ==
  /\ RegAt(r, c, src, dst, n, x) /\ InfoAt(i, c, src, dst, n, x, x + r.size)
  /\ m = Lines(c, src, dst, x + r.count) /\ g = Lines(c, src, dst, n)

Moving(r, i, m, g) ==
  \E c : \E src \in Int, dst \in Int, n \in Nat : \E x \in 0 .. n :
    Plain(c) /\ UnderWayAt(r, i, m, g, c, src, dst, n, x)

(* A block is not longer than what is left, and not empty if something is.   *)
LEMMA BlockFits ==
  ASSUME NEW k \in Nat
  PROVE  Block(k) \in 0 .. k /\ (k > 0 => Block(k) > 0)
BY DmaAssumption DEF Block

(* What is known then of the block after this one: where it begins.          *)
Followed(j, i, a, b) ==
  /\ InfoOK(j)
  /\ j.SizeXfered = i.SizeXfered /\ j.SizeToXfer = i.SizeToXfer /\ j.llp = i.llp
  /\ j.polling = i.polling /\ j.width = 1 /\ j.dst_width = 1
  /\ j.SrcAddr = a /\ j.DstAddr = b

(* It begins where this one ends.                                           *)
LEMMA NextIs ==
  ASSUME NEW i, InfoOK(i), i.width = 1, i.dst_width = 1, NEW c, Plain(c),
         NEW src \in Int, NEW dst \in Int, NEW size \in Nat
  PROVE  Followed(WithNextBlock(i, c, src, dst, size), i,
                  Ahead(c.src, src, size), Ahead(c.dst, dst, size))
<1> DEFINE a == Onward(c.src, src, Span(size, i.width, Gaps(c.gather, i.gath)))
           b == Onward(c.dst, dst,
                  IF c.scatter THEN Span((size * i.width) \div i.dst_width, i.dst_width, i.scat)
                  ELSE size * i.width)
           j == WithNextBlock(i, c, src, dst, size)
<1>1. j = [i EXCEPT !.SrcAddr = a, !.DstAddr = b]
  BY DEF WithNextBlock
<1>2. \A mode \in {"inc", "fix"} : \A addr \in Int : Onward(mode, addr, size) = Ahead(mode, addr, size)
  BY DEF Onward, Ahead
<1>3. a = Ahead(c.src, src, size)
  <2>1. Gaps(c.gather, i.gath) = NoGaps /\ NoGaps.count = 0
    BY DEF Plain, Gaps, NoGaps
  <2>2. Span(size, i.width, NoGaps) = size
    BY <2>1 DEF Span
  <2>3. QED
    BY <1>2, <2>1, <2>2 DEF Plain
<1>4. b = Ahead(c.dst, dst, size)
  <2>1. size * i.width = size /\ c.scatter = FALSE
    BY DEF Plain
  <2>2. QED
    BY <1>2, <2>1 DEF Plain
<1> HIDE DEF a, b
<1>5. DOMAIN i = DOMAIN NoInfo
  BY DEF InfoOK
<1>6. {"SizeXfered", "SizeToXfer", "llp", "polling", "width", "dst_width", "SrcAddr", "DstAddr"}
        \subseteq DOMAIN i
  BY <1>5 DEF NoInfo
<1>7. j.SrcAddr = a /\ j.DstAddr = b
  BY <1>1, <1>6
<1>8. /\ j.SizeXfered = i.SizeXfered /\ j.SizeToXfer = i.SizeToXfer /\ j.llp = i.llp
      /\ j.polling = i.polling /\ j.width = i.width /\ j.dst_width = i.dst_width
  BY <1>1, <1>6
<1>9. InfoOK(j)
  BY NextBlockIs
<1> HIDE DEF j
<1>10. QED
  BY <1>3, <1>4, <1>7, <1>8, <1>9 DEF j, Followed

(* Of all the bytes none has been moved, and nothing else is known.          *)
Fresh(i, n) ==
  /\ i.SizeXfered = 0 /\ i.SizeToXfer = n /\ i.llp = <<>> /\ i.polling = FALSE
  /\ i.width = 1 /\ i.dst_width = 1

(* A transfer that is started.                                              *)
LEMMA StartMoves ==
  ASSUME NEW c, Plain(c), NEW src \in Int, NEW dst \in Int, NEW n \in Nat,
         NEW r, RegOK(r), ~r.xfer, NEW i, InfoOK(i), Fresh(i, n)
  PROVE  Moving(Started(r, i, src, dst, Block(n), c, TRUE),
                WithNextBlock(i, c, src, dst, Block(n)), Nothing, Lines(c, src, dst, n))
<1> DEFINE s == Started(r, i, src, dst, Block(n), c, TRUE)
           j == WithNextBlock(i, c, src, dst, Block(n))
           size == Block(n)
<1>1. size \in 0 .. n /\ size \in Nat
  BY BlockFits
<1>2. {"enabled", "size", "count", "unmasked", "xfer", "error", "ctl", "sar", "dar"} \subseteq DOMAIN r
  BY DEF RegOK, Cleared
<1>3. /\ s.ctl = c /\ s.unmasked = TRUE /\ s.size = size /\ s.count = 0 /\ (s.xfer <=> r.xfer)
      /\ s.sar = src /\ s.dar = dst
  <2> HIDE DEF size
  <2>1. QED
    BY <1>2 DEF Started, size
<1>4. /\ j.SizeXfered = i.SizeXfered /\ j.SizeToXfer = i.SizeToXfer /\ j.llp = i.llp
      /\ j.polling = i.polling /\ j.width = 1 /\ j.dst_width = 1
      /\ j.SrcAddr = Ahead(c.src, src, size) /\ j.DstAddr = Ahead(c.dst, dst, size)
  <2> HIDE DEF size
  <2>1. i.width = 1 /\ i.dst_width = 1
    BY DEF Fresh
  <2>2. QED
    BY <1>1, <2>1, NextIs DEF size, Followed
<1> HIDE DEF s, j, size
<1>5. n - 0 = n /\ 0 + size = size /\ 0 \in 0 .. size /\ 0 + 0 = 0 /\ 0 \in 0 .. n
  BY <1>1
<1>6. RegAt(s, c, src, dst, n, 0)
  <2>1. Ahead(c.src, src, 0) = src /\ Ahead(c.dst, dst, 0) = dst
    BY AheadIs
  <2>2. s.size = Block(n - 0)
    BY <1>3, <1>5 DEF size
  <2>3. s.count \in 0 .. s.size /\ ~s.xfer
    BY <1>3, <1>5
  <2>4. QED
    BY <1>3, <2>1, <2>2, <2>3 DEF RegAt
<1>7. InfoAt(j, c, src, dst, n, 0, 0 + s.size)
  <2>1. j.SizeXfered = 0 /\ j.SizeToXfer = n - 0 /\ j.llp = <<>> /\ j.polling = FALSE
    BY <1>4, <1>5 DEF Fresh
  <2>2. j.SrcAddr = Ahead(c.src, src, 0 + s.size) /\ j.DstAddr = Ahead(c.dst, dst, 0 + s.size)
    BY <1>3, <1>4, <1>5
  <2>3. QED
    BY <1>4, <2>1, <2>2 DEF InfoAt
<1>8. Nothing = Lines(c, src, dst, 0 + s.count)
  BY <1>3 DEF Nothing, Lines, Line
<1>9. UnderWayAt(s, j, Nothing, Lines(c, src, dst, n), c, src, dst, n, 0)
  BY <1>6, <1>7, <1>8 DEF UnderWayAt
<1>10. QED
  BY <1>5, <1>9 DEF Moving, s, j, size

(* The registers when k items have been moved.                              *)
CountedTo(s, r, k) ==
  /\ s.count = r.count + k /\ (s.xfer => s.count = r.size)
  /\ s.ctl = r.ctl /\ s.unmasked = r.unmasked /\ s.size = r.size
  /\ s.sar = r.sar /\ s.dar = r.dar

(* Items that are moved.                                                    *)
LEMMA MoveMoves ==
  ASSUME NEW r, NEW i, NEW m, NEW g, Moving(r, i, m, g),
         NEW k \in 1 .. r.size - r.count, NEW s, CountedTo(s, r, k),
         NEW p, Further(p, Path(r.ctl, r.sar, r.dar, r.gath, r.scat, r.count),
                           Path(r.ctl, r.sar, r.dar, r.gath, r.scat, r.count + k))
  PROVE  Moving(s, i, Joined(m, p), g)
<1>a. PICK c : \E src \in Int, dst \in Int, n \in Nat : \E x \in 0 .. n :
               Plain(c) /\ UnderWayAt(r, i, m, g, c, src, dst, n, x)
  BY DEF Moving
<1>b. PICK src \in Int, dst \in Int, n \in Nat : \E x \in 0 .. n :
               Plain(c) /\ UnderWayAt(r, i, m, g, c, src, dst, n, x)
  BY <1>a
<1>1. PICK x \in 0 .. n : Plain(c) /\ UnderWayAt(r, i, m, g, c, src, dst, n, x)
  BY <1>b
<1>2. RegAt(r, c, src, dst, n, x) /\ InfoAt(i, c, src, dst, n, x, x + r.size)
      /\ m = Lines(c, src, dst, x + r.count) /\ g = Lines(c, src, dst, n)
  BY <1>1 DEF UnderWayAt
<1>3. r.ctl = c /\ r.sar = Ahead(c.src, src, x) /\ r.dar = Ahead(c.dst, dst, x)
  BY <1>2 DEF RegAt
<1> DEFINE size == r.size
           count == r.count
<1>4. size \in Nat /\ count \in 0 .. size /\ x \in Nat /\ x + size \in 0 .. n
  <2>1. size = Block(n - x) /\ count \in 0 .. size
    BY <1>2 DEF RegAt
  <2>2. n - x \in Nat /\ x \in Nat
    OBVIOUS
  <2> HIDE DEF size, count
  <2>3. size \in 0 .. n - x
    BY <2>1, <2>2, BlockFits
  <2>4. QED
    BY <2>1, <2>2, <2>3
<1>5. s.count \in 0 .. s.size /\ s.count = count + k /\ s.size = size /\ count \in Nat /\ k \in Nat
      /\ count + k \in Nat
  <2>1. s.size = size
    BY DEF CountedTo
  <2>2. s.count = count + k /\ k \in 1 .. size - count
    BY DEF CountedTo
  <2> HIDE DEF size, count
  <2>3. QED
    BY <1>4, <2>1, <2>2
<1> DEFINE a == Ahead(c.src, src, x)
           b == Ahead(c.dst, dst, x)
<1>6. Further(p, Lines(c, a, b, count), Lines(c, a, b, count + k))
  <2>1. a \in Int /\ b \in Int
    BY <1>4 DEF Ahead
  <2>2. Further(p, Path(c, a, b, r.gath, r.scat, count), Path(c, a, b, r.gath, r.scat, count + k))
    BY <1>3
  <2> HIDE DEF a, b, count
  <2>3. /\ Path(c, a, b, r.gath, r.scat, count) = Lines(c, a, b, count)
        /\ Path(c, a, b, r.gath, r.scat, count + k) = Lines(c, a, b, count + k)
    BY <1>1, <1>5, <2>1, PathIs
  <2>4. QED
    BY <2>2, <2>3
<1>7. Joined(m, p) = Lines(c, src, dst, x + s.count)
  <2>1. m = Lines(c, src, dst, x + count)
    BY <1>2
  <2>2. count \in Nat /\ k \in Nat /\ x \in Nat /\ Plain(c) /\ src \in Int /\ dst \in Int
    BY <1>1, <1>4, <1>5
  <2> HIDE DEF count
  <2>3. NextItems(p, c, src, dst, x, count, k)
    BY <1>6 DEF NextItems
  <2>4. MakeLonger(p, c, src, dst, x, count, k)
    BY <2>2, <2>3, LinesGoOn
  <2>5. x + (count + k) = x + s.count
    BY <1>5
  <2>6. QED
    BY <2>1, <2>4, <2>5 DEF MakeLonger
<1> HIDE DEF size, count
<1>8. RegAt(s, c, src, dst, n, x)
  <2>1. s.ctl = r.ctl /\ s.unmasked = r.unmasked /\ s.size = r.size /\ s.sar = r.sar /\ s.dar = r.dar
    BY DEF CountedTo
  <2>2. s.xfer => s.count = s.size
    BY DEF CountedTo
  <2>3. QED
    BY <1>2, <1>5, <2>1, <2>2 DEF RegAt
<1>9. InfoAt(i, c, src, dst, n, x, x + s.size)
  BY <1>2, <1>5 DEF size
<1>10. UnderWayAt(s, i, Joined(m, p), g, c, src, dst, n, x)
  BY <1>2, <1>7, <1>8, <1>9 DEF UnderWayAt
<1>11. QED
  BY <1>1, <1>10 DEF Moving

(* A block that has ended, and the next one.                                *)
LEMMA BlockMoves ==
  ASSUME NEW r, RegOK(r), NEW i, InfoOK(i), NEW m, NEW g, Moving(r, i, m, g), r.xfer,
         NEW j, j = Counted(i, r.count), j.SizeToXfer > 0,
         NEW s, s = GoesOn([r EXCEPT !.xfer = FALSE], j.SrcAddr, j.DstAddr, Block(j.SizeToXfer)),
         NEW l, l = WithNextBlock(j, r.ctl, j.SrcAddr, j.DstAddr, Block(j.SizeToXfer))
  PROVE  Moving(s, l, m, g)
<1>a. PICK c : \E src \in Int, dst \in Int, n \in Nat : \E x \in 0 .. n :
               Plain(c) /\ UnderWayAt(r, i, m, g, c, src, dst, n, x)
  BY DEF Moving
<1>b. PICK src \in Int, dst \in Int, n \in Nat : \E x \in 0 .. n :
               Plain(c) /\ UnderWayAt(r, i, m, g, c, src, dst, n, x)
  BY <1>a
<1>1. PICK x \in 0 .. n : Plain(c) /\ UnderWayAt(r, i, m, g, c, src, dst, n, x)
  BY <1>b
<1>2. /\ RegAt(r, c, src, dst, n, x) /\ InfoAt(i, c, src, dst, n, x, x + r.size)
      /\ m = Lines(c, src, dst, x + r.count) /\ g = Lines(c, src, dst, n)
  BY <1>1 DEF UnderWayAt
<1> DEFINE size == r.size
           y == x + size
           left == j.SizeToXfer
           next == Block(left)
<1>3. r.count = size /\ size \in Nat /\ y \in 0 .. n /\ r.ctl = c /\ r.unmasked = TRUE
  <2>1. size = Block(n - x) /\ r.count = size /\ r.ctl = c /\ r.unmasked = TRUE
    BY <1>2 DEF RegAt
  <2>2. n - x \in Nat /\ x \in Nat
    OBVIOUS
  <2> HIDE DEF size
  <2>3. size \in 0 .. n - x
    BY <2>1, <2>2, BlockFits
  <2>4. QED
    BY <2>1, <2>2, <2>3
<1>4. /\ j.SizeXfered = i.SizeXfered + size /\ j.llp = i.llp /\ j.polling = i.polling
      /\ j.SizeToXfer = IF i.SizeToXfer > size THEN i.SizeToXfer - size ELSE 0
      /\ j.width = i.width /\ j.dst_width = i.dst_width
      /\ j.SrcAddr = i.SrcAddr /\ j.DstAddr = i.DstAddr
  <2>1. {"SizeXfered", "SizeToXfer", "llp", "polling", "width", "dst_width", "SrcAddr", "DstAddr"}
          \subseteq DOMAIN i
    BY DEF InfoOK, NoInfo
  <2>2. j = [i EXCEPT !.SizeXfered = @ + size,
                      !.SizeToXfer = IF i.SizeToXfer > size THEN i.SizeToXfer - size ELSE 0]
    BY <1>3, <2>1 DEF Counted
  <2> HIDE DEF size
  <2>3. QED
    BY <2>1, <2>2
<1>5. InfoOK(j)
  <2>1. r.count \in Int
    BY DEF RegOK
  <2>2. InfoOK(Counted(i, r.count))
    BY <2>1, CountedIs
  <2>3. QED
    BY <2>2
<1>6. /\ j.SizeXfered = y /\ left = n - y /\ left \in Nat /\ j.llp = <<>> /\ j.polling = FALSE
      /\ j.width = 1 /\ j.dst_width = 1
  <2>1. i.SizeXfered = x /\ i.SizeToXfer = n - x
    BY <1>2 DEF InfoAt
  <2>2. j.llp = <<>> /\ j.polling = FALSE /\ j.width = 1 /\ j.dst_width = 1
    BY <1>2, <1>4 DEF InfoAt
  <2>3. j.SizeXfered = x + size /\ left = IF n - x > size THEN (n - x) - size ELSE 0
    BY <1>4, <2>1
  <2>4. left > 0
    OBVIOUS
  <2> HIDE DEF size, left
  <2>5. left = n - (x + size) /\ left \in Nat
    BY <1>3, <2>3, <2>4
  <2>6. QED
    BY <2>2, <2>3, <2>5
<1>7. j.SrcAddr = Ahead(c.src, src, y) /\ j.DstAddr = Ahead(c.dst, dst, y)
  BY <1>2, <1>4 DEF InfoAt
<1> DEFINE a == Ahead(c.src, src, y)
           b == Ahead(c.dst, dst, y)
<1>8. a \in Int /\ b \in Int
  BY <1>3 DEF Ahead
<1>9. next \in 0 .. left /\ next \in Nat
  BY <1>6, BlockFits
<1>10. /\ s.size = next /\ s.count = 0 /\ s.ctl = c /\ s.unmasked = TRUE /\ s.xfer = FALSE
       /\ s.sar = a /\ s.dar = b
  <2>1. {"enabled", "size", "count", "unmasked", "xfer", "error", "ctl", "sar", "dar"} \subseteq DOMAIN r
    BY DEF RegOK, Cleared
  <2>2. s = [[r EXCEPT !.xfer = FALSE] EXCEPT !.enabled = TRUE, !.size = next, !.count = 0,
                                              !.sar = a, !.dar = b]
    BY <1>7 DEF GoesOn
  <2> HIDE DEF a, b, next
  <2>3. QED
    BY <1>3, <2>1, <2>2
<1>11. /\ l.SizeXfered = j.SizeXfered /\ l.SizeToXfer = j.SizeToXfer /\ l.llp = j.llp
       /\ l.polling = j.polling /\ l.width = 1 /\ l.dst_width = 1
       /\ l.SrcAddr = Ahead(c.src, a, next) /\ l.DstAddr = Ahead(c.dst, b, next)
  <2>1. l = WithNextBlock(j, c, a, b, next)
    BY <1>3, <1>7
  <2>2. j.width = 1 /\ j.dst_width = 1
    BY <1>6
  <2> HIDE DEF a, b, next
  <2>3. Followed(WithNextBlock(j, c, a, b, next), j, Ahead(c.src, a, next), Ahead(c.dst, b, next))
    BY <1>1, <1>5, <1>8, <1>9, <2>2, NextIs, Zenon
  <2>4. Followed(l, j, Ahead(c.src, a, next), Ahead(c.dst, b, next))
    BY <2>1, <2>3
  <2>5. QED
    BY <2>4 DEF Followed
<1>12. /\ Ahead(c.src, a, next) = Ahead(c.src, src, y + next)
       /\ Ahead(c.dst, b, next) = Ahead(c.dst, dst, y + next)
  <2>1. y \in Int /\ next \in Int
    BY <1>3, <1>9
  <2> HIDE DEF y, next
  <2>2. QED
    BY <2>1 DEF a, b, Ahead
<1>13. RegAt(s, c, src, dst, n, y)
  <2>1. s.count \in 0 .. s.size /\ ~s.xfer
    BY <1>9, <1>10
  <2>2. s.size = Block(n - y)
    BY <1>6, <1>10
  <2>3. QED
    BY <1>10, <2>1, <2>2 DEF RegAt
<1>14. InfoAt(l, c, src, dst, n, y, y + s.size)
  <2>1. l.SizeXfered = y /\ l.SizeToXfer = n - y
    BY <1>6, <1>11
  <2>2. l.llp = <<>> /\ l.polling = FALSE
    BY <1>6, <1>11
  <2>3. l.SrcAddr = Ahead(c.src, src, y + s.size) /\ l.DstAddr = Ahead(c.dst, dst, y + s.size)
    BY <1>10, <1>11, <1>12
  <2>4. QED
    BY <1>11, <2>1, <2>2, <2>3 DEF InfoAt
<1>15. m = Lines(c, src, dst, y + s.count)
  <2>1. y + s.count = y
    BY <1>3, <1>10
  <2>2. QED
    BY <1>2, <1>3, <2>1
<1> HIDE DEF y
<1>16. UnderWayAt(s, l, m, g, c, src, dst, n, y)
  BY <1>2, <1>13, <1>14, <1>15 DEF UnderWayAt
<1>17. QED
  BY <1>1, <1>3, <1>16 DEF Moving

(* A transfer that has ended: all bytes have been moved, and are counted.    *)
LEMMA EndMoved ==
  ASSUME NEW r, NEW i, InfoOK(i), NEW m, NEW g, Moving(r, i, m, g), r.xfer,
         NEW j, j = Counted(i, r.count), j.SizeToXfer = 0
  PROVE  m = g /\ j.SizeXfered * i.width = Len(g.from)
<1>a. PICK c : \E src \in Int, dst \in Int, n \in Nat : \E x \in 0 .. n :
               Plain(c) /\ UnderWayAt(r, i, m, g, c, src, dst, n, x)
  BY DEF Moving
<1>b. PICK src \in Int, dst \in Int, n \in Nat : \E x \in 0 .. n :
               Plain(c) /\ UnderWayAt(r, i, m, g, c, src, dst, n, x)
  BY <1>a
<1>1. PICK x \in 0 .. n : Plain(c) /\ UnderWayAt(r, i, m, g, c, src, dst, n, x)
  BY <1>b
<1>2. /\ RegAt(r, c, src, dst, n, x) /\ InfoAt(i, c, src, dst, n, x, x + r.size)
      /\ m = Lines(c, src, dst, x + r.count) /\ g = Lines(c, src, dst, n)
  BY <1>1 DEF UnderWayAt
<1> DEFINE size == r.size
<1>3. r.count = size /\ size \in 0 .. n - x
  <2>1. size = Block(n - x) /\ r.count = size
    BY <1>2 DEF RegAt
  <2>2. n - x \in Nat
    OBVIOUS
  <2> HIDE DEF size
  <2>3. QED
    BY <2>1, <2>2, BlockFits
<1>4. i.SizeXfered = x /\ i.SizeToXfer = n - x /\ i.width = 1
  BY <1>2 DEF InfoAt
<1>5. /\ j.SizeXfered = i.SizeXfered + size
      /\ j.SizeToXfer = IF i.SizeToXfer > size THEN i.SizeToXfer - size ELSE 0
  <2>1. {"SizeXfered", "SizeToXfer"} \subseteq DOMAIN i
    BY DEF InfoOK, NoInfo
  <2>2. j = [i EXCEPT !.SizeXfered = @ + size,
                      !.SizeToXfer = IF i.SizeToXfer > size THEN i.SizeToXfer - size ELSE 0]
    BY <1>3, <2>1 DEF Counted
  <2> HIDE DEF size
  <2>3. QED
    BY <2>1, <2>2
<1>6. 0 = IF n - x > size THEN (n - x) - size ELSE 0
  BY <1>4, <1>5
<1> HIDE DEF size
<1>7. x + size = n
  BY <1>3, <1>6
<1>8. m = g
  BY <1>2, <1>3, <1>7
<1>9. Len(g.from) = n
  BY <1>2, LineIs DEF Lines
<1>10. j.SizeXfered * i.width = n
  BY <1>4, <1>5, <1>7
<1>11. QED
  BY <1>8, <1>9, <1>10

-----------------------------------------------------------------------------
(* A channel of the UART that runs, or whose block has ended, is moving.     *)
Going(ch) == reg[ch].enabled \/ reg[ch].xfer => Moving(reg[ch], channel_info[ch], moved[ch], goal[ch])

(* The inductive invariant for what the UART's transfers move.               *)
MoveInv ==
  dmaUser = "uart" =>
    /\ DOMAIN moved = Channels /\ DOMAIN goal = Channels
    /\ \A ch \in Channels \ missed : Going(ch)

(* Registers that differ only in what moving does not look at.               *)
SameWork(s, r) ==
  /\ s.ctl = r.ctl /\ s.unmasked = r.unmasked /\ s.size = r.size /\ s.count = r.count
  /\ s.sar = r.sar /\ s.dar = r.dar /\ s.xfer = r.xfer

(* They are moving too.                                                     *)
LEMMA SameMoves ==
  ASSUME NEW r, NEW s, SameWork(s, r), NEW i, NEW m, NEW g, Moving(r, i, m, g)
  PROVE  Moving(s, i, m, g)
<1>a. PICK c : \E src \in Int, dst \in Int, n \in Nat : \E x \in 0 .. n :
               Plain(c) /\ UnderWayAt(r, i, m, g, c, src, dst, n, x)
  BY DEF Moving
<1>b. PICK src \in Int, dst \in Int, n \in Nat : \E x \in 0 .. n :
               Plain(c) /\ UnderWayAt(r, i, m, g, c, src, dst, n, x)
  BY <1>a
<1>1. PICK x \in 0 .. n : Plain(c) /\ UnderWayAt(r, i, m, g, c, src, dst, n, x)
  BY <1>b
<1>2. UnderWayAt(s, i, m, g, c, src, dst, n, x)
  BY <1>1 DEF UnderWayAt, RegAt, SameWork
<1>3. QED
  BY <1>1, <1>2 DEF Moving

(* The histories of the other channels are left alone.                       *)
Apart(ch) ==
  /\ DOMAIN moved' = DOMAIN moved /\ DOMAIN goal' = DOMAIN goal
  /\ \A c \in Channels \ {ch} : moved'[c] = moved[c] /\ goal'[c] = goal[c]

(* A step of one channel, which is moving after it, or neither runs nor has  *)
(* ended a block.                                                            *)
LEMMA OneMoves ==
  ASSUME MoveInv, NEW ch \in Channels, Elsewhere(ch), Apart(ch), dmaUser' = dmaUser,
         missed \ {ch} \subseteq missed',
         dmaUser = "uart" /\ ch \notin missed' => Going(ch)'
  PROVE  MoveInv'
<1>1. SUFFICES ASSUME dmaUser = "uart"
               PROVE  /\ DOMAIN moved' = Channels /\ DOMAIN goal' = Channels
                      /\ \A c \in Channels \ missed' : Going(c)'
  BY DEF MoveInv
<1>2. DOMAIN moved' = Channels /\ DOMAIN goal' = Channels
  BY <1>1 DEF MoveInv, Apart
<1>3. ASSUME NEW c \in Channels \ missed' PROVE Going(c)'
  <2>1. CASE c = ch
    BY <1>1, <1>3, <2>1
  <2>2. CASE c # ch
    <3>1. c \in Channels \ missed
      BY <1>3, <2>2
    <3>2. Going(c)
      BY <1>1, <3>1 DEF MoveInv
    <3>3. reg'[c] = reg[c] /\ channel_info'[c] = channel_info[c] /\ moved'[c] = moved[c] /\ goal'[c] = goal[c]
      BY <2>2 DEF Elsewhere, Apart
    <3>4. QED
      BY <3>2, <3>3 DEF Going
  <2>3. QED
    BY <2>1, <2>2
<1>4. QED
  BY <1>2, <1>3

(* A step that no channel sees, or that stops some.                          *)
LEMMA AllMove ==
  ASSUME MoveInv, dmaUser' = dmaUser, missed \subseteq missed',
         channel_info' = channel_info, moved' = moved, goal' = goal,
         \A ch \in Channels : SameWork(reg'[ch], reg[ch]) /\ (reg'[ch].enabled => reg[ch].enabled)
  PROVE  MoveInv'
<1>1. SUFFICES ASSUME dmaUser = "uart", NEW ch \in Channels \ missed' PROVE Going(ch)'
  BY DEF MoveInv
<1>2. Going(ch)
  BY <1>1 DEF MoveInv
<1>3. SameWork(reg'[ch], reg[ch]) /\ (reg'[ch].enabled => reg[ch].enabled)
  OBVIOUS
<1>4. SUFFICES ASSUME reg'[ch].enabled \/ reg'[ch].xfer
               PROVE  Moving(reg'[ch], channel_info[ch], moved[ch], goal[ch])
  BY DEF Going
<1>5. reg[ch].enabled \/ reg[ch].xfer
  BY <1>3, <1>4 DEF SameWork
<1>6. Moving(reg[ch], channel_info[ch], moved[ch], goal[ch])
  BY <1>2, <1>5 DEF Going
<1>7. QED
  BY <1>3, <1>6, SameMoves

(* A channel whose block has ended raises its interrupt.                     *)
LEMMA MovingIs ==
  ASSUME NEW r, NEW i, NEW m, NEW g, Moving(r, i, m, g)
  PROVE  r.unmasked = TRUE /\ i.llp = <<>> /\ i.polling = FALSE
BY DEF Moving, UnderWayAt, RegAt, InfoAt

-----------------------------------------------------------------------------
(* The controller moves items.                                              *)
LEMMA MoveItemsMoves == DmaInv /\ MoveInv /\ MoveItems => MoveInv'
<1> SUFFICES ASSUME DmaInv, MoveInv, MoveItems PROVE MoveInv'
  OBVIOUS
<1>1. PICK ch \in Channels : \E n \in 1 .. reg[ch].size - reg[ch].count : Move(ch, n)
  BY DEF MoveItems
<1>2. RegisterOK /\ RegOK(reg[ch])
  BY DEF DmaInv, RegisterOK
<1>3. PICK n \in 1 .. reg[ch].size - reg[ch].count : Move(ch, n)
  BY <1>1
<1>4. UNCHANGED <<dmaUser, missed, channel_info, goal>> /\ Elsewhere(ch) /\ reg[ch].enabled
  <2>1. UNCHANGED <<dmaUser, missed, channel_info, goal>>
    BY <1>3 DEF MoveItems, Machine, Move
  <2>2. n \in Int
    BY <1>2 DEF RegOK
  <2>3. Elsewhere(ch) /\ reg[ch].enabled
    BY <1>2, <1>3, <2>2, MoveDoes
  <2>4. QED
    BY <2>1, <2>3
<1> DEFINE r == reg[ch]
           k == r.count + n
           before == Path(r.ctl, r.sar, r.dar, r.gath, r.scat, r.count)
           after == Path(r.ctl, r.sar, r.dar, r.gath, r.scat, k)
           p == [ from |-> SubSeq(after.from, Len(before.from) + 1, Len(after.from)),
                  to   |-> SubSeq(after.to, Len(before.to) + 1, Len(after.to)) ]
<1>5. moved' = [moved EXCEPT ![ch] = Joined(moved[ch], p)]
  BY <1>3 DEF Move
<1>6. Further(p, before, after)
  BY DEF Further
<1>7. CountedTo(reg'[ch], r, n)
  <2>1. {"enabled", "size", "count", "unmasked", "xfer", "error", "ctl", "sar", "dar"} \subseteq DOMAIN r
    BY <1>2 DEF RegOK, Cleared
  <2>2. ch \in DOMAIN reg
    BY <1>2 DEF RegisterOK
  <2>3. reg' = [reg EXCEPT ![ch].count = k, ![ch].enabled = k < r.size, ![ch].xfer = k = r.size]
    BY <1>3 DEF Move
  <2> HIDE DEF k
  <2>4. /\ reg'[ch].count = k /\ reg'[ch].xfer = (k = r.size)
        /\ reg'[ch].ctl = r.ctl /\ reg'[ch].unmasked = r.unmasked /\ reg'[ch].size = r.size
        /\ reg'[ch].sar = r.sar /\ reg'[ch].dar = r.dar
    BY <2>1, <2>2, <2>3
  <2>5. QED
    BY <2>4 DEF CountedTo, k
<1> HIDE DEF p, before, after
<1>8. dmaUser = "uart" /\ ch \notin missed' => Going(ch)'
  <2>1. SUFFICES ASSUME dmaUser = "uart", ch \notin missed
                 PROVE  Moving(reg'[ch], channel_info[ch], moved'[ch], goal[ch])
    BY <1>4 DEF Going
  <2>2. Moving(r, channel_info[ch], moved[ch], goal[ch])
    BY <1>4, <2>1 DEF MoveInv, Going
  <2>3. Moving(reg'[ch], channel_info[ch], Joined(moved[ch], p), goal[ch])
    <3> DEFINE i == channel_info[ch]
               m == moved[ch]
               g == goal[ch]
               s == reg'[ch]
    <3>1. Moving(r, i, m, g) /\ CountedTo(s, r, n)
      BY <1>7, <2>2
    <3>2. Further(p, Path(r.ctl, r.sar, r.dar, r.gath, r.scat, r.count),
                     Path(r.ctl, r.sar, r.dar, r.gath, r.scat, r.count + n))
      BY <1>6 DEF before, after
    <3>3. n \in 1 .. r.size - r.count
      OBVIOUS
    <3> HIDE DEF r, i, m, g, s
    <3>4. Moving(s, i, Joined(m, p), g)
      BY <3>1, <3>2, <3>3, MoveMoves
    <3>5. QED
      BY <3>4 DEF i, m, g, s
  <2>4. moved'[ch] = Joined(moved[ch], p)
    BY <1>5, <2>1 DEF MoveInv
  <2>5. QED
    BY <2>3, <2>4
<1>9. Apart(ch)
  BY <1>4, <1>5 DEF Apart
<1>10. QED
  BY <1>4, <1>8, <1>9, OneMoves

(* It fails.                                                                *)
LEMMA FailItemMoves == DmaInv /\ MoveInv /\ FailItem => MoveInv'
<1> SUFFICES ASSUME DmaInv, MoveInv, FailItem PROVE MoveInv'
  OBVIOUS
<1>1. PICK ch \in Channels : Fail(ch)
  BY DEF FailItem
<1>2. RegisterOK /\ RegOK(reg[ch]) /\ ch \in DOMAIN reg
  BY DEF DmaInv, RegisterOK
<1>3. /\ reg' = [reg EXCEPT ![ch].enabled = FALSE, ![ch].error = TRUE]
      /\ UNCHANGED <<dmaUser, missed, channel_info, moved, goal>>
  BY <1>1 DEF FailItem, Machine, Fail
<1>4. {"enabled", "size", "count", "unmasked", "xfer", "error", "ctl", "sar", "dar"} \subseteq DOMAIN reg[ch]
  BY <1>2 DEF RegOK, Cleared
<1>5. SameWork(reg'[ch], reg[ch]) /\ ~reg'[ch].enabled
  BY <1>2, <1>3, <1>4 DEF SameWork
<1>6. \A c \in Channels \ {ch} : reg'[c] = reg[c]
  BY <1>2, <1>3 DEF RegisterOK
<1>7. \A c \in Channels : SameWork(reg'[c], reg[c]) /\ (reg'[c].enabled => reg[c].enabled)
  BY <1>5, <1>6 DEF SameWork
<1>8. QED
  BY <1>3, <1>7, AllMove

(* The handler starts the next block; a transfer of the UART has no list.    *)
LEMMA BlockEndsMoves == DmaInv /\ MoveInv /\ BlockEnds => MoveInv'
<1> SUFFICES ASSUME DmaInv, MoveInv, BlockEnds PROVE MoveInv'
  OBVIOUS
<1>1. PICK ch \in Channels : HandleBlock(ch) \/ HandleList(ch)
  BY DEF BlockEnds
<1>2. /\ RegisterOK /\ RegOK(reg[ch]) /\ InfoOK(channel_info[ch])
      /\ DOMAIN reg = Channels /\ DOMAIN channel_info = Channels
  BY DEF DmaInv, RegisterOK
<1>3. UNCHANGED <<dmaUser, missed, moved, goal>>
  BY <1>1 DEF BlockEnds, Machine, HandleBlock, HandleList
<1>4. Elsewhere(ch) /\ Interrupt(ch)
  BY <1>1, <1>2, HandleBlockDoes, HandleListDoes
<1>5. ~reg[ch].error
  BY <1>1 DEF HandleBlock, HandleList
<1>6. reg[ch].xfer
  BY <1>4, <1>5 DEF Interrupt
<1> DEFINE r == reg[ch]
           i == channel_info[ch]
           m == moved[ch]
           g == goal[ch]
           j == After(ch)
<1>7. ASSUME dmaUser = "uart", ch \notin missed
      PROVE  Going(ch)'
  <2>1. Moving(r, i, m, g)
    BY <1>6, <1>7 DEF MoveInv, Going
  <2>2. CASE HandleBlock(ch)
    <3> DEFINE s == GoesOn([r EXCEPT !.xfer = FALSE], j.SrcAddr, j.DstAddr, Block(j.SizeToXfer))
               l == WithNextBlock(j, r.ctl, j.SrcAddr, j.DstAddr, Block(j.SizeToXfer))
    <3>1. reg'[ch] = s /\ channel_info'[ch] = l /\ j.SizeToXfer > 0
      BY <1>2, <2>2 DEF HandleBlock
    <3>2. j = Counted(i, r.count)
      BY DEF After
    <3>3. RegOK(r) /\ InfoOK(i) /\ r.xfer
      BY <1>2, <1>6
    <3> HIDE DEF r, i, m, g, j
    <3>4. Moving(s, l, m, g)
      BY <2>1, <3>1, <3>2, <3>3, BlockMoves
    <3> HIDE DEF s, l
    <3>5. Moving(reg'[ch], channel_info'[ch], moved'[ch], goal'[ch])
      BY <1>3, <3>1, <3>4 DEF m, g
    <3>6. QED
      BY <3>5 DEF Going
  <2>3. CASE HandleList(ch)
    <3>1. i.llp = <<>>
      BY <2>1, MovingIs
    <3>2. r.count \in Int
      BY <1>2 DEF RegOK
    <3>3. j.llp = i.llp
      <4>1. Counted(i, r.count).llp = i.llp
        BY <1>2, <3>2, CountedIs
      <4>2. QED
        BY <4>1 DEF After
    <3>4. j.llp # <<>>
      BY <2>3 DEF HandleList
    <3>5. QED
      BY <3>1, <3>3, <3>4
  <2>4. QED
    BY <1>1, <2>2, <2>3
<1>8. Apart(ch)
  BY <1>3 DEF Apart
<1>9. QED
  BY <1>3, <1>4, <1>7, <1>8, OneMoves

(* The end and the error of a transfer leave a channel at rest.              *)
LEMMA LastMoves == DmaInv /\ MoveInv /\ (TransferEnds \/ TransferFails) => MoveInv'
<1> SUFFICES ASSUME DmaInv, MoveInv, TransferEnds \/ TransferFails PROVE MoveInv'
  OBVIOUS
<1>1. PICK ch \in Channels : (HandleDone(ch) \/ HandleError(ch)) /\ missed' = missed \ {ch}
  BY DEF TransferEnds, TransferFails
<1>2. RegisterOK
  BY DEF DmaInv
<1>3. Elsewhere(ch) /\ ~reg'[ch].enabled /\ ~reg'[ch].xfer
  BY <1>1, <1>2, HandleDoneDoes, HandleErrorDoes
<1>4. Apart(ch) /\ dmaUser' = dmaUser
  BY <1>1 DEF HandleDone, HandleError, Apart, TransferEnds, TransferFails, Machine
<1>5. Going(ch)'
  BY <1>3 DEF Going
<1>6. QED
  BY <1>1, <1>3, <1>4, <1>5, OneMoves

-----------------------------------------------------------------------------
(* The UART's calls.  One that only changes what the UART knows.             *)
LEMMA CallMoves ==
  ASSUME MoveInv, UNCHANGED dmaVars, dmaUser' = dmaUser, missed \subseteq missed'
  PROVE  MoveInv'
<1>1. UNCHANGED <<reg, channel_info, moved, goal>>
  BY DEF dmaVars
<1>2. \A ch \in Channels : SameWork(reg'[ch], reg[ch]) /\ (reg'[ch].enabled => reg[ch].enabled)
  BY <1>1 DEF SameWork
<1>3. QED
  BY <1>1, <1>2, AllMove

(* A channel that is selected neither runs nor has ended a block.            *)
LEMMA SelectMoves == DmaInv /\ MoveInv /\ Select => MoveInv'
<1> SUFFICES ASSUME DmaInv, MoveInv, Select PROVE MoveInv'
  OBVIOUS
<1>1. dmaUser = "uart" /\ dmaUser' = dmaUser /\ missed' = missed /\ NoInterrupt
  BY DEF Select, Calm, Thread
<1>2. CASE UNCHANGED dmaVars
  BY <1>1, <1>2, CallMoves
<1>3. ASSUME NEW ch \in Channels, NEW d, Claim(ch, d) PROVE MoveInv'
  <2>1. RegisterOK /\ OwnedOK
    BY DEF DmaInv
  <2>2. Elsewhere(ch) /\ reg'[ch] = reg[ch] /\ ch \notin channel_active
    BY <1>3, <2>1, ClaimDoes
  <2>3. Apart(ch)
    BY <1>3 DEF Claim, Apart
  <2>4. ASSUME ch \notin missed PROVE Going(ch)'
    <3>1. ~reg[ch].enabled
      BY <2>1, <2>2, <2>4 DEF OwnedOK
    <3>2. ~reg[ch].xfer
      <4>1. SUFFICES ASSUME reg[ch].xfer PROVE FALSE
        OBVIOUS
      <4>2. Moving(reg[ch], channel_info[ch], moved[ch], goal[ch])
        BY <1>1, <2>4, <4>1 DEF MoveInv, Going
      <4>3. Interrupt(ch)
        BY <4>1, <4>2, MovingIs DEF Interrupt
      <4>4. QED
        BY <1>1, <4>3 DEF NoInterrupt
    <3>3. QED
      BY <2>2, <3>1, <3>2 DEF Going
  <2>5. QED
    BY <1>1, <2>2, <2>3, <2>4, OneMoves
<1>4. Lowest(Found(call.dir)) \subseteq Channels
  BY DEF Lowest, Found, FreeChannels
<1>5. QED
  BY <1>2, <1>3, <1>4 DEF Select

(* What the UART asks for goes byte by byte, without gaps.                   *)
LEMMA BytesPlain ==
  ASSUME NEW d, NEW n \in Nat
  PROVE  /\ Plain(Bytes(d, n).ctl) /\ Bytes(d, n).size = n
         /\ Bytes(d, n).src \in Int /\ Bytes(d, n).dst \in Int
         /\ Bytes(d, n).ctl.src_width = 1 /\ Bytes(d, n).ctl.dst_width = 1
<1>1. Bytes(d, n).size = n /\ Bytes(d, n).src \in Int /\ Bytes(d, n).dst \in Int
  BY DEF Bytes, Port
<1>2. /\ Bytes(d, n).ctl.src_width = 1 /\ Bytes(d, n).ctl.dst_width = 1
      /\ Bytes(d, n).ctl.gather = FALSE /\ Bytes(d, n).ctl.scatter = FALSE
  BY DEF Bytes, NoControl
<1>3. Bytes(d, n).ctl.src \in {"inc", "fix"} /\ Bytes(d, n).ctl.dst \in {"inc", "fix"}
  BY DEF Bytes, NoControl
<1>4. QED
  BY <1>1, <1>2, <1>3 DEF Plain

(* The channel that is set going for them is moving.                         *)
LEMMA ConfigureMoves ==
  ASSUME RegisterOK, NEW ch \in Channels, DOMAIN moved = Channels, DOMAIN goal = Channels,
         NEW d, NEW n \in Nat, Configure(ch, Bytes(d, n), TRUE)
  PROVE  /\ Elsewhere(ch) /\ Apart(ch)
         /\ Moving(reg'[ch], channel_info'[ch], moved'[ch], goal'[ch])
<1> DEFINE t == Bytes(d, n)
           i == [InfoFor(ch, t, <<>>) EXCEPT !.polling = FALSE]
           c == t.ctl
           r == Quiet(reg[ch])
<1>a. Configure(ch, t, TRUE)
  OBVIOUS
<1>b. /\ RegOK(reg[ch]) /\ InfoOK(channel_info[ch]) /\ n \in Nat /\ ch \in Channels
       /\ DOMAIN reg = Channels /\ DOMAIN channel_info = Channels
  BY DEF RegisterOK
<1>1. Start(ch, i, t, TRUE, Asked(t))
  BY <1>a DEF Configure
<1>2. /\ Plain(c) /\ t.size = n /\ t.src \in Int /\ t.dst \in Int
      /\ c.src_width = 1 /\ c.dst_width = 1
  BY <1>b, BytesPlain
<1>3. Elsewhere(ch)
  <2>1. ASSUME NEW e \in BOOLEAN, e = TRUE, NEW u, u.size \in Int, NEW k \in Channels, Configure(k, u, e)
        PROVE  Elsewhere(k)
    BY <1>b, <2>1, ConfigureDoes
  <2>2. n \in Int
    BY <1>b
  <2>3. QED
    BY <1>b, <1>a, <1>2, <2>1, <2>2
<1>4. Fresh(i, n) /\ InfoOK(i)
  <2> DEFINE f == channel_info[ch]
  <2>1. {"SizeToXfer", "SizeXfered", "llp", "width", "dst_width", "gath", "scat", "polling"}
          \subseteq DOMAIN f
    BY <1>b DEF InfoOK, NoInfo
  <2>2. i = [[f EXCEPT !.SizeToXfer = t.size, !.SizeXfered = 0, !.llp = <<>>,
                       !.width = c.src_width, !.dst_width = c.dst_width, !.gath = t.gath,
                       !.scat = t.scat] EXCEPT !.polling = FALSE]
    BY DEF InfoFor
  <2>3. DOMAIN i = DOMAIN f
    BY <2>2
  <2> HIDE DEF c, i, t
  <2>4. /\ i.SizeToXfer = t.size /\ i.SizeXfered = 0 /\ i.llp = <<>> /\ i.width = c.src_width
        /\ i.dst_width = c.dst_width /\ i.polling = FALSE
    BY <2>1, <2>2
  <2>5. Fresh(i, n)
    BY <1>2, <2>4 DEF Fresh
  <2>6. n \in Int /\ <<>> \in Seq(Listed)
    BY <1>b
  <2>7. InfoOK(i)
    BY <1>b, <1>2, <2>3, <2>4, <2>6 DEF InfoOK
  <2>8. QED
    BY <2>5, <2>7
<1>5. RegOK(r) /\ ~r.xfer
  BY <1>b, QuietIs
<1>6. Moving(Started(r, i, t.src, t.dst, Block(n), c, TRUE),
             WithNextBlock(i, c, t.src, t.dst, Block(n)), Nothing, Lines(c, t.src, t.dst, n))
  <2> DEFINE a == t.src
             b == t.dst
  <2>1. Plain(c) /\ a \in Int /\ b \in Int /\ n \in Nat
    BY <1>b, <1>2
  <2> HIDE DEF a, b, c, i, r
  <2>2. Moving(Started(r, i, a, b, Block(n), c, TRUE),
               WithNextBlock(i, c, a, b, Block(n)), Nothing, Lines(c, a, b, n))
    BY <1>4, <1>5, <2>1, StartMoves
  <2>3. QED
    BY <2>2 DEF a, b
<1>7. Asked(t) = Lines(c, t.src, t.dst, n)
  <2>1. Asked(t) = Path(c, t.src, t.dst, t.gath, t.scat, n)
    BY <1>2 DEF Asked
  <2>2. QED
    BY <1>b, <1>2, <2>1, PathIs
<1>8. i.SizeToXfer = n
  BY <1>4 DEF Fresh
<1> HIDE DEF i, t
<1>9. /\ reg'[ch] = Started(r, i, t.src, t.dst, Block(n), c, TRUE)
      /\ channel_info'[ch] = WithNextBlock(i, c, t.src, t.dst, Block(n))
  BY <1>b, <1>1, <1>8 DEF Start
<1>10. moved'[ch] = Nothing /\ goal'[ch] = Asked(t)
  BY <1>1 DEF Start
<1>11. Moving(reg'[ch], channel_info'[ch], moved'[ch], goal'[ch])
  BY <1>6, <1>7, <1>9, <1>10
<1>12. Apart(ch)
  BY <1>1 DEF Start, Apart
<1>13. QED
  BY <1>3, <1>11, <1>12

(* So it is for UART_Send and UART_Receive.                                 *)
LEMMA ConfigureUartMoves == DmaInv /\ MoveInv /\ ConfigureUart => MoveInv'
<1> SUFFICES ASSUME DmaInv, MoveInv, ConfigureUart PROVE MoveInv'
  OBVIOUS
<1>1. /\ dmaUser = "uart" /\ dmaUser' = dmaUser /\ missed' = missed /\ call.at = "configure"
  BY DEF ConfigureUart, Calm, Thread
<1>2. /\ RegisterOK /\ port[call.dir].channel \in Channels /\ port[call.dir].num \in Nat
      /\ DOMAIN moved = Channels /\ DOMAIN goal = Channels
  BY <1>1 DEF DmaInv, AbortOK, ThreadOK, PortOK, MoveInv
<1>3. CASE UNCHANGED dmaVars
  BY <1>1, <1>3, CallMoves
<1>4. ASSUME NEW ch \in Channels, NEW d, NEW n \in Nat, Configure(ch, Bytes(d, n), TRUE)
      PROVE  MoveInv'
  <2>1. /\ Elsewhere(ch) /\ Apart(ch)
        /\ Moving(reg'[ch], channel_info'[ch], moved'[ch], goal'[ch])
    BY <1>2, <1>4, ConfigureMoves
  <2>2. Going(ch)'
    BY <2>1 DEF Going
  <2>3. missed \ {ch} \subseteq missed'
    BY <1>1
  <2>4. QED
    BY <1>1, <2>1, <2>2, <2>3, OneMoves
<1>5. QED
  BY <1>2, <1>3, <1>4 DEF ConfigureUart

(* An abort stops a channel, and changes nothing of what it moves.           *)
LEMMA AbortStopMoves == DmaInv /\ MoveInv /\ AbortStop => MoveInv'
<1> SUFFICES ASSUME DmaInv, MoveInv, AbortStop PROVE MoveInv'
  OBVIOUS
<1>1. UNCHANGED <<dmaUser, missed, channel_info, moved, goal>>
  BY DEF AbortStop, Calm, Thread
<1>2. RegisterOK
  BY DEF DmaInv
<1>3. CASE reg' = reg
  <2>1. \A c \in Channels : SameWork(reg'[c], reg[c]) /\ (reg'[c].enabled => reg[c].enabled)
    BY <1>3 DEF SameWork
  <2>2. QED
    BY <1>1, <2>1, AllMove
<1>4. CASE reg' = Stopped(call.ch)
  <2>1. ASSUME NEW c \in Channels
        PROVE  SameWork(reg'[c], reg[c]) /\ (reg'[c].enabled => reg[c].enabled)
    <3>1. DOMAIN reg = Channels /\ RegOK(reg[c])
      BY <1>2 DEF RegisterOK
    <3>2. {"enabled", "size", "count", "unmasked", "xfer", "error", "ctl", "sar", "dar", "suspended"}
            \subseteq DOMAIN reg[c]
      BY <3>1 DEF RegOK, Cleared
    <3>3. CASE c # call.ch
      <4>1. reg'[c] = reg[c]
        BY <1>4, <3>1, <3>3 DEF Stopped
      <4>2. QED
        BY <4>1 DEF SameWork
    <3>4. CASE c = call.ch
      <4>1. reg'[c] = [reg[c] EXCEPT !.enabled = FALSE, !.suspended = TRUE]
        BY <1>4, <3>1, <3>2, <3>4 DEF Stopped
      <4>2. QED
        BY <3>2, <4>1 DEF SameWork
    <3>5. QED
      BY <3>3, <3>4
  <2>2. QED
    BY <1>1, <2>1, AllMove
<1>5. QED
  BY <1>3, <1>4 DEF AbortStop

(* So do the other steps of an abort, and the start of a call.               *)
LEMMA OtherCallsMove == MoveInv /\ (TransferCall \/ AbortTest \/ AbortLeave) => MoveInv'
<1> SUFFICES ASSUME MoveInv, TransferCall \/ AbortTest \/ AbortLeave PROVE MoveInv'
  OBVIOUS
<1>1. /\ UNCHANGED <<reg, channel_info, moved, goal, dmaUser>>
      /\ missed \subseteq missed'
  BY DEF TransferCall, AbortTest, AbortLeave, Calm, Thread, dmaVars
<1>2. \A ch \in Channels : SameWork(reg'[ch], reg[ch]) /\ (reg'[ch].enabled => reg[ch].enabled)
  BY <1>1 DEF SameWork
<1>3. QED
  BY <1>1, <1>2, AllMove

(* dma_uninitialize stops the channels.                                      *)
LEMMA PowerOffMoves == DmaInv /\ MoveInv /\ PowerOff => MoveInv'
<1> SUFFICES ASSUME DmaInv, MoveInv, PowerOff PROVE MoveInv'
  OBVIOUS
<1>1. UNCHANGED <<dmaUser, missed, channel_info, moved, goal>> /\ reg' \in {AllOff, reg}
  BY DEF PowerOff, Calm, Thread, dma_uninitialize
<1>2. ASSUME NEW c \in Channels
      PROVE  SameWork(reg'[c], reg[c]) /\ (reg'[c].enabled => reg[c].enabled)
  <2>1. RegOK(reg[c])
    BY DEF DmaInv, RegisterOK
  <2>2. {"enabled", "size", "count", "unmasked", "xfer", "error", "ctl", "sar", "dar"} \subseteq DOMAIN reg[c]
    BY <2>1 DEF RegOK, Cleared
  <2>3. CASE reg' = AllOff
    <3>1. reg'[c] = [reg[c] EXCEPT !.enabled = FALSE]
      BY <2>3 DEF AllOff
    <3>2. QED
      BY <2>2, <3>1 DEF SameWork
  <2>4. CASE reg' = reg
    BY <2>4 DEF SameWork
  <2>5. QED
    BY <1>1, <2>3, <2>4
<1>3. QED
  BY <1>1, <1>2, AllMove

(* dma_initialize stops them and forgets, or does nothing.                   *)
LEMMA PowerOnMoves == DmaInv /\ MoveInv /\ PowerOn => MoveInv'
<1> SUFFICES ASSUME DmaInv, MoveInv, PowerOn PROVE MoveInv'
  OBVIOUS
<1>1. UNCHANGED <<dmaUser, missed, moved, goal>> /\ dma_initialize
  BY DEF PowerOn, Calm, Thread, dma_initialize
<1>2. RegisterOK
  BY DEF DmaInv
<1>3. CASE init_cnt = 0
  <2>1. \A c \in Channels : ~reg'[c].enabled /\ ~reg'[c].xfer
    BY <1>1, <1>2, <1>3, InitializeDoes
  <2>2. \A c \in Channels : Going(c)'
    BY <2>1 DEF Going
  <2>3. QED
    BY <1>1, <2>2 DEF MoveInv
<1>4. CASE init_cnt # 0
  <2>1. reg' = reg /\ channel_info' = channel_info
    BY <1>1, <1>2, <1>4, InitializeDoes
  <2>2. \A c \in Channels : SameWork(reg'[c], reg[c]) /\ (reg'[c].enabled => reg[c].enabled)
    BY <2>1 DEF SameWork
  <2>3. QED
    BY <1>1, <2>1, <2>2, AllMove
<1>5. QED
  BY <1>3, <1>4

(* At the start nothing runs.                                               *)
LEMMA MoveInitOK == DmaUsersInit => MoveInv
<1> SUFFICES ASSUME DmaUsersInit PROVE MoveInv
  OBVIOUS
<1>1. /\ reg = [ch \in Channels |-> Cleared]
      /\ moved = [ch \in Channels |-> Nothing] /\ goal = [ch \in Channels |-> Nothing]
  BY DEF DmaUsersInit, DmaInit
<1>2. \A ch \in Channels : Going(ch)
  BY <1>1 DEF Going, Cleared
<1>3. QED
  BY <1>1, <1>2 DEF MoveInv

(* Every step of the UART and of the controller keeps it; anyone's are not   *)
(* about it.                                                                 *)
LEMMA MoveNextKeeps == DmaInv /\ MoveInv /\ [DmaUsersNext]_dmaUsersVars => MoveInv'
<1> SUFFICES ASSUME DmaInv, MoveInv, [DmaUsersNext]_dmaUsersVars PROVE MoveInv'
  OBVIOUS
<1>1. CASE UNCHANGED dmaUsersVars
  BY <1>1, CallMoves DEF dmaUsersVars, userVars
<1>2. CASE Anyone
  BY <1>2 DEF Anyone, MoveInv
<1>3. Open \/ Take \/ StartAny \/ Pause \/ Poll \/ Release => Anyone
  BY DEF Open, Take, StartAny, Pause, Poll, Release
<1>4. QED
  BY <1>1, <1>2, <1>3, OtherCallsMove, SelectMoves, ConfigureUartMoves, AbortStopMoves,
     PowerOffMoves, PowerOnMoves, MoveItemsMoves, FailItemMoves, BlockEndsMoves, LastMoves
     DEF DmaUsersNext

(* It holds of every behaviour.                                              *)
THEOREM MoveInvHolds == DmaUsersSpec => []MoveInv
<1>1. DmaUsersInit => MoveInv
  BY MoveInitOK
<1>2. DmaInv /\ MoveInv /\ [DmaUsersNext]_dmaUsersVars => MoveInv'
  BY MoveNextKeeps
<1>3. QED
  BY <1>1, <1>2, DmaInvHolds, PTL DEF DmaUsersSpec

(* A transfer of the UART that ends has moved every byte once, in order and  *)
(* to where it was asked, over all of its blocks, and counts them            *)
(* (dma_irq_handler, dma.c:2128-2180; UART_Send, UART_Receive).              *)
THEOREM DmaUartMovedAsAsked == DmaUsersSpec => [](dmaUser = "uart" => MovedAsAsked)
<1>1. ASSUME DmaInv, MoveInv PROVE dmaUser = "uart" => MovedAsAsked
  <2>1. SUFFICES ASSUME dmaUser = "uart", NEW ch \in Channels \ missed, EndsWell(ch)
                 PROVE  /\ moved[ch] = goal[ch]
                        /\ After(ch).SizeXfered * channel_info[ch].width = Len(goal[ch].from)
    BY DEF MovedAsAsked
  <2>2. reg[ch].xfer
    BY <2>1 DEF EndsWell, Finished, Interrupt
  <2>3. Moving(reg[ch], channel_info[ch], moved[ch], goal[ch])
    BY <1>1, <2>1, <2>2 DEF MoveInv, Going
  <2>4. channel_info[ch].polling = FALSE
    BY <2>3, MovingIs
  <2>5. After(ch).SizeToXfer = 0
    BY <2>1, <2>4 DEF EndsWell, Finished
  <2>6. InfoOK(channel_info[ch]) /\ RegOK(reg[ch])
    BY <1>1 DEF DmaInv, RegisterOK
  <2>7. After(ch) = Counted(channel_info[ch], reg[ch].count)
    BY DEF After
  <2>8. QED
    BY <2>2, <2>3, <2>5, <2>6, <2>7, EndMoved
<1>2. QED
  BY <1>1, DmaInvHolds, MoveInvHolds, PTL
=============================================================================

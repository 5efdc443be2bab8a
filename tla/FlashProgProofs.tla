-------------------------- MODULE FlashProgProofs --------------------------
(***************************************************************************)
(* Theorems about the flash programming of module FlashProg, for every     *)
(* number of slots, block size, capacity of the event queue, flash and set *)
(* of images, and for any number of faults and lost replies: it uses the   *)
(* block ring as module BlockRing has it, keeps its types, and loses the   *)
(* event of a ready block only in a way that is named.  And as long as the *)
(* host stops at an error: no event is dropped, no error lost, and what    *)
(* was acknowledged is in the flash, written into blank sectors and into   *)
(* no others than the host named.                                          *)
(***************************************************************************)
EXTENDS FlashProg, BlockRingProofs, SequenceTheorems, TLAPS

Proc == {"uart", "flash"} \cup Worker
PostedEv == {"UART_RXD", "BUF_RDY", "BUF_FREE", "PROG_OK", "PROG_ERR", "ERASE", "CONTINUE"}
Event == [p : Proc, ev : PostedEv, data : Int]

DataPacket == [op : {"DATA"}, seq : Nat, units : Seq(Nat)]
Command ==
  [op : {"BEGIN"}, offset : Nat, size : Nat \ {0}] \cup DataPacket \cup [op : {"END"}]
  \cup [op : {"ERASE"}, chip : {TRUE}]
  \cup [op : {"ERASE"}, chip : {FALSE}, offset : Nat, size : Nat \ {0}]

UartLabel == {"rx", "copy", "copy_wait", "end", "end_wait", "erase_wait", "reply"}
Phase == {"none", "begin", "data", "resend", "done", "erasing", "erased", "chip_erased", "stopped"}

(* The kernel: the queue holds events of the processes, never too many.     *)
KernelOK ==
  /\ queue \in Seq(Event) /\ Len(queue) <= PROCESS_CONF_NUMEVENTS
  /\ polled \subseteq Worker /\ turn \in {"poll", "erase", "event"}
  /\ current \in {"none"} \cup Proc
  /\ ev \in [p : {"none"} \cup Proc, ev : {"INIT", "POLL"} \cup PostedEv, data : Int]

(* What is left to copy is part of what is left of the image, and nothing   *)
(* is when no packet is being copied.                                       *)
LoaderOK ==
  /\ upc \in UartLabel /\ error \in BOOLEAN
  /\ mem \in [remaining : Nat, seq : Nat \cup {-1}, mode : BOOLEAN, cpy : Seq(Nat)]
  /\ Len(mem.cpy) <= mem.remaining
  /\ upc \notin {"copy", "copy_wait"} => mem.cpy = <<>>
  /\ upc # "rx" => cmd \in Command

HostOK ==
  /\ host \in [phase : Phase, gen : Nat, offset : Nat, size : Nat, sent : Nat,
               seq : Nat, last : {NoPacket} \cup DataPacket, resends : Nat]
  /\ host.phase = "resend" => host.last \in DataPacket
  /\ packet \in {NoPacket} \cup Command

FlashLabel == {"idle", "chip", "chip_wait", "region", "region_wait", "region_done", "drain",
               "sector_wait", "program_wait"}
WorkerLabel == {"idle", "wren", "read_latch", "latch_wait", "command", "read_busy",
                "busy_wait", "read_chip", "chip_wait"}

(* The blocks that are ready hold something, and so does the block          *)
(* flash_ops names, once there is one.                                      *)
RingOK ==
  /\ Sound(ring)
  /\ NoEmptyBlock(ring)

ForProgram == \E i \in 1 .. Len(queue) : queue[i].p = "program"

ProgrammerOK ==
  /\ fpc \in FlashLabel /\ chip_erase \in BOOLEAN
  /\ flash_ops \in [addr : Int, size : 0 .. LOAD_BLK_SIZE, buf : BufIdx]
  /\ \/ fpc = "sector_wait" \/ ForProgram \/ (current = "program" /\ ev.ev # "POLL")
     => flash_ops.size > 0

(* The program process has something left to program whenever it is in its  *)
(* loop or about to be polled, and does not go beyond the block.            *)
WorkerOK ==
  /\ worker \in [Worker -> [pc : WorkerLabel, addr : Int, remain : 0 .. LOAD_BLK_SIZE,
                            buf : BufIdx, pos : 0 .. LOAD_BLK_SIZE - 1, j : 0 .. Timeout - 1]]
  /\ worker["program"].pos + worker["program"].remain <= LOAD_BLK_SIZE
  /\ \/ worker["program"].pc # "idle" \/ "program" \in polled
     \/ (current = "program" /\ ev.ev = "POLL")
     => worker["program"].remain > 0

DeviceOK ==
  /\ dev \in {"ready", "latched", "busy"} /\ DOMAIN flash = Addr /\ DOMAIN buf = BufIdx
  /\ \A b \in BufIdx : DOMAIN buf[b] = 0 .. LOAD_BLK_SIZE - 1

ImageOK == flash_prog \in [offset : Int, total : Int, erase_size : Int, cnt : Int]

FlashInv ==
  /\ KernelOK /\ LoaderOK /\ HostOK /\ RingOK /\ ImageOK
  /\ ProgrammerOK /\ WorkerOK /\ DeviceOK

-----------------------------------------------------------------------------
(* process_post leaves the events before it as they are, and the queue is   *)
(* one longer unless it is full.                                            *)
LEMMA PostKeeps ==
  ASSUME NEW q \in Seq(Event), Len(q) <= PROCESS_CONF_NUMEVENTS,
         NEW p \in Proc, NEW e \in PostedEv, NEW d \in Int
  PROVE  /\ Post(q, p, e, d) \in Seq(Event)
         /\ Len(q) <= Len(Post(q, p, e, d))
         /\ Len(Post(q, p, e, d)) <= PROCESS_CONF_NUMEVENTS
         /\ \A i \in 1 .. Len(q) : Post(q, p, e, d)[i] = q[i]
         /\ \A i \in 1 .. Len(Post(q, p, e, d)) :
              i \in 1 .. Len(q) \/ Post(q, p, e, d)[i] = [p |-> p, ev |-> e, data |-> d]
         /\ Len(q) < PROCESS_CONF_NUMEVENTS =>
              /\ Len(Post(q, p, e, d)) = Len(q) + 1
              /\ Post(q, p, e, d)[Len(q) + 1] = [p |-> p, ev |-> e, data |-> d]
<1> DEFINE x == [p |-> p, ev |-> e, data |-> d]
<1>1. x \in Event
  BY DEF Event
<1> HIDE DEF x
<1>2. /\ Append(q, x) \in Seq(Event) /\ Len(Append(q, x)) = Len(q) + 1
      /\ \A i \in 1 .. Len(q) : Append(q, x)[i] = q[i]
      /\ Append(q, x)[Len(q) + 1] = x
  BY <1>1, AppendProperties
<1>3. Len(q) \in Nat /\ PROCESS_CONF_NUMEVENTS \in Nat
  BY FlashAssumption, LenProperties
<1>4. CASE Len(q) = PROCESS_CONF_NUMEVENTS
  BY <1>3, <1>4 DEF Post
<1>5. CASE Len(q) # PROCESS_CONF_NUMEVENTS
  <2>1. Post(q, p, e, d) = Append(q, x)
    BY <1>5 DEF Post, x
  <2>2. \A i \in 1 .. Len(q) + 1 : i \in 1 .. Len(q) \/ i = Len(q) + 1
    BY <1>3
  <2>3. QED
    BY <1>2, <1>3, <1>5, <2>1, <2>2 DEF x
<1>6. QED
  BY <1>4, <1>5

-----------------------------------------------------------------------------
(* What a step leaves alone keeps its part of the invariant.                *)
LEMMA KernelFrame == KernelOK /\ UNCHANGED kernel => KernelOK'
  BY DEF KernelOK, kernel
(* The loader's part of the invariant is about its own variables.           *)
LEMMA LoaderFrame == LoaderOK /\ UNCHANGED loader => LoaderOK'
  BY DEF LoaderOK, loader
(* The host's part likewise.                                                *)
LEMMA HostFrame == HostOK /\ UNCHANGED outside => HostOK'
  BY DEF HostOK, outside
(* The ring's part likewise.                                                *)
LEMMA RingFrame == RingOK /\ UNCHANGED ring => RingOK'
  BY DEF RingOK
(* The part about the image likewise.                                       *)
LEMMA ImageFrame == ImageOK /\ UNCHANGED flash_prog => ImageOK'
  BY DEF ImageOK
(* The part about the flash and the buffers likewise.                       *)
LEMMA DeviceFrame == DeviceOK /\ UNCHANGED <<dev, flash, buf>> => DeviceOK'
  BY DEF DeviceOK

(* The process that runs goes on or yields; the kernel does nothing else.   *)
RunOrYield == UNCHANGED <<polled, turn, ev>> /\ current' \in {current, "none"}

(* Going on leaves the process current, yielding leaves none.               *)
LEMMA RunOrYieldIs == /\ Run => RunOrYield
                      /\ Yield => RunOrYield
  BY DEF Run, Yield, RunOrYield

(* ... and it posts no event. *)
LEMMA QuietFrame ==
  ASSUME KernelOK, RunOrYield, UNCHANGED queue
  PROVE  KernelOK' /\ (ForProgram' => ForProgram)
  BY DEF KernelOK, RunOrYield, ForProgram

(* ... or it posts one event. *)
LEMMA PostFrame ==
  ASSUME KernelOK, RunOrYield,
         NEW p \in Proc, NEW e \in PostedEv, NEW d \in Int, queue' = Post(queue, p, e, d)
  PROVE  KernelOK' /\ (ForProgram' => ForProgram \/ p = "program")
<1>1. queue \in Seq(Event) /\ Len(queue) <= PROCESS_CONF_NUMEVENTS
  BY DEF KernelOK
<1>2. KernelOK'
  BY <1>1, PostKeeps DEF KernelOK, RunOrYield
<1>3. ASSUME NEW i \in 1 .. Len(queue'), queue'[i].p = "program"
      PROVE  ForProgram \/ p = "program"
  <2>1. i \in 1 .. Len(queue) \/ queue'[i] = [p |-> p, ev |-> e, data |-> d]
    BY <1>1, PostKeeps
  <2>2. CASE i \in 1 .. Len(queue)
    <3>1. queue'[i] = queue[i]
      BY <1>1, <2>2, PostKeeps
    <3>2. QED
      BY <1>3, <2>2, <3>1 DEF ForProgram
  <2>3. CASE queue'[i] = [p |-> p, ev |-> e, data |-> d]
    BY <1>3, <2>3
  <2>4. QED
    BY <2>1, <2>2, <2>3
<1>4. QED
  BY <1>2, <1>3 DEF ForProgram

(* The part about flash_prog_process reads its variables and what is        *)
(* queued.                                                                  *)
LEMMA ProgrammerFrame ==
  ASSUME ProgrammerOK, RunOrYield, UNCHANGED programmer, ForProgram' => ForProgram
  PROVE  ProgrammerOK'
  BY DEF ProgrammerOK, programmer, RunOrYield

(* The part about the workers likewise.                                     *)
LEMMA WorkerFrame ==
  ASSUME WorkerOK, RunOrYield, UNCHANGED worker
  PROVE  WorkerOK'
  BY DEF WorkerOK, RunOrYield

(* The invariant holds at the start.                                        *)
LEMMA InitInv == Init => FlashInv
<1> SUFFICES ASSUME Init PROVE FlashInv
  OBVIOUS
<1> USE DEF Init
<1>1. KernelOK
  BY FlashAssumption, EmptySeq DEF KernelOK
<1>2. LoaderOK
  <2>1. <<>> \in Seq(Nat) /\ Len(<<>>) = 0
    BY EmptySeq
  <2>2. mem.cpy = <<>> /\ mem.remaining = 0
    OBVIOUS
  <2>3. mem \in [remaining : Nat, seq : Nat \cup {-1}, mode : BOOLEAN, cpy : Seq(Nat)]
    BY <2>1
  <2>4. Len(mem.cpy) <= mem.remaining
    BY <2>1, <2>2
  <2>5. upc = "rx" /\ error = FALSE /\ mem.cpy = <<>>
    OBVIOUS
  <2> HIDE DEF Init
  <2>6. QED
    BY <2>3, <2>4, <2>5 DEF LoaderOK, UartLabel
<1>3. HostOK
  BY DEF HostOK, Phase
<1>4. RingOK
  BY EmptySound, RingAssumption DEF RingOK, EmptyRing, NoEmptyBlock, Ready, Pos, CtrlIdx
<1>5. ProgrammerOK
  <2>1. queue = <<>> /\ Len(<<>>) = 0
    BY EmptySeq
  <2>2. ~ForProgram
    BY <2>1 DEF ForProgram
  <2>3. flash_ops \in [addr : Int, size : 0 .. LOAD_BLK_SIZE, buf : BufIdx]
    BY RingAssumption DEF BufIdx
  <2>4. fpc = "idle" /\ chip_erase = FALSE /\ current = "none"
    OBVIOUS
  <2> HIDE DEF Init
  <2>5. QED
    BY <2>2, <2>3, <2>4 DEF ProgrammerOK, FlashLabel
<1>6. WorkerOK
  BY RingAssumption, FlashAssumption DEF WorkerOK, WorkerLabel, Worker, BufIdx
<1>7. DeviceOK
  BY DEF DeviceOK
<1>8. ImageOK
  BY DEF ImageOK
<1>9. QED
  BY <1>1, <1>2, <1>3, <1>4, <1>5, <1>6, <1>7, <1>8 DEF FlashInv

(* The kernel: a poll or an event is delivered.                             *)
LEMMA ServeKeeps ==
  FlashInv /\ ((\E p \in Worker : ServePoll(p)) \/ ServeEvent) => FlashInv'
<1>1. ASSUME FlashInv, NEW p \in Worker, ServePoll(p)
      PROVE  FlashInv'
  <2> USE <1>1 DEF FlashInv
  <2>1. LoaderOK' /\ HostOK' /\ RingOK' /\ ImageOK' /\ DeviceOK'
    BY LoaderFrame, HostFrame, RingFrame, ImageFrame, DeviceFrame DEF ServePoll, pipeline, device
  <2>2. KernelOK'
    BY DEF ServePoll, KernelOK, Worker, Proc
  <2>3. ProgrammerOK'
    BY DEF ServePoll, ProgrammerOK, ForProgram, programmer
  <2>4. WorkerOK'
    BY DEF ServePoll, WorkerOK, Polled
  <2>5. QED
    BY <2>1, <2>2, <2>3, <2>4
<1>2. ASSUME FlashInv, ServeEvent
      PROVE  FlashInv'
  <2> USE <1>2 DEF FlashInv
  <2>1. LoaderOK' /\ HostOK' /\ RingOK' /\ ImageOK' /\ DeviceOK'
    BY LoaderFrame, HostFrame, RingFrame, ImageFrame, DeviceFrame DEF ServeEvent, pipeline, device
  <2>2. /\ queue \in Seq(Event) /\ queue # <<>>
        /\ Head(queue) \in Event /\ Tail(queue) \in Seq(Event)
        /\ Len(Tail(queue)) = Len(queue) - 1
        /\ \A i \in 1 .. Len(Tail(queue)) : Tail(queue)[i] = queue[i + 1]
        /\ Head(queue) = queue[1] /\ 1 \in 1 .. Len(queue) /\ Len(queue) \in Nat
    BY HeadTailProperties DEF ServeEvent, KernelOK
  <2>3. KernelOK'
    BY <2>2, FlashAssumption DEF ServeEvent, KernelOK, Event, Proc, PostedEv
  <2>4. ForProgram' \/ current' = "program" => ForProgram
    BY <2>2 DEF ServeEvent, ForProgram
  <2>5. ProgrammerOK'
    BY <2>4 DEF ServeEvent, ProgrammerOK, programmer
  <2>6. ev'.ev # "POLL"
    BY <2>2 DEF ServeEvent, Event, PostedEv
  <2>7. WorkerOK'
    BY <2>6 DEF ServeEvent, WorkerOK
  <2>8. QED
    BY <2>1, <2>3, <2>5, <2>7
<1>3. QED
  BY <1>1, <1>2

-----------------------------------------------------------------------------
(* What has been received is a command, with its fields.                    *)
LEMMA CommandFields ==
  ASSUME HostOK
  PROVE  /\ packet.op = "BEGIN" => /\ packet \in Command
                                   /\ packet.size \in Nat /\ packet.offset \in Nat
         /\ packet.op = "DATA" => packet \in Command /\ packet \in DataPacket
         /\ packet.op = "END" => packet \in Command
         /\ packet.op = "ERASE" =>
              /\ packet \in Command
              /\ ~packet.chip => packet.offset \in Nat /\ packet.size \in Nat
<1>1. CASE packet = NoPacket
  <2>1. packet.op = "none"
    BY <1>1 DEF NoPacket
  <2>2. QED
    BY <2>1
<1>2. CASE packet \in Command
  <2>1. CASE packet \in [op : {"BEGIN"}, offset : Nat, size : Nat \ {0}]
    BY <1>2, <2>1
  <2>2. CASE packet \in DataPacket
    <3>1. packet.op = "DATA"
      BY <2>2 DEF DataPacket
    <3>2. QED
      BY <1>2, <2>2, <3>1
  <2>3. CASE packet \in [op : {"END"}]
    BY <1>2, <2>3
  <2>4. CASE packet \in [op : {"ERASE"}, chip : {TRUE}]
    <3>1. packet.op = "ERASE" /\ packet.chip = TRUE
      BY <2>4
    <3>2. QED
      BY <1>2, <3>1
  <2>5. CASE packet \in [op : {"ERASE"}, chip : {FALSE}, offset : Nat, size : Nat \ {0}]
    BY <1>2, <2>5
  <2>6. QED
    BY <1>2, <2>1, <2>2, <2>3, <2>4, <2>5 DEF Command
<1>3. QED
  BY <1>1, <1>2 DEF HostOK

(* One turn of the copy loop takes some of the packet, as much as fits.     *)
LEMMA CopyFits ==
  ASSUME FlashInv, CopyBlock
  PROVE  /\ Room(ring) \in 1 .. LOAD_BLK_SIZE
         /\ CopyLen \in 1 .. Room(ring) /\ CopyLen <= Len(mem.cpy)
         /\ SubSeq(mem.cpy, CopyLen + 1, Len(mem.cpy)) \in Seq(Nat)
         /\ Len(SubSeq(mem.cpy, CopyLen + 1, Len(mem.cpy))) = Len(mem.cpy) - CopyLen
<1>1. /\ ring.tail \in CtrlIdx /\ ring.ctrl[ring.tail] \in DataCtrl
      /\ ring.ctrl[ring.tail].size < LOAD_BLK_SIZE
  BY DEF FlashInv, RingOK, Sound, Rings, RestEmpty
<1>2. Room(ring) \in 1 .. LOAD_BLK_SIZE
  BY <1>1, RingAssumption DEF Room, DataCtrl
<1>3. mem.cpy \in Seq(Nat) /\ Len(mem.cpy) \in Nat \ {0}
  BY EmptySeq, LenProperties DEF FlashInv, LoaderOK, CopyBlock
<1>4. CopyLen \in 1 .. Room(ring) /\ CopyLen <= Len(mem.cpy)
  BY <1>2, <1>3, RingAssumption DEF CopyLen
<1>5. \A i \in CopyLen + 1 .. Len(mem.cpy) : mem.cpy[i] \in Nat
  BY <1>3, <1>4, RingAssumption
<1>6. CopyLen + 1 \in Int /\ Len(mem.cpy) \in Int
  BY <1>2, <1>3, <1>4
<1>7. /\ SubSeq(mem.cpy, CopyLen + 1, Len(mem.cpy)) \in Seq(Nat)
      /\ Len(SubSeq(mem.cpy, CopyLen + 1, Len(mem.cpy)))
           = IF CopyLen + 1 <= Len(mem.cpy) THEN Len(mem.cpy) - (CopyLen + 1) + 1 ELSE 0
  BY <1>5, <1>6, SubSeqProperties
<1>8. QED
  BY <1>2, <1>3, <1>4, <1>7, RingAssumption

-----------------------------------------------------------------------------
(* uart_boot_process.  What a step of it leaves alone, unless it takes a    *)
(* packet, makes a block ready or begins an image.                          *)
LEMMA UartFrame ==
  ASSUME FlashInv, UNCHANGED <<programmer, worker, dev, flash>>, RunOrYield,
         DOMAIN buf' = DOMAIN buf, \A b \in BufIdx : DOMAIN buf'[b] = DOMAIN buf[b],
         ForProgram' => ForProgram
  PROVE  ProgrammerOK' /\ WorkerOK' /\ DeviceOK'
<1>1. ProgrammerOK' /\ WorkerOK'
  BY ProgrammerFrame, WorkerFrame DEF FlashInv
<1>2. DeviceOK'
  BY DEF FlashInv, DeviceOK
<1>3. QED
  BY <1>1, <1>2

(* ... and what a step that only moves the program counter leaves alone.    *)
LEMMA UartQuiet ==
  ASSUME FlashInv, RunOrYield, UNCHANGED <<programmer, worker, dev, flash, host>>,
         UNCHANGED <<queue, cmd, mem, pipeline, packet>>,
         error' \in BOOLEAN, upc' \in UartLabel,
         upc' # "rx" => upc # "rx",
         upc' \notin {"copy", "copy_wait"} => mem.cpy = <<>>
  PROVE  FlashInv'
<1>1. KernelOK' /\ (ForProgram' => ForProgram)
  BY QuietFrame DEF FlashInv
<1>2. ProgrammerOK' /\ WorkerOK' /\ DeviceOK'
  BY <1>1, UartFrame DEF pipeline
<1>3. HostOK' /\ RingOK' /\ ImageOK'
  BY HostFrame, RingFrame, ImageFrame DEF FlashInv, HostOK, pipeline
<1>4. LoaderOK'
  BY DEF FlashInv, LoaderOK
<1>5. QED
  BY <1>1, <1>2, <1>3, <1>4 DEF FlashInv

(* A step of uart_boot_process that only moves it on keeps the invariant.   *)
LEMMA UartPcKeeps ==
  ASSUME FlashInv,
         RxOther \/ CopyTest \/ EndTest \/ EraseResume
         \/ LoopAgain("copy_wait", "copy") \/ LoopAgain("end_wait", "end")
  PROVE  FlashInv'
<1> USE DEF UartUnchanged, Uart, device, UartLabel
<1>0. error \in BOOLEAN /\ ErrorSeen \in BOOLEAN
      /\ (upc \notin {"copy", "copy_wait"} => mem.cpy = <<>>)
  BY DEF FlashInv, LoaderOK, ErrorSeen
<1>1. CASE RxOther
  BY <1>0, <1>1, RunOrYieldIs, UartQuiet DEF RxOther
<1>2. CASE CopyTest
  BY <1>0, <1>2, RunOrYieldIs, UartQuiet DEF CopyTest
<1>3. CASE EndTest
  BY <1>0, <1>3, RunOrYieldIs, UartQuiet DEF EndTest
<1>4. CASE EraseResume
  BY <1>0, <1>4, RunOrYieldIs, UartQuiet DEF EraseResume
<1>5. CASE LoopAgain("copy_wait", "copy")
  BY <1>0, <1>5, RunOrYieldIs, UartQuiet DEF LoopAgain
<1>6. CASE LoopAgain("end_wait", "end")
  BY <1>0, <1>6, RunOrYieldIs, UartQuiet DEF LoopAgain
<1>7. QED
  BY <1>1, <1>2, <1>3, <1>4, <1>5, <1>6

(* A packet is taken out of the receive buffer.                             *)
LEMMA TakenKeeps == ASSUME HostOK, UNCHANGED host, packet' = NoPacket PROVE HostOK'
  BY DEF HostOK

(* handle_flash_begin: a new image and an empty ring.                       *)
LEMMA FlashBeginKeeps == FlashInv /\ FlashBegin => FlashInv'
<1> SUFFICES ASSUME FlashInv, FlashBegin PROVE FlashInv'
  OBVIOUS
<1> USE DEF FlashBegin, Receive, UartUnchanged, Uart, device
<1>1. KernelOK' /\ (ForProgram' => ForProgram) /\ RunOrYield
  BY QuietFrame, RunOrYieldIs DEF FlashInv
<1>2. ProgrammerOK' /\ WorkerOK' /\ DeviceOK'
  BY <1>1, UartFrame
<1>3. HostOK'
  BY TakenKeeps DEF FlashInv
<1>4. RingOK'
  BY EmptySound, RingAssumption DEF RingOK, EmptyRing, NoEmptyBlock, Ready, Pos, CtrlIdx
<1>5. LoaderOK'
  <2>1. packet \in Command /\ packet.size \in Nat
    BY CommandFields DEF FlashInv
  <2>2. mem.cpy = <<>> /\ Len(mem.cpy) = 0 /\ error \in BOOLEAN
    BY EmptySeq DEF FlashInv, LoaderOK
  <2>3. mem' \in [remaining : Nat, seq : Nat \cup {-1}, mode : BOOLEAN, cpy : Seq(Nat)]
        /\ mem'.cpy = mem.cpy /\ mem'.remaining = packet.size
    BY <2>1 DEF FlashInv, LoaderOK
  <2>4. upc' = "reply" /\ cmd' = packet /\ error' = error
    OBVIOUS
  <2>5. QED
    BY <2>1, <2>2, <2>3, <2>4 DEF LoaderOK, UartLabel
<1>6. ImageOK'
  BY CommandFields DEF FlashInv, ImageOK, NewImage
<1>7. QED
  BY <1>1, <1>2, <1>3, <1>4, <1>5, <1>6 DEF FlashInv

(* handle_flash_data: what is accepted is left to copy.                     *)
LEMMA FlashDataKeeps == FlashInv /\ FlashData => FlashInv'
<1> SUFFICES ASSUME FlashInv, FlashData PROVE FlashInv'
  OBVIOUS
<1> USE DEF FlashData, Receive, UartUnchanged, Uart, device, pipeline
<1>1. KernelOK' /\ (ForProgram' => ForProgram) /\ RunOrYield
  BY QuietFrame, RunOrYieldIs DEF FlashInv
<1>2. ProgrammerOK' /\ WorkerOK' /\ DeviceOK'
  BY <1>1, UartFrame
<1>3. HostOK' /\ RingOK' /\ ImageOK'
  BY TakenKeeps, RingFrame, ImageFrame DEF FlashInv
<1>5. LoaderOK'
  <2>1. packet \in Command /\ packet.seq \in Nat /\ packet.units \in Seq(Nat)
    BY CommandFields DEF FlashInv, DataPacket
  <2>2. mem.cpy = <<>> /\ error \in BOOLEAN /\ Len(<<>>) = 0 /\ <<>> \in Seq(Nat)
        /\ mem \in [remaining : Nat, seq : Nat \cup {-1}, mode : BOOLEAN, cpy : Seq(Nat)]
    BY EmptySeq DEF FlashInv, LoaderOK
  <2>3. CASE res' = "OK"
    <3>1. Len(packet.units) <= mem.remaining
      BY <2>1, <2>2, <2>3 DEF DataResult
    <3>2. ToCopy(packet) \in Seq(Nat) /\ Len(ToCopy(packet)) <= mem.remaining
      BY <2>1, <2>2, <3>1 DEF ToCopy
    <3>3. mem' \in [remaining : Nat, seq : Nat \cup {-1}, mode : BOOLEAN, cpy : Seq(Nat)]
          /\ mem'.cpy = ToCopy(packet) /\ mem'.remaining = mem.remaining
      BY <2>1, <2>2, <2>3, <3>2
    <3>4. upc' = "copy" /\ cmd' = packet /\ error' = error
      BY <2>3
    <3>5. QED
      BY <2>1, <2>2, <3>2, <3>3, <3>4 DEF LoaderOK, UartLabel
  <2>4. CASE res' # "OK"
    <3>1. upc' = "reply" /\ mem' = mem /\ cmd' = packet /\ error' = error
      BY <2>4
    <3>2. QED
      BY <2>1, <2>2, <3>1 DEF LoaderOK, UartLabel
  <2>5. QED
    BY <2>3, <2>4
<1>6. QED
  BY <1>1, <1>2, <1>3, <1>5 DEF FlashInv

(* handle_flash_finish keeps the invariant.                                 *)
LEMMA FlashEndKeeps == FlashInv /\ FlashEnd => FlashInv'
<1> SUFFICES ASSUME FlashInv, FlashEnd PROVE FlashInv'
  OBVIOUS
<1> USE DEF FlashEnd, Receive, UartUnchanged, Uart, device, pipeline
<1>1. KernelOK' /\ (ForProgram' => ForProgram) /\ RunOrYield
  BY QuietFrame, RunOrYieldIs DEF FlashInv
<1>2. ProgrammerOK' /\ WorkerOK' /\ DeviceOK'
  BY <1>1, UartFrame
<1>3. HostOK' /\ RingOK' /\ ImageOK'
  BY TakenKeeps, RingFrame, ImageFrame DEF FlashInv
<1>5. LoaderOK'
  <2>1. packet \in Command
    BY CommandFields DEF FlashInv
  <2>2. mem.cpy = <<>> /\ error \in BOOLEAN /\ Len(<<>>) = 0
        /\ mem \in [remaining : Nat, seq : Nat \cup {-1}, mode : BOOLEAN, cpy : Seq(Nat)]
    BY EmptySeq DEF FlashInv, LoaderOK
  <2>3. mem' \in [remaining : Nat, seq : Nat \cup {-1}, mode : BOOLEAN, cpy : Seq(Nat)]
        /\ mem'.cpy = mem.cpy /\ mem'.remaining = 1
    BY <2>2
  <2>4. upc' \in {"reply", "end"} /\ cmd' = packet /\ error' = error
    OBVIOUS
  <2>5. QED
    BY <2>1, <2>2, <2>3, <2>4 DEF LoaderOK, UartLabel
<1>6. QED
  BY <1>1, <1>2, <1>3, <1>5 DEF FlashInv

(* The erase command, for a region or the chip, keeps the invariant.        *)
LEMMA FlashEraseKeeps == FlashInv /\ FlashErase => FlashInv'
<1> SUFFICES ASSUME FlashInv, FlashErase PROVE FlashInv'
  OBVIOUS
<1> USE DEF FlashErase, Receive, UartUnchanged, Uart, device
<1>0. RunOrYield
  BY RunOrYieldIs
<1>1. KernelOK' /\ (ForProgram' => ForProgram)
  <2>1. \E d \in Int : queue' = Post(queue, "flash", "ERASE", d)
    BY DEF Chip
  <2>2. QED
    BY <1>0, <2>1, PostFrame DEF FlashInv, Proc, PostedEv
<1>2. ProgrammerOK' /\ WorkerOK' /\ DeviceOK'
  BY <1>0, <1>1, UartFrame
<1>3. HostOK' /\ RingOK'
  BY TakenKeeps, RingFrame DEF FlashInv
<1>4. ImageOK'
  <2>1. packet \in Command /\ packet.op = "ERASE"
    BY CommandFields DEF FlashInv
  <2>2. ~packet.chip => packet.offset \in Int /\ packet.size \in Int
    BY CommandFields DEF FlashInv
  <2>3. QED
    BY <2>2 DEF FlashInv, ImageOK
<1>5. LoaderOK'
  <2>1. packet \in Command
    BY CommandFields DEF FlashInv
  <2>2. mem.cpy = <<>> /\ error \in BOOLEAN
    BY DEF FlashInv, LoaderOK
  <2>3. upc' = "erase_wait" /\ cmd' = packet /\ error' = error /\ mem' = mem
    OBVIOUS
  <2>5. QED
    BY <2>1, <2>2, <2>3 DEF FlashInv, LoaderOK, UartLabel
<1>6. QED
  BY <1>1, <1>2, <1>3, <1>4, <1>5 DEF FlashInv

(* A turn of the copy loop fills a free block within its buffer.            *)
LEMMA CopyBlockKeeps == FlashInv /\ CopyBlock => FlashInv'
<1> SUFFICES ASSUME FlashInv, CopyBlock PROVE FlashInv'
  OBVIOUS
<1> USE DEF UartUnchanged, Uart, device
<1>0. RunOrYield
  BY RunOrYieldIs DEF CopyBlock
<1>1. KernelOK' /\ (ForProgram' => ForProgram)
  <2>1. ring.tail \in Int
    BY RingAssumption DEF FlashInv, RingOK, Sound, Rings, CtrlIdx
  <2>2. CASE queue' = queue
    BY <1>0, <2>2, QuietFrame DEF FlashInv
  <2>3. CASE queue' = Post(queue, "flash", "BUF_RDY", ring.tail)
    BY <1>0, <2>1, <2>3, PostFrame DEF FlashInv, Proc, PostedEv
  <2>4. QED
    BY <2>2, <2>3 DEF CopyBlock, Wake
<1>2. ProgrammerOK' /\ WorkerOK' /\ DeviceOK'
  <2>1. \A b \in BufIdx : DOMAIN buf'[b] = DOMAIN buf[b]
    BY DEF CopyBlock
  <2>2. QED
    BY <1>0, <1>1, <2>1, UartFrame DEF CopyBlock
<1>3. HostOK' /\ ImageOK'
  BY HostFrame, ImageFrame DEF FlashInv, CopyBlock, outside
<1>4. RingOK'
  BY CopyFits, FilledSound, FilledNotEmpty DEF FlashInv, RingOK, CopyBlock
<1>5. LoaderOK'
  <2>1. /\ upc' = "copy" /\ upc = "copy" /\ cmd' = cmd /\ error' = error
        /\ mem' = [mem EXCEPT !.remaining = @ - CopyLen,
                              !.cpy = SubSeq(@, CopyLen + 1, Len(@))]
    BY DEF CopyBlock
  <2>2. /\ mem \in [remaining : Nat, seq : Nat \cup {-1}, mode : BOOLEAN, cpy : Seq(Nat)]
        /\ Len(mem.cpy) <= mem.remaining /\ Len(mem.cpy) \in Nat
    BY LenProperties DEF FlashInv, LoaderOK
  <2>3. CopyLen \in Nat /\ CopyLen <= mem.remaining
    BY <2>2, CopyFits
  <2>9. mem' = [remaining |-> mem.remaining - CopyLen, seq |-> mem.seq, mode |-> mem.mode,
                cpy |-> SubSeq(mem.cpy, CopyLen + 1, Len(mem.cpy))]
    BY <2>1, <2>2
  <2>4. /\ mem'.remaining = mem.remaining - CopyLen /\ mem'.remaining \in Nat
        /\ mem'.cpy = SubSeq(mem.cpy, CopyLen + 1, Len(mem.cpy))
        /\ mem'.seq = mem.seq /\ mem'.mode = mem.mode
    BY <2>2, <2>3, <2>9
  <2>5. mem'.cpy \in Seq(Nat) /\ Len(mem'.cpy) = Len(mem.cpy) - CopyLen
    BY <2>4, CopyFits
  <2>6. mem' \in [remaining : Nat, seq : Nat \cup {-1}, mode : BOOLEAN, cpy : Seq(Nat)]
    BY <2>2, <2>4, <2>5, <2>9
  <2>7. Len(mem'.cpy) <= mem'.remaining
    BY <2>2, <2>3, <2>4, <2>5
  <2>8. QED
    BY <2>1, <2>6, <2>7 DEF FlashInv, LoaderOK
<1>6. QED
  BY <1>1, <1>2, <1>3, <1>4, <1>5 DEF FlashInv

(* The reply, and what the host makes of it, keep the invariant.            *)
LEMMA ReplyKeeps == FlashInv /\ Reply => FlashInv'
<1> SUFFICES ASSUME FlashInv, Reply PROVE FlashInv'
  OBVIOUS
<1> USE DEF Reply, Uart, device, pipeline
<1>1. KernelOK' /\ (ForProgram' => ForProgram) /\ RunOrYield
  BY QuietFrame, RunOrYieldIs DEF FlashInv
<1>2. ProgrammerOK' /\ WorkerOK' /\ DeviceOK' /\ RingOK' /\ ImageOK'
  BY <1>1, UartFrame, RingFrame, ImageFrame DEF FlashInv
<1>3. cmd \in Command
  BY DEF FlashInv, LoaderOK
<1>5. HostOK'
  <2>0. /\ host \in [phase : Phase, gen : Nat, offset : Nat, size : Nat, sent : Nat,
                     seq : Nat, last : {NoPacket} \cup DataPacket, resends : Nat]
        /\ packet' \in {NoPacket} \cup Command
    BY DEF FlashInv, HostOK
  <2>5. cmd.op = "DATA" => cmd \in DataPacket /\ Len(cmd.units) \in Nat
    BY <1>3, LenProperties DEF Command, DataPacket
  <2>1. CASE host' = Accepted
    <3> DEFINE ph == CASE cmd.op = "BEGIN" -> "data"
                       [] cmd.op = "DATA"  -> "data"
                       [] cmd.op = "END"   -> "done"
                       [] cmd.op = "ERASE" -> IF cmd.chip THEN "chip_erased" ELSE "erased"
               sn == IF cmd.op = "DATA" THEN host.sent + Len(cmd.units) ELSE host.sent
               sq == IF cmd.op = "DATA" THEN host.seq + 1 ELSE host.seq
    <3>1. Accepted = [host EXCEPT !.phase = ph, !.sent = sn, !.seq = sq]
      BY DEF Accepted
    <3>2. cmd.op \in {"BEGIN", "DATA", "END", "ERASE"}
      BY <1>3 DEF Command, DataPacket
    <3>3. ph \in Phase \ {"resend"}
      BY <3>2 DEF Phase
    <3>4. sn \in Nat /\ sq \in Nat
      <4>1. host.sent \in Nat /\ host.seq \in Nat
        BY <2>0
      <4>2. QED
        BY <2>5, <4>1
    <3> HIDE DEF ph, sn, sq
    <3>5. QED
      BY <2>0, <2>1, <3>1, <3>3, <3>4 DEF HostOK
  <2>2. CASE host' = [host EXCEPT !.phase = "stopped"]
    BY <2>0, <2>2 DEF HostOK, Phase
  <2>3. CASE cmd.op = "DATA"
             /\ host' = [host EXCEPT !.phase = "resend", !.resends = @ + 1, !.last = cmd]
    <3>1. host' = [phase |-> "resend", gen |-> host.gen, offset |-> host.offset,
                   size |-> host.size, sent |-> host.sent, seq |-> host.seq,
                   last |-> cmd, resends |-> host.resends + 1]
      BY <2>0, <2>3
    <3>2. /\ host.gen \in Nat /\ host.offset \in Nat /\ host.size \in Nat
          /\ host.sent \in Nat /\ host.seq \in Nat /\ host.resends + 1 \in Nat
      BY <2>0
    <3>3. cmd \in DataPacket
      BY <2>3, <2>5
    <3>4. QED
      BY <2>0, <3>1, <3>2, <3>3 DEF HostOK, Phase
  <2>4. QED
    BY <2>1, <2>2, <2>3
<1>6. LoaderOK'
  BY DEF FlashInv, LoaderOK, UartLabel
<1>7. QED
  BY <1>1, <1>2, <1>5, <1>6 DEF FlashInv

(* Every step of uart_boot_process keeps the invariant.                     *)
LEMMA UartKeeps == FlashInv /\ UartStep => FlashInv'
  BY UartPcKeeps, FlashBeginKeeps, FlashDataKeeps, FlashEndKeeps, FlashEraseKeeps,
     CopyBlockKeeps, ReplyKeeps DEF UartStep

-----------------------------------------------------------------------------
(* flash_prog_process.  What a step of it leaves alone.                     *)
LEMMA FlashFrame ==
  ASSUME FlashInv, FlashUnchanged, RunOrYield
  PROVE  LoaderOK' /\ HostOK' /\ WorkerOK' /\ DeviceOK'
  BY LoaderFrame, HostFrame, WorkerFrame, DeviceFrame DEF FlashInv, FlashUnchanged, device

(* A step that takes no new block.                                          *)
LEMMA SameBlock ==
  ASSUME FlashInv, Flash(fpc), RunOrYield,
         fpc' \in FlashLabel, chip_erase' \in BOOLEAN,
         flash_ops' = flash_ops \/ \E a \in Int : flash_ops' = [flash_ops EXCEPT !.addr = a],
         fpc' = "sector_wait" => fpc = "sector_wait",
         ForProgram' => ForProgram \/ fpc = "sector_wait"
  PROVE  ProgrammerOK'
<1>1. flash_ops' \in [addr : Int, size : 0 .. LOAD_BLK_SIZE, buf : BufIdx]
      /\ flash_ops'.size = flash_ops.size
  BY DEF FlashInv, ProgrammerOK
<1>2. current' # "program"
  BY DEF Flash, RunOrYield
<1>3. QED
  BY <1>1, <1>2 DEF FlashInv, ProgrammerOK

(* The kernel's part, whether the step posts an event or not.               *)
LEMMA FlashPosts ==
  ASSUME FlashInv, RunOrYield,
         \/ UNCHANGED queue
         \/ \E p \in Proc, e \in PostedEv, d \in Int :
              queue' = Post(queue, p, e, d) /\ (p = "program" => fpc = "sector_wait")
  PROVE  KernelOK' /\ (ForProgram' => ForProgram \/ fpc = "sector_wait")
<1>1. CASE UNCHANGED queue
  BY <1>1, QuietFrame DEF FlashInv
<1>2. ASSUME NEW p \in Proc, NEW e \in PostedEv, NEW d \in Int,
             queue' = Post(queue, p, e, d), p = "program" => fpc = "sector_wait"
      PROVE  KernelOK' /\ (ForProgram' => ForProgram \/ fpc = "sector_wait")
  BY <1>2, PostFrame DEF FlashInv
<1>3. QED
  BY <1>1, <1>2

(* The labels of an erasure, of the chip or of a region.                    *)
LEMMA EraseLabelsKeep ==
  ASSUME FlashInv,
         FlashIdle \/ ChipErase \/ ChipErased \/ RegionErase \/ RegionErased
         \/ RegionDone \/ Drained
  PROVE  FlashInv'
<1>0. ImageOK /\ ProgrammerOK /\ fpc \in FlashLabel
  BY DEF FlashInv, ProgrammerOK
<1>1. Flash(fpc) /\ FlashUnchanged /\ RunOrYield /\ UNCHANGED ring
  BY RunOrYieldIs DEF FlashIdle, ChipErase, ChipErased, RegionErase, RegionErased,
     RegionDone, Drained, Flash
<1>2. LoaderOK' /\ HostOK' /\ WorkerOK' /\ DeviceOK' /\ RingOK'
  BY <1>1, FlashFrame, RingFrame DEF FlashInv
<1>3. fpc' \in FlashLabel \ {"sector_wait"} /\ chip_erase' \in BOOLEAN
  BY <1>0 DEF FlashIdle, ChipErase, ChipErased, RegionErase, RegionErased, RegionDone,
     Drained, FlashLabel, RegionLabel, ProgrammerOK
<1>4. ImageOK'
  <2>1. CASE ChipErased
    <3>1. \/ flash_prog' = flash_prog
          \/ flash_prog' = [offset |-> flash_prog.offset, total |-> flash_prog.total,
                            erase_size |-> flash_prog.total, cnt |-> 0]
      BY <1>0, <2>1 DEF ChipErased, ImageOK
    <3>2. QED
      BY <1>0, <3>1 DEF ImageOK
  <2>2. CASE RegionErased
    BY <1>0, <2>2 DEF RegionErased, ImageOK
  <2>3. CASE FlashIdle \/ ChipErase \/ RegionErase \/ RegionDone \/ Drained
    BY <1>0, <2>3, ImageFrame DEF FlashIdle, ChipErase, RegionErase, RegionDone, Drained
  <2>4. QED
    BY <2>1, <2>2, <2>3
<1>5. \/ UNCHANGED queue
      \/ \E p \in Proc, e \in PostedEv, d \in Int :
           queue' = Post(queue, p, e, d) /\ (p = "program" => fpc = "sector_wait")
  BY DEF FlashIdle, ChipErase, ChipErased, RegionErase, RegionErased, RegionDone,
     Drained, Proc, PostedEv, Worker
<1>6. flash_ops' = flash_ops \/ \E a \in Int : flash_ops' = [flash_ops EXCEPT !.addr = a]
  <2>1. /\ flash_prog.offset \in Int /\ 0 \in Int
        /\ flash_prog.offset + flash_prog.erase_size \in Int
    BY <1>0 DEF ImageOK
  <2>2. CASE FlashIdle
    BY <2>1, <2>2 DEF FlashIdle
  <2>3. CASE ChipErased
    BY <2>1, <2>3 DEF ChipErased
  <2>4. CASE RegionErased
    BY <2>1, <2>4 DEF RegionErased
  <2>5. CASE ChipErase \/ RegionErase \/ RegionDone \/ Drained
    BY <2>5 DEF ChipErase, RegionErase, RegionDone, Drained
  <2>6. QED
    BY <2>2, <2>3, <2>4, <2>5
<1>7. KernelOK' /\ (ForProgram' => ForProgram \/ fpc = "sector_wait")
  BY <1>1, <1>5, FlashPosts
<1>8. ProgrammerOK'
  BY <1>1, <1>3, <1>6, <1>7, SameBlock
<1>9. QED
  BY <1>2, <1>4, <1>7, <1>8 DEF FlashInv

(* The wait for the erasure, or the programming, of a block; the ring is    *)
(* left alone or its oldest block is freed.                                 *)
LEMMA BlockWaitsKeep ==
  ASSUME FlashInv, SectorErased \/ BlockProgrammed
  PROVE  FlashInv'
<1>0. ImageOK /\ ProgrammerOK /\ RingOK
  BY DEF FlashInv
<1>1. Flash(fpc) /\ FlashUnchanged /\ RunOrYield
  BY RunOrYieldIs DEF SectorErased, BlockProgrammed, Flash, WaitOn, BlockOver
<1>2. LoaderOK' /\ HostOK' /\ WorkerOK' /\ DeviceOK'
  BY <1>1, FlashFrame
<1>3. UNCHANGED ring \/ ring' = SetBufFree(ring)
  BY DEF SectorErased, BlockProgrammed, WaitOn, BlockOver
<1>4. RingOK'
  <2>1. CASE UNCHANGED ring
    BY <1>0, <2>1, RingFrame
  <2>2. CASE ring' = SetBufFree(ring) /\ InProcess(ring)
    BY <1>0, <2>2, SetBufFreeSound, FreedNotEmpty DEF RingOK
  <2>3. CASE ring' = SetBufFree(ring) /\ ~InProcess(ring)
    BY <1>0, <2>3, RingFrame DEF SetBufFree
  <2>4. QED
    BY <1>3, <2>1, <2>2, <2>3
<1>5. /\ fpc' \in FlashLabel
      /\ fpc' = "sector_wait" => fpc = "sector_wait"
      /\ chip_erase' \in BOOLEAN /\ flash_ops' = flash_ops
  BY <1>0 DEF SectorErased, BlockProgrammed, WaitOn, BlockOver, FlashLabel, ProgrammerOK
<1>6. ImageOK'
  BY <1>0 DEF SectorErased, BlockProgrammed, ImageOK
<1>7. \/ UNCHANGED queue
      \/ \E p \in Proc, e \in PostedEv, d \in Int :
           queue' = Post(queue, p, e, d) /\ (p = "program" => fpc = "sector_wait")
  BY DEF SectorErased, BlockProgrammed, WaitOn, BlockOver, BlockEvent, Flash, Proc,
     PostedEv, Worker
<1>8. KernelOK' /\ (ForProgram' => ForProgram \/ fpc = "sector_wait")
  BY <1>1, <1>7, FlashPosts
<1>9. ProgrammerOK'
  BY <1>1, <1>5, <1>8, SameBlock
<1>10. QED
  BY <1>2, <1>4, <1>6, <1>8, <1>9 DEF FlashInv

(* The next block is one that is ready, so there is something to program.   *)
LEMMA NextBlockKeeps == FlashInv /\ NextBlock => FlashInv'
<1> SUFFICES ASSUME FlashInv, NextBlock PROVE FlashInv'
  OBVIOUS
<1>1. FlashUnchanged /\ RunOrYield /\ UNCHANGED <<ring, flash_prog>> /\ current' # "program"
  BY RunOrYieldIs DEF NextBlock, Yield
<1>2. LoaderOK' /\ HostOK' /\ WorkerOK' /\ DeviceOK' /\ RingOK' /\ ImageOK'
  BY <1>1, FlashFrame, RingFrame, ImageFrame DEF FlashInv
<1>3. KernelOK'
  BY <1>1, PostFrame DEF NextBlock, FlashInv, Proc, PostedEv, Worker
<1>4. /\ ring.head \in CtrlIdx /\ ring.ctrl[ring.head] \in DataCtrl
      /\ ring.ctrl[ring.head].size > 0
  <2>1. ring.head \in CtrlIdx /\ ring.tail \in CtrlIdx /\ ring.head # ring.tail
        /\ ring.ctrl[ring.head] \in DataCtrl
    BY DEF FlashInv, RingOK, Sound, Rings, NextBlock, InProcess
  <2>2. Ready(ring, ring.head)
    BY <2>1, RingAssumption DEF Ready, Pos, CtrlIdx
  <2>3. QED
    BY <2>1, <2>2 DEF FlashInv, RingOK, NoEmptyBlock
<1>5. flash_prog.offset + LOAD_BLK_SIZE * flash_prog.cnt \in Int
  <2>1. flash_prog.offset \in Int /\ flash_prog.cnt \in Int /\ LOAD_BLK_SIZE \in Int
    BY RingAssumption DEF FlashInv, ImageOK
  <2>2. LOAD_BLK_SIZE * flash_prog.cnt \in Int
    BY <2>1
  <2>3. QED
    BY <2>1, <2>2
<1>6. ProgrammerOK'
  <2>1. flash_ops' \in [addr : Int, size : 0 .. LOAD_BLK_SIZE, buf : BufIdx]
        /\ flash_ops'.size > 0
    BY <1>4, <1>5 DEF NextBlock, DataCtrl
  <2>2. fpc' \in FlashLabel /\ chip_erase' \in BOOLEAN
    BY DEF NextBlock, FlashLabel
  <2>3. QED
    BY <2>1, <2>2 DEF ProgrammerOK
<1>7. QED
  BY <1>2, <1>3, <1>6 DEF FlashInv

(* Every step of flash_prog_process keeps the invariant.                    *)
LEMMA FlashKeeps == FlashInv /\ FlashStep => FlashInv'
  BY EraseLabelsKeep, BlockWaitsKeep, NextBlockKeeps DEF FlashStep

-----------------------------------------------------------------------------
(* The erase and the program process.  What a step leaves alone.            *)
LEMMA WorkFrame ==
  ASSUME FlashInv, WorkerUnchanged
  PROVE  LoaderOK' /\ HostOK' /\ RingOK'
  BY LoaderFrame, HostFrame, RingFrame DEF FlashInv, WorkerUnchanged

(* The four ways a step of a worker ends: on it goes with nothing said to   *)
(* others, again after a poll, or CONTINUE for flash_prog_process.          *)
WorkEnds(t) ==
  \/ Run /\ UNCHANGED queue
  \/ polled' = polled \cup {t} /\ current' = "none" /\ UNCHANGED <<queue, turn, ev>>
  \/ Yield /\ \E ret \in {0, -1} : queue' = Post(queue, "flash", "CONTINUE", ret)

(* A worker's step that posts at most its end keeps the kernel in order.    *)
LEMMA WorkKernel ==
  ASSUME FlashInv, NEW t \in Worker, WorkEnds(t), UNCHANGED programmer
  PROVE  KernelOK' /\ ProgrammerOK'
<1>1. CASE Run /\ UNCHANGED queue
  BY <1>1, RunOrYieldIs, QuietFrame, ProgrammerFrame DEF FlashInv
<1>2. CASE polled' = polled \cup {t} /\ current' = "none" /\ UNCHANGED <<queue, turn, ev>>
  BY <1>2 DEF FlashInv, KernelOK, ProgrammerOK, ForProgram, programmer
<1>3. ASSUME Yield, NEW ret \in {0, -1}, queue' = Post(queue, "flash", "CONTINUE", ret)
      PROVE  KernelOK' /\ ProgrammerOK'
  <2>1. KernelOK' /\ (ForProgram' => ForProgram)
    BY <1>3, RunOrYieldIs, PostFrame DEF FlashInv, Proc, PostedEv
  <2>2. QED
    BY <1>3, <2>1, RunOrYieldIs, ProgrammerFrame DEF FlashInv
<1>4. QED
  BY <1>1, <1>2, <1>3 DEF WorkEnds

WorkerState ==
  [pc : WorkerLabel, addr : Int, remain : 0 .. LOAD_BLK_SIZE, buf : BufIdx,
   pos : 0 .. LOAD_BLK_SIZE - 1, j : 0 .. Timeout - 1]

(* A step that moves the program counter, and perhaps counts a read, of a   *)
(* process that is in its loop.                                             *)
LEMMA WorkerMoves ==
  ASSUME FlashInv, NEW t \in Worker, current = t, worker[t].pc # "idle", WorkEnds(t),
         NEW label \in WorkerLabel, NEW j \in 0 .. Timeout - 1,
         worker' = [worker EXCEPT ![t].pc = label, ![t].j = j]
  PROVE  WorkerOK'
<1>1. /\ worker \in [Worker -> WorkerState]
      /\ worker["program"].pos + worker["program"].remain <= LOAD_BLK_SIZE
      /\ \/ worker["program"].pc # "idle" \/ "program" \in polled
         => worker["program"].remain > 0
  BY DEF FlashInv, WorkerOK, WorkerState
<1>2. worker' \in [Worker -> WorkerState]
  BY <1>1 DEF WorkerState
<1>3. \A u \in Worker : /\ worker'[u].pos = worker[u].pos
                        /\ worker'[u].remain = worker[u].remain
                        /\ u # t => worker'[u].pc = worker[u].pc
  BY <1>1 DEF WorkerState
<1>4. "program" \in Worker
  BY DEF Worker
<1>5. CASE t = "program"
  BY <1>1, <1>2, <1>3, <1>4, <1>5 DEF WorkerOK, WorkerState
<1>6. CASE t # "program"
  <2>1. (current' = "program" => current = "program") /\ ("program" \in polled' => "program" \in polled)
    BY <1>6 DEF WorkEnds, Run, Yield
  <2>2. current' # "program"
    BY <1>6 DEF WorkEnds, Run, Yield
  <2>3. QED
    BY <1>1, <1>2, <1>3, <1>4, <1>6, <2>1, <2>2 DEF WorkerOK, WorkerState
<1>7. QED
  BY <1>5, <1>6

(* The steps that only move a worker on.                                    *)
LEMMA WorkerMovesKeep ==
  ASSUME FlashInv, NEW t \in Worker, current = t, worker[t].pc # "idle", WorkEnds(t),
         NEW label \in WorkerLabel, NEW j \in 0 .. Timeout - 1,
         worker' = [worker EXCEPT ![t].pc = label, ![t].j = j],
         WorkerUnchanged, DeviceOK', ImageOK'
  PROVE  FlashInv'
  BY WorkFrame, WorkKernel, WorkerMoves DEF FlashInv, WorkerUnchanged

(* Goto leaves the count of the reads alone.                                *)
LEMMA GotoIs ==
  ASSUME FlashInv, NEW t \in Worker, NEW label \in WorkerLabel, Goto(t, label)
  PROVE  /\ worker[t].j \in 0 .. Timeout - 1
         /\ worker' = [worker EXCEPT ![t].pc = label, ![t].j = worker[t].j]
<1>1. worker \in [Worker -> WorkerState]
  BY DEF FlashInv, WorkerOK, WorkerState
<1>2. worker[t] \in WorkerState /\ worker[t].j \in 0 .. Timeout - 1
  BY <1>1 DEF WorkerState
<1>3. [worker[t] EXCEPT !.pc = label] = [[worker[t] EXCEPT !.pc = label] EXCEPT !.j = worker[t].j]
  BY <1>2 DEF WorkerState
<1>4. QED
  BY <1>1, <1>2, <1>3 DEF Goto, WorkerState

(* The three ways a worker's step ends.                                     *)
LEMMA EndsIs ==
  ASSUME NEW t \in Worker
  PROVE  /\ \A ret \in {0, -1} : Finish(t, ret) => WorkEnds(t) /\ Goto(t, "idle")
         /\ \A label : GoOn(t, label) => WorkEnds(t) /\ Goto(t, label)
         /\ \A label : PollAgain(t, label) => WorkEnds(t) /\ Goto(t, label)
         /\ Run /\ UNCHANGED queue => WorkEnds(t)
  BY DEF Finish, GoOn, PollAgain, WorkEnds

(* A worker that only moves on keeps the invariant.                         *)
LEMMA GotoKeeps ==
  ASSUME FlashInv, NEW t \in Worker, current = t, worker[t].pc # "idle", WorkEnds(t),
         NEW label \in WorkerLabel, Goto(t, label), WorkerUnchanged, DeviceOK', ImageOK'
  PROVE  FlashInv'
<1>1. /\ worker[t].j \in 0 .. Timeout - 1
      /\ worker' = [worker EXCEPT ![t].pc = label, ![t].j = worker[t].j]
  BY GotoIs, Zenon
<1>2. \A j \in 0 .. Timeout - 1 :
        worker' = [worker EXCEPT ![t].pc = label, ![t].j = j] => FlashInv'
  BY WorkerMovesKeep, Zenon
<1>3. QED
  BY <1>1, <1>2, Zenon

(* A worker that ends, with or without an error, keeps the invariant.       *)
LEMMA FinishKeeps ==
  ASSUME FlashInv, NEW t \in Worker, current = t, worker[t].pc # "idle",
         NEW ret \in {0, -1}, Finish(t, ret), WorkerUnchanged, DeviceOK', ImageOK'
  PROVE  FlashInv'
  BY GotoKeeps, EndsIs DEF WorkerLabel

(* A read of the write-enable latch keeps the invariant.                    *)
LEMMA ReadLatchKeeps ==
  ASSUME FlashInv, NEW t \in Worker, ReadLatch(t)
  PROVE  FlashInv'
<1>1. WorkerUnchanged /\ UNCHANGED <<flash_prog, dev, flash, buf>> /\ Working(t, "read_latch")
  BY DEF ReadLatch, WorkerUnchanged
<1>2. DeviceOK' /\ ImageOK'
  BY <1>1, DeviceFrame, ImageFrame DEF FlashInv
<1>3. PICK label \in WorkerLabel : WorkEnds(t) /\ Goto(t, label)
  <2>1. "command" \in WorkerLabel /\ "latch_wait" \in WorkerLabel /\ "idle" \in WorkerLabel
    BY DEF WorkerLabel
  <2>2. GoOn(t, "command") \/ PollAgain(t, "latch_wait") \/ Finish(t, -1)
    BY DEF ReadLatch
  <2>3. QED
    BY <2>1, <2>2, EndsIs
<1>4. QED
  BY <1>1, <1>2, <1>3, GotoKeeps DEF Working

(* A worker that is polled again keeps the invariant.                       *)
LEMMA ResumeKeeps ==
  ASSUME FlashInv, NEW t \in Worker, NEW wait \in WorkerLabel \ {"idle"},
         NEW read \in WorkerLabel, Resume(t, wait, read)
  PROVE  FlashInv'
<1>1. /\ WorkerUnchanged /\ UNCHANGED <<flash_prog, dev, flash, buf>>
      /\ current = t /\ worker[t].pc # "idle"
  BY DEF Resume, WorkerUnchanged, device, Working
<1>2. DeviceOK' /\ ImageOK'
  BY <1>1, DeviceFrame, ImageFrame DEF FlashInv
<1>3. worker \in [Worker -> WorkerState]
  BY DEF FlashInv, WorkerOK, WorkerState
<1>4. CASE MoreReads(t)
  <2>1. worker[t].j + 1 \in 0 .. Timeout - 1
    BY <1>3, <1>4, FlashAssumption DEF MoreReads, WorkerState
  <2>2. worker' = [worker EXCEPT ![t].pc = read, ![t].j = worker[t].j + 1]
    BY <1>3, <1>4 DEF Resume, WorkerState
  <2>3. WorkEnds(t)
    BY <1>4 DEF Resume, WorkEnds
  <2>4. QED
    BY <1>1, <1>2, <2>1, <2>2, <2>3, WorkerMovesKeep
<1>5. CASE ~MoreReads(t)
  BY <1>1, <1>2, <1>5, FinishKeeps DEF Resume
<1>6. QED
  BY <1>4, <1>5

(* A command for the device, or the wait until it is done.                  *)
LEMMA ObeyKeeps ==
  ASSUME DeviceOK, UNCHANGED buf, NEW new, DOMAIN new = Addr,
         Obey(new) \/ UNCHANGED <<dev, flash>>
  PROVE  DeviceOK'
  BY DEF DeviceOK, Obey

(* The write-enable command keeps the invariant.                            *)
LEMMA WriteEnableKeeps ==
  ASSUME FlashInv, NEW t \in Worker, WriteEnable(t)
  PROVE  FlashInv'
<1>1. /\ WorkerUnchanged /\ UNCHANGED <<flash_prog, flash, buf>>
      /\ current = t /\ worker[t].pc # "idle"
  BY DEF WriteEnable, WorkerUnchanged, Working
<1>2. dev' \in {"ready", "latched", "busy"}
  BY DEF WriteEnable, FlashInv, DeviceOK
<1>3. DeviceOK' /\ ImageOK'
  BY <1>1, <1>2, ImageFrame DEF FlashInv, DeviceOK
<1>4. CASE Finish(t, -1)
  BY <1>1, <1>3, <1>4, FinishKeeps
<1>5. CASE worker' = [worker EXCEPT ![t].pc = "read_latch", ![t].j = 1] /\ Run /\ UNCHANGED queue
  <2>1. 1 \in 0 .. Timeout - 1 /\ "read_latch" \in WorkerLabel /\ WorkEnds(t)
    BY <1>5, FlashAssumption DEF WorkerLabel, WorkEnds
  <2>2. QED
    BY <1>1, <1>3, <1>5, <2>1, WorkerMovesKeep
<1>6. QED
  BY <1>4, <1>5 DEF WriteEnable

(* erase_process begins with the address it was given.                      *)
LEMMA EraseStartKeeps == FlashInv /\ EraseStart => FlashInv'
<1> SUFFICES ASSUME FlashInv, EraseStart PROVE FlashInv'
  OBVIOUS
<1>1. /\ WorkerUnchanged /\ UNCHANGED <<flash_prog, dev, flash, buf>> /\ "erase" \in Worker
      /\ current = "erase" /\ UNCHANGED programmer
  BY DEF EraseStart, WorkerUnchanged, device, Working, Worker
<1>2. DeviceOK' /\ ImageOK' /\ LoaderOK' /\ HostOK' /\ RingOK'
  BY <1>1, DeviceFrame, ImageFrame, WorkFrame DEF FlashInv
<1>3. WorkEnds("erase") /\ polled' = polled /\ current' # "program"
  BY <1>1 DEF EraseStart, WorkEnds, Finish, Yield, Run
<1>4. KernelOK' /\ ProgrammerOK'
  BY <1>1, <1>3, WorkKernel
<1>5. WorkerOK'
  <2>1. worker \in [Worker -> WorkerState] /\ "program" \in Worker
    BY DEF FlashInv, WorkerOK, WorkerState, Worker
  <2>2. \E l \in WorkerLabel, a \in Int :
          worker' = [worker EXCEPT !["erase"].addr = a, !["erase"].pc = l]
    <3>1. worker["erase"].addr \in Int /\ flash_ops.addr \in Int
      BY <1>1, <2>1 DEF WorkerState, FlashInv, ProgrammerOK
    <3>2. CASE Finish("erase", -1)
      <4>1. worker' = [worker EXCEPT !["erase"].addr = worker["erase"].addr, !["erase"].pc = "idle"]
        BY <1>1, <2>1, <3>2 DEF Finish, Goto, WorkerState
      <4>2. QED
        BY <3>1, <4>1 DEF WorkerLabel
    <3>3. CASE ~Finish("erase", -1)
      BY <3>1, <3>3 DEF EraseStart, WorkerLabel
    <3>4. QED
      BY <3>2, <3>3
  <2>3. worker' \in [Worker -> WorkerState] /\ worker'["program"] = worker["program"]
    <3>1. PICK l \in WorkerLabel, a \in Int :
            worker' = [worker EXCEPT !["erase"].addr = a, !["erase"].pc = l]
      BY <2>2
    <3>2. worker' = [worker EXCEPT !["erase"] = [[@ EXCEPT !.addr = a] EXCEPT !.pc = l]]
      BY <1>1, <2>1, <3>1
    <3>3. [[worker["erase"] EXCEPT !.addr = a] EXCEPT !.pc = l] \in WorkerState
      BY <1>1, <2>1 DEF WorkerState
    <3>4. QED
      BY <1>1, <2>1, <3>2, <3>3
  <2>4. QED
    BY <1>3, <2>3 DEF FlashInv, WorkerOK, WorkerState
<1>6. QED
  BY <1>2, <1>4, <1>5 DEF FlashInv

(* program_process begins with the block it was given.                      *)
LEMMA ProgramStartKeeps == FlashInv /\ ProgramStart => FlashInv'
<1> SUFFICES ASSUME FlashInv, ProgramStart PROVE FlashInv'
  OBVIOUS
<1>1. /\ WorkerUnchanged /\ UNCHANGED <<flash_prog, dev, flash, buf>> /\ "program" \in Worker
      /\ current = "program" /\ UNCHANGED programmer /\ WorkEnds("program") /\ Run
  BY DEF ProgramStart, WorkerUnchanged, device, Working, Worker, WorkEnds
<1>2. DeviceOK' /\ ImageOK' /\ LoaderOK' /\ HostOK' /\ RingOK' /\ KernelOK' /\ ProgrammerOK'
  BY <1>1, DeviceFrame, ImageFrame, WorkFrame, WorkKernel DEF FlashInv
<1>3. WorkerOK'
  <2>1. worker \in [Worker -> WorkerState] /\ "wren" \in WorkerLabel
        /\ worker["program"].pos + worker["program"].remain <= LOAD_BLK_SIZE
    BY DEF FlashInv, WorkerOK, WorkerState, WorkerLabel
  <2>2. CASE ev.ev = "POLL"
    <3>1. worker' = [worker EXCEPT !["program"].pc = "wren"]
      BY <2>2 DEF ProgramStart
    <3>2. worker["program"].remain > 0
      BY <1>1, <2>2 DEF FlashInv, WorkerOK
    <3>3. QED
      BY <1>1, <2>1, <3>1, <3>2 DEF WorkerOK, WorkerState
  <2>3. CASE ev.ev # "POLL"
    <3>1. worker' = [worker EXCEPT !["program"] =
                       [pc |-> "wren", addr |-> flash_ops.addr, remain |-> flash_ops.size,
                        buf |-> flash_ops.buf, pos |-> 0, j |-> 0]]
      BY <2>3 DEF ProgramStart
    <3>2. flash_ops \in [addr : Int, size : 0 .. LOAD_BLK_SIZE, buf : BufIdx]
          /\ flash_ops.size > 0
      BY <1>1, <2>3 DEF FlashInv, ProgrammerOK
    <3>3. 0 \in 0 .. Timeout - 1 /\ 0 \in 0 .. LOAD_BLK_SIZE - 1 /\ LOAD_BLK_SIZE \in Nat
      BY FlashAssumption, RingAssumption
    <3>4. QED
      BY <1>1, <2>1, <3>1, <3>2, <3>3 DEF WorkerOK, WorkerState
  <2>4. QED
    BY <2>2, <2>3
<1>4. QED
  BY <1>2, <1>3 DEF FlashInv

(* The erase sizes are numbers.                                             *)
LEMMA EraseSizeIs ==
  ASSUME NEW a \in Int, NEW remain \in Int
  PROVE  EraseSize(a, remain) \in Int
  BY FlashAssumption, RingAssumption DEF EraseSize, SPIROM_SECTOR_SIZE

(* A command given, or a chip found ready: the worker reads the status.     *)
LEMMA ReadBusyKeeps ==
  ASSUME FlashInv, NEW t \in Worker, current = t, worker[t].pc # "idle",
         NEW label \in WorkerLabel, worker' = [worker EXCEPT ![t].pc = label, ![t].j = 1],
         Run, UNCHANGED queue, WorkerUnchanged, DeviceOK', ImageOK'
  PROVE  FlashInv'
<1>1. 1 \in 0 .. Timeout - 1 /\ WorkEnds(t)
  BY FlashAssumption DEF WorkEnds
<1>2. QED
  BY <1>1, WorkerMovesKeep

(* The erase command of the flash keeps the invariant.                      *)
LEMMA EraseCommandKeeps == FlashInv /\ EraseCommand => FlashInv'
<1> SUFFICES ASSUME FlashInv, EraseCommand PROVE FlashInv'
  OBVIOUS
<1> DEFINE a    == worker["erase"].addr
           size == EraseSize(a, Remain(a))
<1>1. /\ WorkerUnchanged /\ UNCHANGED buf /\ "erase" \in Worker
      /\ current = "erase" /\ worker["erase"].pc # "idle"
  BY DEF EraseCommand, WorkerUnchanged, Working, Worker
<1>2. flash_prog' = [flash_prog EXCEPT !.erase_size = @ + size]
  BY DEF EraseCommand
<1>3. size \in Int
  <2>1. a \in Int
    BY <1>1 DEF FlashInv, WorkerOK
  <2>2. Remain(a) \in Int
    BY <2>1 DEF FlashInv, ImageOK, Remain
  <2>3. QED
    BY <2>1, <2>2, EraseSizeIs
<1>4. Obey(Wiped(a, size)) \/ UNCHANGED <<dev, flash>>
  BY DEF EraseCommand
<1>5. \/ Finish("erase", -1)
      \/ worker' = [worker EXCEPT !["erase"].pc = "read_busy", !["erase"].j = 1]
         /\ Run /\ UNCHANGED queue
  BY DEF EraseCommand
<1> HIDE DEF size, a
<1>6. ImageOK'
  BY <1>2, <1>3 DEF FlashInv, ImageOK
<1>7. DeviceOK'
  BY <1>1, <1>4, ObeyKeeps DEF FlashInv, Wiped
<1>8. QED
  BY <1>1, <1>5, <1>6, <1>7, FinishKeeps, ReadBusyKeeps DEF WorkerLabel

(* The chip erase command keeps the invariant.                              *)
LEMMA ChipCommandKeeps == FlashInv /\ ChipCommand => FlashInv'
<1> SUFFICES ASSUME FlashInv, ChipCommand PROVE FlashInv'
  OBVIOUS
<1>1. /\ WorkerUnchanged /\ UNCHANGED <<buf, dev, flash, flash_prog>> /\ "erase" \in Worker
      /\ current = "erase" /\ worker["erase"].pc # "idle" /\ Run /\ UNCHANGED queue
      /\ worker' = [worker EXCEPT !["erase"].pc = "read_chip", !["erase"].j = 1]
  BY DEF ChipCommand, WorkerUnchanged, Working, Worker, device
<1>2. DeviceOK' /\ ImageOK'
  BY <1>1, DeviceFrame, ImageFrame DEF FlashInv
<1>3. QED
  BY <1>1, <1>2, ReadBusyKeeps DEF WorkerLabel

(* A page program command keeps the invariant.                              *)
LEMMA ProgramCommandKeeps == FlashInv /\ ProgramCommand => FlashInv'
<1> SUFFICES ASSUME FlashInv, ProgramCommand PROVE FlashInv'
  OBVIOUS
<1>1. /\ WorkerUnchanged /\ UNCHANGED <<buf, flash_prog>> /\ "program" \in Worker
      /\ current = "program" /\ worker["program"].pc # "idle"
  BY DEF ProgramCommand, WorkerUnchanged, Working, Worker
<1>2. \E b, v : Obey(Written(b, v)) \/ UNCHANGED <<dev, flash>>
  BY DEF ProgramCommand
<1>3. \/ Finish("program", -1)
      \/ worker' = [worker EXCEPT !["program"].pc = "read_busy", !["program"].j = 1]
         /\ Run /\ UNCHANGED queue
  BY DEF ProgramCommand
<1>4. \A b, v : DOMAIN Written(b, v) = Addr
  BY DEF Written, FlashInv, DeviceOK
<1>5. DeviceOK' /\ ImageOK'
  BY <1>1, <1>2, <1>4, ObeyKeeps, ImageFrame DEF FlashInv
<1>6. QED
  BY <1>1, <1>3, <1>5, FinishKeeps, ReadBusyKeeps DEF WorkerLabel

(* The status read while the device works.                                  *)
LEMMA StatusRead ==
  ASSUME FlashInv, NEW t \in Worker, UNCHANGED <<flash, buf>>,
         StillBusy(t) \/ NowReady \/ UNCHANGED dev
  PROVE  DeviceOK'
  BY DEF FlashInv, DeviceOK, StillBusy, NowReady

(* A read of the status during a chip erase keeps the invariant.            *)
LEMMA ReadChipKeeps == FlashInv /\ ReadChip => FlashInv'
<1> SUFFICES ASSUME FlashInv, ReadChip PROVE FlashInv'
  OBVIOUS
<1>1. /\ WorkerUnchanged /\ UNCHANGED <<buf, flash>> /\ "erase" \in Worker
      /\ current = "erase" /\ worker["erase"].pc # "idle"
  BY DEF ReadChip, WorkerUnchanged, Working, Worker
<1>2. StillBusy("erase") \/ NowReady \/ UNCHANGED dev
  BY DEF ReadChip
<1>3. DeviceOK'
  BY <1>1, <1>2, StatusRead
<1>4. \/ flash_prog' = flash_prog
      \/ flash_prog' = [flash_prog EXCEPT !.erase_size = @ + Remain(worker["erase"].addr)]
  BY DEF ReadChip, FlashInv, ImageOK
<1>5. ImageOK'
  <2>1. worker["erase"].addr \in Int
    BY <1>1 DEF FlashInv, WorkerOK
  <2>2. Remain(worker["erase"].addr) \in Int
    BY <2>1 DEF FlashInv, ImageOK, Remain
  <2>3. QED
    BY <1>4, <2>2 DEF FlashInv, ImageOK
<1>6. CASE PollAgain("erase", "chip_wait")
  BY <1>1, <1>3, <1>5, <1>6, EndsIs, GotoKeeps DEF WorkerLabel
<1>7. CASE Finish("erase", -1)
  BY <1>1, <1>3, <1>5, <1>7, FinishKeeps
<1>8. CASE worker' = [worker EXCEPT !["erase"].pc = "read_busy", !["erase"].j = 1]
           /\ Run /\ UNCHANGED queue
  BY <1>1, <1>3, <1>5, <1>8, ReadBusyKeeps DEF WorkerLabel
<1>9. QED
  BY <1>6, <1>7, <1>8 DEF ReadChip

(* A read of the status during a sector erase keeps the invariant.          *)
LEMMA EraseReadKeeps == FlashInv /\ EraseRead => FlashInv'
<1> SUFFICES ASSUME FlashInv, EraseRead PROVE FlashInv'
  OBVIOUS
<1>1. /\ WorkerUnchanged /\ UNCHANGED <<buf, flash, flash_prog>> /\ "erase" \in Worker
      /\ current = "erase" /\ worker["erase"].pc # "idle"
  BY DEF EraseRead, WorkerUnchanged, Working, Worker
<1>2. StillBusy("erase") \/ NowReady \/ UNCHANGED dev
  BY DEF EraseRead
<1>3. DeviceOK' /\ ImageOK'
  BY <1>1, <1>2, StatusRead, ImageFrame DEF FlashInv
<1>4. CASE PollAgain("erase", "busy_wait")
  BY <1>1, <1>3, <1>4, EndsIs, GotoKeeps DEF WorkerLabel
<1>5. CASE Finish("erase", -1) \/ Finish("erase", 0)
  BY <1>1, <1>3, <1>5, FinishKeeps
<1>6. QED
  BY <1>4, <1>5 DEF EraseRead

(* The program process after a page.                                        *)
LEMMA NextPage ==
  ASSUME NEW w \in [pc : WorkerLabel, addr : Int, remain : Int, buf : BufIdx, pos : Int, j : Int],
         NEW x,
         x = [w EXCEPT !.pc = "wren", !.addr = @ + 1, !.pos = @ + 1, !.remain = @ - 1]
  PROVE  x = [pc |-> "wren", addr |-> w.addr + 1, remain |-> w.remain - 1,
              buf |-> w.buf, pos |-> w.pos + 1, j |-> w.j]
  OBVIOUS

(* After a page: the position in the block and what remains of it move      *)
(* together.                                                                *)
LEMMA ProgramReadKeeps == FlashInv /\ ProgramRead => FlashInv'
<1> SUFFICES ASSUME FlashInv, ProgramRead PROVE FlashInv'
  OBVIOUS
<1>1. /\ WorkerUnchanged /\ UNCHANGED <<buf, flash, flash_prog>> /\ "program" \in Worker
      /\ current = "program" /\ worker["program"].pc # "idle"
  BY DEF ProgramRead, WorkerUnchanged, Working, Worker
<1>2. StillBusy("program") \/ NowReady \/ UNCHANGED dev
  BY DEF ProgramRead
<1>3. DeviceOK' /\ ImageOK'
  BY <1>1, <1>2, StatusRead, ImageFrame DEF FlashInv
<1>4. CASE PollAgain("program", "busy_wait")
  BY <1>1, <1>3, <1>4, EndsIs, GotoKeeps DEF WorkerLabel
<1>5. CASE Finish("program", -1) \/ Finish("program", 0)
  BY <1>1, <1>3, <1>5, FinishKeeps
<1>6. CASE /\ worker["program"].remain # 1 /\ Run /\ UNCHANGED queue
           /\ worker' = [worker EXCEPT
                !["program"].pc = "wren", !["program"].addr = @ + 1,
                !["program"].pos = @ + 1, !["program"].remain = @ - 1]
  <2> DEFINE w == worker["program"]
  <2>1. worker \in [Worker -> WorkerState] /\ w \in WorkerState
        /\ w.pos + w.remain <= LOAD_BLK_SIZE /\ w.remain > 0
    BY <1>1 DEF FlashInv, WorkerOK, WorkerState
  <2>2. worker'["program"] = [pc |-> "wren", addr |-> w.addr + 1, remain |-> w.remain - 1,
                              buf |-> w.buf, pos |-> w.pos + 1, j |-> w.j]
        /\ worker' = [worker EXCEPT !["program"] = worker'["program"]]
    <3> DEFINE x == [worker["program"] EXCEPT !.pc = "wren", !.addr = @ + 1, !.pos = @ + 1,
                                              !.remain = @ - 1]
    <3>1. worker' = [worker EXCEPT !["program"] = x]
      BY <1>6
    <3> HIDE DEF x
    <3>2. worker'["program"] = x /\ worker' = [worker EXCEPT !["program"] = worker'["program"]]
      BY <1>1, <2>1, <3>1
    <3>3. w \in [pc : WorkerLabel, addr : Int, remain : Int, buf : BufIdx, pos : Int, j : Int]
      BY <2>1, RingAssumption, FlashAssumption DEF WorkerState
    <3>4. QED
      BY <3>2, <3>3, NextPage DEF x
  <2> HIDE DEF w
  <2>3. /\ w.remain - 1 \in 1 .. LOAD_BLK_SIZE
        /\ w.pos + 1 \in 0 .. LOAD_BLK_SIZE - 1
        /\ w.pos + 1 + (w.remain - 1) <= LOAD_BLK_SIZE
    BY <1>6, <2>1, RingAssumption DEF WorkerState, w
  <2>4. worker'["program"] \in WorkerState
    BY <2>1, <2>2, <2>3 DEF WorkerState, WorkerLabel
  <2>5. worker' \in [Worker -> WorkerState]
    BY <1>1, <2>1, <2>2, <2>4
  <2>6. WorkerOK'
    BY <2>2, <2>3, <2>5 DEF WorkerOK, WorkerState
  <2>7. LoaderOK' /\ HostOK' /\ RingOK' /\ KernelOK' /\ ProgrammerOK'
    BY <1>1, <1>6, WorkFrame, WorkKernel, EndsIs DEF WorkerUnchanged
  <2>8. QED
    BY <1>3, <2>6, <2>7 DEF FlashInv
<1>7. QED
  BY <1>4, <1>5, <1>6 DEF ProgramRead

(* Every step of erase_process and program_process keeps the invariant.     *)
LEMMA WorkerKeeps == FlashInv /\ WorkerStep => FlashInv'
<1> SUFFICES ASSUME FlashInv, WorkerStep PROVE FlashInv'
  OBVIOUS
<1>1. ASSUME NEW t \in Worker,
             WriteEnable(t) \/ ReadLatch(t) \/ Resume(t, "latch_wait", "read_latch")
             \/ Resume(t, "busy_wait", "read_busy")
      PROVE  FlashInv'
  BY <1>1, WriteEnableKeeps, ReadLatchKeeps, ResumeKeeps DEF WorkerLabel
<1>2. CASE Resume("erase", "chip_wait", "read_chip")
  BY <1>2, ResumeKeeps DEF WorkerLabel, Worker
<1>3. QED
  BY <1>1, <1>2, EraseStartKeeps, ProgramStartKeeps, EraseCommandKeeps, ChipCommandKeeps,
     ProgramCommandKeeps, ReadChipKeeps, EraseReadKeeps, ProgramReadKeeps DEF WorkerStep

-----------------------------------------------------------------------------
(* The host and the receive interrupt.                                      *)
LEMMA SendFrame ==
  ASSUME FlashInv, NEW c \in Command, Send(c)
  PROVE  /\ KernelOK' /\ LoaderOK' /\ RingOK' /\ ImageOK' /\ ProgrammerOK' /\ WorkerOK' /\ DeviceOK'
         /\ packet' \in Command
<1>1. UNCHANGED <<kernel, loader, ring, buf, flash_prog, programmer, worker, dev, flash>>
      /\ packet' = c
  BY DEF Send, pipeline, device
<1>2. KernelOK' /\ LoaderOK' /\ RingOK' /\ ImageOK' /\ DeviceOK'
  BY <1>1, KernelFrame, LoaderFrame, RingFrame, ImageFrame, DeviceFrame DEF FlashInv
<1>3. ProgrammerOK'
  BY <1>1 DEF FlashInv, ProgrammerOK, ForProgram, programmer, kernel
<1>4. WorkerOK'
  BY <1>1 DEF FlashInv, WorkerOK, kernel
<1>5. QED
  BY <1>1, <1>2, <1>3, <1>4

HostState ==
  [phase : Phase, gen : Nat, offset : Nat, size : Nat, sent : Nat,
   seq : Nat, last : {NoPacket} \cup DataPacket, resends : Nat]

(* Every step of the host keeps the invariant.                              *)
LEMMA HostKeeps == FlashInv /\ HostStep => FlashInv'
<1> SUFFICES ASSUME FlashInv, HostStep PROVE FlashInv'
  OBVIOUS
<1>0. host \in HostState /\ (host.phase = "resend" => host.last \in DataPacket)
  BY DEF FlashInv, HostOK, HostState
<1>1. ASSUME NEW r \in Images, SendBegin(r)
      PROVE  FlashInv'
  <2>1. r.offset \in Nat /\ r.size \in Nat \ {0}
    BY FlashAssumption
  <2>2. [op |-> "BEGIN", offset |-> r.offset, size |-> r.size] \in Command
    BY <2>1 DEF Command
  <2>3. host' = [phase |-> "begin", gen |-> host.gen + 1, offset |-> r.offset, size |-> r.size,
                 sent |-> 0, seq |-> 0, last |-> host.last, resends |-> host.resends]
    BY <1>0, <1>1 DEF SendBegin, HostState
  <2>4. host' \in HostState /\ host'.phase = "begin"
    BY <1>0, <2>1, <2>3 DEF HostState, Phase
  <2>5. QED
    BY <1>1, <2>2, <2>4, SendFrame DEF SendBegin, FlashInv, HostOK, HostState
<1>2. ASSUME NEW r \in Regions, SendErase(r)
      PROVE  FlashInv'
  <2>1. r.offset \in Nat /\ r.size \in Nat \ {0}
    BY FlashAssumption
  <2>2. [op |-> "ERASE", chip |-> FALSE, offset |-> r.offset, size |-> r.size] \in Command
    BY <2>1 DEF Command
  <2>3. host' = [phase |-> "erasing", gen |-> host.gen + 1, offset |-> r.offset,
                 size |-> r.size, sent |-> host.sent, seq |-> host.seq, last |-> host.last,
                 resends |-> host.resends]
    BY <1>0, <1>2 DEF SendErase, HostState
  <2>4. host' \in HostState /\ host'.phase = "erasing"
    BY <1>0, <2>1, <2>3 DEF HostState, Phase
  <2>5. QED
    BY <1>2, <2>2, <2>4, SendFrame DEF SendErase, FlashInv, HostOK, HostState
<1>3. ASSUME NEW len \in Packets, SendData(len)
      PROVE  FlashInv'
  <2>1. len \in Nat
    BY FlashAssumption
  <2>2. \A i \in 1 .. len : Unit(host.gen, host.sent + i - 1) \in Nat
    BY <1>0, <2>1 DEF Unit, HostState
  <2>3. [i \in 1 .. len |-> Unit(host.gen, host.sent + i - 1)] \in Seq(Nat)
    BY <2>1, <2>2, IsASeq
  <2>4. [op |-> "DATA", seq |-> host.seq,
         units |-> [i \in 1 .. len |-> Unit(host.gen, host.sent + i - 1)]] \in Command
    BY <1>0, <2>3 DEF Command, DataPacket, HostState
  <2>5. QED
    BY <1>0, <1>3, <2>4, SendFrame DEF SendData, FlashInv, HostOK, HostState
<1>4. CASE SendAgain
  <2>1. host.last \in Command
    BY <1>0, <1>4 DEF SendAgain, Command
  <2>2. host' = [phase |-> "data", gen |-> host.gen, offset |-> host.offset,
                 size |-> host.size, sent |-> host.sent, seq |-> host.seq, last |-> NoPacket,
                 resends |-> host.resends]
    BY <1>0, <1>4 DEF SendAgain, HostState
  <2>3. host' \in HostState /\ host'.phase = "data"
    BY <1>0, <2>2 DEF HostState, Phase
  <2>4. QED
    BY <1>4, <2>1, <2>3, SendFrame DEF SendAgain, FlashInv, HostOK, HostState
<1>5. CASE SendEnd
  <2>1. [op |-> "END"] \in Command
    BY DEF Command
  <2>2. QED
    BY <1>0, <1>5, <2>1, SendFrame DEF SendEnd, FlashInv, HostOK, HostState
<1>6. CASE SendChipErase
  <2>1. [op |-> "ERASE", chip |-> TRUE] \in Command
    <3>1. [op |-> "ERASE", chip |-> TRUE] \in [op : {"ERASE"}, chip : {TRUE}]
      BY Zenon
    <3>2. QED
      BY <3>1 DEF Command
  <2>2. host' = [phase |-> "erasing", gen |-> host.gen + 1, offset |-> host.offset,
                 size |-> host.size, sent |-> host.sent, seq |-> host.seq, last |-> host.last,
                 resends |-> host.resends]
    BY <1>0, <1>6 DEF SendChipErase, HostState
  <2>3. host' \in HostState /\ host'.phase = "erasing"
    BY <1>0, <2>2 DEF HostState, Phase
  <2>4. QED
    BY <1>6, <2>1, <2>3, SendFrame DEF SendChipErase, FlashInv, HostOK, HostState
<1>7. QED
  BY <1>1, <1>2, <1>3, <1>4, <1>5, <1>6 DEF HostStep

(* The receive interrupt keeps the invariant.                               *)
LEMMA InterruptKeeps == FlashInv /\ RxInterrupt => FlashInv'
<1> SUFFICES ASSUME FlashInv, RxInterrupt PROVE FlashInv'
  OBVIOUS
<1>1. RunOrYield /\ UNCHANGED <<loader, ring, buf, flash_prog, programmer, worker, dev, flash, outside>>
  BY DEF RxInterrupt, RunOrYield, pipeline, device
<1>2. KernelOK' /\ (ForProgram' => ForProgram)
  BY <1>1, PostFrame DEF RxInterrupt, FlashInv, Proc, PostedEv
<1>3. LoaderOK' /\ HostOK' /\ RingOK' /\ ImageOK' /\ DeviceOK'
  BY <1>1, LoaderFrame, HostFrame, RingFrame, ImageFrame, DeviceFrame DEF FlashInv
<1>4. ProgrammerOK' /\ WorkerOK'
  BY <1>1, <1>2, ProgrammerFrame, WorkerFrame DEF FlashInv
<1>5. QED
  BY <1>2, <1>3, <1>4 DEF FlashInv

(* The invariant is about the variables of FlashProg only.                  *)
LEMMA StutterKeeps == FlashInv /\ UNCHANGED vars => FlashInv'
  BY KernelFrame, LoaderFrame, HostFrame, RingFrame, ImageFrame, DeviceFrame
  DEF FlashInv, vars, pipeline, device, ProgrammerOK, WorkerOK, ForProgram, kernel, programmer

(* The invariant of the flash programming.                                  *)
LEMMA FlashInvHolds == Spec => []FlashInv
<1>1. FlashInv /\ [Next]_vars => FlashInv'
  BY ServeKeeps, UartKeeps, FlashKeeps, WorkerKeeps, HostKeeps, InterruptKeeps, StutterKeeps
  DEF Next, MainStep
<1>2. QED
  BY InitInv, <1>1, PTL DEF Spec

-----------------------------------------------------------------------------
(* The flash programming keeps its types, for every capacity of the queue,  *)
(* every ring and every block size: the queue is never longer than the      *)
(* kernel's ring, no more than a block is taken from a buffer               *)
(* (program_process), and what remains of an image never drops below zero   *)
(* (flash_mem_cpy).                                                         *)
THEOREM FlashTypeCorrect == Spec => []FlashTypeOK
<1>1. FlashInv => FlashTypeOK
  <2> SUFFICES ASSUME FlashInv PROVE FlashTypeOK
    OBVIOUS
  <2>1. RingTypeOK
    BY DEF FlashInv, RingOK, Sound, Rings, RingTypeOK
  <2>2. \A t \in Worker : worker[t].j < Timeout /\ worker[t].pos < LOAD_BLK_SIZE
    BY FlashAssumption, RingAssumption DEF FlashInv, WorkerOK
  <2>3. mem.remaining \in Nat /\ mem.seq \in Nat \cup {-1} /\ error \in BOOLEAN
    BY DEF FlashInv, LoaderOK
  <2>4. QED
    BY <2>1, <2>2, <2>3 DEF FlashInv, KernelOK, DeviceOK, FlashTypeOK, Proc
<1>2. QED
  BY <1>1, FlashInvHolds, PTL

(* The steps that touch the ring.                                           *)
LEMMA RingChangers ==
  ASSUME Next, ring' # ring
  PROVE  FlashBegin \/ CopyBlock \/ SectorErased \/ BlockProgrammed
<1>1. CASE MainStep
  <2>1. CASE UartStep
    BY <2>1 DEF UartStep, RxOther, FlashData, FlashEnd, FlashErase, CopyTest, EndTest,
       EraseResume, Reply, LoopAgain, pipeline
  <2>2. CASE FlashStep
    BY <2>2 DEF FlashStep, FlashIdle, ChipErase, ChipErased, RegionErase, RegionErased,
       RegionDone, NextBlock, Drained
  <2>3. CASE WorkerStep
    <3>1. WorkerUnchanged
      BY <2>3 DEF WorkerStep, EraseStart, ProgramStart, WriteEnable, ReadLatch, Resume,
         EraseCommand, ChipCommand, ProgramCommand, ReadChip, EraseRead, ProgramRead
    <3>2. QED
      BY <3>1 DEF WorkerUnchanged
  <2>4. CASE (\E p \in Worker : ServePoll(p)) \/ ServeEvent
    BY <2>4 DEF ServePoll, ServeEvent, pipeline
  <2>5. QED
    BY <1>1, <2>1, <2>2, <2>3, <2>4 DEF MainStep
<1>2. CASE RxInterrupt
  BY <1>2 DEF RxInterrupt, pipeline
<1>3. CASE HostStep
  BY <1>3 DEF HostStep, SendBegin, SendErase, SendData, SendAgain, SendEnd, SendChipErase,
     Send, pipeline
<1>4. QED
  BY <1>1, <1>2, <1>3 DEF Next

(* The loader and flash_prog_process use the ring as module BlockRing has   *)
(* it, for every way their steps interleave, every fault and every retry:   *)
(* the loader copies no more than fits and only into a free buffer, and     *)
(* flash_prog_process frees no block that is not ready.                     *)
THEOREM FlashRingRefined == Spec => RingRefined
<1>1. Init => RingInit
  BY DEF Init, RingInit
<1>2. FlashInv /\ [Next]_vars => [RingNext]_ring
  <2> SUFFICES ASSUME FlashInv, Next, ring' # ring
               PROVE  RingNext
    BY DEF vars, pipeline
  <2>1. FlashBegin \/ CopyBlock \/ SectorErased \/ BlockProgrammed
    BY RingChangers
  <2>2. CASE FlashBegin
    BY <2>2 DEF FlashBegin, RingNext, Reset
  <2>3. CASE CopyBlock
    <3>1. Fill(CopyLen, mem.remaining = CopyLen)
      BY <2>3 DEF CopyBlock, Fill
    <3>2. CopyLen \in 1 .. Room(ring) /\ (mem.remaining = CopyLen) \in BOOLEAN
      BY <2>3, CopyFits
    <3>3. QED
      BY <3>1, <3>2 DEF RingNext
  <2>4. CASE SectorErased \/ BlockProgrammed
    <3>1. ring' = SetBufFree(ring)
      BY <2>4 DEF SectorErased, BlockProgrammed, WaitOn, BlockOver
    <3>2. QED
      BY <3>1 DEF SetBufFree, RingNext, Free
  <2>5. QED
    BY <2>1, <2>2, <2>3, <2>4
<1>3. QED
  BY <1>1, <1>2, FlashInvHolds, PTL DEF Spec, RingRefined, RingSpec

(* What is received never overwrites what is still to be programmed, for    *)
(* the loader and flash_prog_process together.                              *)
THEOREM FlashNoBufferShared == Spec => []BuffersDistinct
  BY FlashRingRefined, NoBufferShared, PTL DEF RingRefined

(* Whenever the loader finds a free buffer there is room in it, so the copy *)
(* loop of FLASH_DATA never spins.                                          *)
THEOREM FlashFreeBufHasRoom == Spec => []RoomWhenFree
  BY FlashRingRefined, FreeBufHasRoom, PTL DEF RingRefined

-----------------------------------------------------------------------------
Awake == Queued("flash", "BUF_RDY")

(* An event in the queue stays there while others are posted behind it.     *)
LEMMA StaysQueued ==
  ASSUME KernelOK, Awake,
         \/ UNCHANGED queue
         \/ \E p \in Proc, e \in PostedEv, d \in Int : queue' = Post(queue, p, e, d)
  PROVE  Awake'
<1>1. queue \in Seq(Event) /\ Len(queue) <= PROCESS_CONF_NUMEVENTS /\ Len(queue) \in Nat
  BY LenProperties DEF KernelOK
<1>a. ASSUME NEW q \in Seq(Event), Len(q) <= PROCESS_CONF_NUMEVENTS,
             NEW p \in Proc, NEW e \in PostedEv, NEW d \in Int
      PROVE  /\ Post(q, p, e, d) \in Seq(Event) /\ Len(q) <= Len(Post(q, p, e, d))
             /\ \A k \in 1 .. Len(q) : Post(q, p, e, d)[k] = q[k]
  <2>1. Post(q, p, e, d) \in Seq(Event)
    BY <1>a, PostKeeps
  <2>2. Len(q) <= Len(Post(q, p, e, d))
    BY <1>a, PostKeeps
  <2>3. ASSUME NEW k \in 1 .. Len(q) PROVE Post(q, p, e, d)[k] = q[k]
    <3>1. [p |-> p, ev |-> e, data |-> d] \in Event
      BY <1>a DEF Event
    <3>2. \A x \in Event : Append(q, x)[k] = q[k]
      BY <1>a, <2>3, AppendProperties
    <3>3. QED
      BY <3>1, <3>2 DEF Post
  <2>4. QED
    BY <2>1, <2>2, <2>3
<1>2. CASE UNCHANGED queue
  BY <1>2 DEF Awake, Queued
<1>3. ASSUME NEW p \in Proc, NEW e \in PostedEv, NEW d \in Int, queue' = Post(queue, p, e, d)
      PROVE  Awake'
  <2>1. PICK i \in 1 .. Len(queue) : queue[i].p = "flash" /\ queue[i].ev = "BUF_RDY"
    BY DEF Awake, Queued
  <2>2. /\ queue' \in Seq(Event) /\ Len(queue) <= Len(queue')
        /\ \A k \in 1 .. Len(queue) : queue'[k] = queue[k]
    BY <1>1, <1>3, <1>a, Zenon
  <2>a. Len(queue') \in Nat
    BY <2>2, LenProperties
  <2>3. i \in 1 .. Len(queue') /\ queue'[i] = queue[i]
    BY <1>1, <2>1, <2>2, <2>a
  <2>4. QED
    BY <2>1, <2>3 DEF Awake, Queued
<1>4. QED
  BY <1>2, <1>3

(* Every step but the delivery of an event posts at most one event.         *)
LEMMA PostsAtMostOne ==
  ASSUME FlashInv, Next, ~ServeEvent
  PROVE  \/ UNCHANGED queue
         \/ \E p \in Proc, e \in PostedEv, d \in Int : queue' = Post(queue, p, e, d)
<1>1. CASE UartStep
  <2>1. CASE FlashErase
    BY <2>1 DEF FlashErase, Chip, Proc, PostedEv
  <2>2. CASE CopyBlock
    <3>1. ring.tail \in Int
      BY RingAssumption DEF FlashInv, RingOK, Sound, Rings, CtrlIdx
    <3>2. QED
      BY <2>2, <3>1 DEF CopyBlock, Wake, Proc, PostedEv
  <2>3. QED
    BY <1>1, <2>1, <2>2 DEF UartStep, RxOther, FlashBegin, FlashData, FlashEnd, CopyTest,
       EndTest, EraseResume, Reply, LoopAgain
<1>2. CASE FlashStep
  BY <1>2 DEF FlashStep, FlashIdle, ChipErase, ChipErased, RegionErase, RegionErased,
     RegionDone, NextBlock, Drained, SectorErased, BlockProgrammed, BlockOver, BlockEvent,
     WaitOn, Proc, PostedEv, Worker
<1>3. CASE WorkerStep
  <2>1. \/ UNCHANGED queue
        \/ \E t \in Worker, ret \in {0, -1} : Finish(t, ret)
    BY <1>3 DEF WorkerStep, EraseStart, ProgramStart, WriteEnable, ReadLatch, Resume,
       EraseCommand, ChipCommand, ProgramCommand, ReadChip, EraseRead, ProgramRead,
       GoOn, PollAgain, Worker
  <2>2. QED
    BY <2>1 DEF Finish, Proc, PostedEv
<1>4. CASE \E p \in Worker : ServePoll(p)
  BY <1>4 DEF ServePoll
<1>5. CASE RxInterrupt
  BY <1>5 DEF RxInterrupt, Proc, PostedEv
<1>6. CASE HostStep
  BY <1>6 DEF HostStep, SendBegin, SendErase, SendData, SendAgain, SendEnd, SendChipErase,
     Send, kernel
<1>7. QED
  BY <1>1, <1>2, <1>3, <1>4, <1>5, <1>6 DEF Next, MainStep

(* Only flash_prog_process takes its event from the queue.                  *)
LEMMA AwakeUntilServed ==
  ASSUME FlashInv, Next, Awake, current' # "flash"
  PROVE  Awake'
<1>1. CASE ServeEvent
  <2>1. PICK i \in 1 .. Len(queue) : queue[i].p = "flash" /\ queue[i].ev = "BUF_RDY"
    BY DEF Awake, Queued
  <2>2. /\ Head(queue) = queue[1] /\ queue' = Tail(queue) /\ current' = Head(queue).p
        /\ Len(queue) \in Nat /\ Len(Tail(queue)) = Len(queue) - 1
        /\ \A k \in 1 .. Len(Tail(queue)) : Tail(queue)[k] = queue[k + 1]
    BY <1>1, HeadTailProperties, LenProperties DEF ServeEvent, FlashInv, KernelOK
  <2>3. i # 1
    BY <2>1, <2>2
  <2>4. i - 1 \in 1 .. Len(queue') /\ queue'[i - 1] = queue[i]
    BY <2>1, <2>2, <2>3
  <2>5. QED
    BY <2>1, <2>4 DEF Awake, Queued
<1>2. CASE ~ServeEvent
  BY <1>2, PostsAtMostOne, StaysQueued DEF FlashInv
<1>3. QED
  BY <1>1, <1>2

(* The block that ends the emptiness of the ring is announced.              *)
LEMMA FirstBlockWakes ==
  ASSUME FlashInv, CopyBlock, ~InProcess(ring), InProcess(ring'),
         Len(queue) # PROCESS_CONF_NUMEVENTS
  PROVE  Awake'
<1>1. BlockReady
  <2>1. SUFFICES ASSUME ~BlockReady PROVE FALSE
    OBVIOUS
  <2> DEFINE f == [ring EXCEPT !.ctrl[ring.tail].size = @ + CopyLen]
  <2>2. ring \in Rings /\ ring.tail \in CtrlIdx
    BY DEF FlashInv, RingOK, Sound, Rings
  <2>3. /\ f.head = ring.head /\ f.tail = ring.tail
        /\ f.ctrl[f.tail].size = ring.ctrl[ring.tail].size + CopyLen
    BY <2>2 DEF Rings, DataCtrl
  <2>4. Room(f) # 0
    BY <2>1, <2>2, <2>3, CopyFits, RingAssumption DEF Room, BlockReady, Rings, DataCtrl
  <2>5. mem.remaining # CopyLen
    BY <2>1 DEF BlockReady
  <2>6. ring' = f
    BY <2>4, <2>5 DEF CopyBlock, Filled
  <2> HIDE DEF f
  <2>7. QED
    BY <2>3, <2>6 DEF InProcess
<1>2. queue' = Post(queue, "flash", "BUF_RDY", ring.tail)
  BY <1>1 DEF CopyBlock, Wake
<1>3. /\ queue \in Seq(Event) /\ Len(queue) < PROCESS_CONF_NUMEVENTS /\ Len(queue) \in Nat
      /\ ring.tail \in Int
  BY LenProperties, FlashAssumption, RingAssumption
  DEF FlashInv, KernelOK, RingOK, Sound, Rings, CtrlIdx
<1>a. "flash" \in Proc /\ "BUF_RDY" \in PostedEv /\ Len(queue) <= PROCESS_CONF_NUMEVENTS
  BY <1>3, FlashAssumption DEF Proc, PostedEv
<1>b. ASSUME NEW q \in Seq(Event), Len(q) < PROCESS_CONF_NUMEVENTS, Len(q) <= PROCESS_CONF_NUMEVENTS,
             NEW p \in Proc, NEW e \in PostedEv, NEW d \in Int
      PROVE  /\ Len(Post(q, p, e, d)) = Len(q) + 1
             /\ Post(q, p, e, d)[Len(q) + 1] = [p |-> p, ev |-> e, data |-> d]
  BY <1>b, PostKeeps
<1>4. /\ Len(queue') = Len(queue) + 1
      /\ queue'[Len(queue) + 1] = [p |-> "flash", ev |-> "BUF_RDY", data |-> ring.tail]
  BY <1>2, <1>3, <1>a, <1>b, Zenon
<1>5. QED
  BY <1>3, <1>4 DEF Awake, Queued

(* A ready block is left lying only by the end of a region's erasure or a   *)
(* full queue, for every way the loader, flash_prog_process and the flash   *)
(* interleave: BUF_RDY for the first block of an empty ring is enough, and  *)
(* the receiver passes over it only when it will look at the ring again.    *)
THEOREM WakeupKept == Spec => NoLostWakeup
<1>1. ASSUME FlashInv, Next, LeftLying', ~LeftLying,
             fpc \notin {"region_wait", "region_done"}, Len(queue) # PROCESS_CONF_NUMEVENTS
      PROVE  FALSE
  <2>1. InProcess(ring') /\ fpc' = "idle" /\ current' # "flash" /\ ~Awake'
    BY <1>1 DEF LeftLying, Awake, Queued
  <2>2. ~Awake
    BY <1>1, <2>1, AwakeUntilServed
  <2>3. ~FlashStep
    <3>1. SUFFICES ASSUME FlashStep PROVE FALSE
      OBVIOUS
    <3>2. fpc = "drain" /\ ~InProcess(ring) /\ UNCHANGED ring
      BY <1>1, <2>1, <3>1 DEF FlashStep, FlashIdle, ChipErase, ChipErased, RegionErase,
         RegionErased, RegionDone, NextBlock, Drained, SectorErased, BlockProgrammed,
         BlockOver, WaitOn, RegionLabel, Flash, Run
    <3>3. QED
      BY <2>1, <3>2
  <2>4. fpc' = fpc /\ (current' = current \/ current # "flash")
    <3>1. CASE UartStep
      BY <3>1 DEF UartStep, RxOther, FlashBegin, FlashData, FlashEnd, FlashErase, CopyBlock,
         CopyTest, EndTest, EraseResume, Reply, LoopAgain, Receive, Uart, UartUnchanged,
         programmer
    <3>2. CASE WorkerStep
      <4>1. current \in Worker /\ WorkerUnchanged
        BY <3>2 DEF WorkerStep, EraseStart, ProgramStart, WriteEnable, ReadLatch, Resume,
           EraseCommand, ChipCommand, ProgramCommand, ReadChip, EraseRead, ProgramRead,
           Working, Worker
      <4>2. QED
        BY <4>1 DEF Worker, WorkerUnchanged, programmer
    <3>3. CASE (\E p \in Worker : ServePoll(p)) \/ ServeEvent
      BY <3>3 DEF ServePoll, ServeEvent, programmer
    <3>4. CASE RxInterrupt
      BY <3>4 DEF RxInterrupt, programmer
    <3>5. CASE HostStep
      BY <3>5 DEF HostStep, SendBegin, SendErase, SendData, SendAgain, SendEnd,
         SendChipErase, Send, kernel, programmer
    <3>6. QED
      BY <1>1, <2>3, <3>1, <3>2, <3>3, <3>4, <3>5 DEF Next, MainStep
  <2>5. ~InProcess(ring)
    BY <1>1, <2>1, <2>2, <2>4 DEF LeftLying, Awake
  <2>6. CopyBlock
    <3>1. ring' # ring
      BY <2>1, <2>5
    <3>3. FlashBegin \/ CopyBlock \/ SectorErased \/ BlockProgrammed
      BY <1>1, <3>1, RingChangers
    <3>4. ~FlashBegin
      BY <2>1 DEF FlashBegin, InProcess, EmptyRing
    <3>5. QED
      BY <2>3, <3>3, <3>4 DEF FlashStep
  <2>7. QED
    BY <1>1, <2>1, <2>5, <2>6, FirstBlockWakes
<1>2. FlashInv /\ [Next]_vars =>
        [LeftLying' => \/ LeftLying
                       \/ fpc \in {"region_wait", "region_done"}
                       \/ Len(queue) = PROCESS_CONF_NUMEVENTS]_vars
  BY <1>1
<1>3. QED
  BY <1>2, FlashInvHolds, PTL DEF Spec, NoLostWakeup
-----------------------------------------------------------------------------
(* The conversation between the host and the loader.                        *)

(* The units of an image, in their order.                                   *)
Units(gen, from, n) == [i \in 1 .. n |-> Unit(gen, from + i - 1)]

(* What the host sends, and how much of the image it has not sent.          *)
BeginCmd == [op |-> "BEGIN", offset |-> host.offset, size |-> host.size]
DataCmd(n) == [op |-> "DATA", seq |-> host.seq, units |-> Units(host.gen, host.sent, n)]
EndCmd == [op |-> "END"]
EraseCmd == [op |-> "ERASE", chip |-> FALSE, offset |-> host.offset, size |-> host.size]
ChipCmd == [op |-> "ERASE", chip |-> TRUE]
Unsent == host.size - host.sent

(* One command at a time: in the receive buffer or in the loader's hands,   *)
(* and its answer is awaited.                                               *)
Nothing == packet = NoPacket /\ cmd = NoPacket

Asked(c) ==
  \/ host.phase = "begin" /\ c = BeginCmd
  \/ host.phase = "data" /\ \E n \in 1 .. Unsent : c = DataCmd(n)
  \/ host.phase = "data" /\ Unsent = 0 /\ c = EndCmd
  \/ host.phase = "erasing" /\ c \in {EraseCmd, ChipCmd}

InTurn ==
  /\ upc = "rx" <=> cmd = NoPacket
  /\ packet # NoPacket => cmd = NoPacket
  /\ waiting \in BOOLEAN /\ (waiting <=> ~Nothing)
  /\ Nothing => host.phase \notin {"begin", "erasing"}
  /\ host.phase = "begin" => host.sent = 0 /\ host.seq = 0
  /\ host.phase \in {"begin", "data", "resend", "done"} => host.sent <= host.size
  /\ packet # NoPacket => Asked(packet)
  /\ cmd # NoPacket => Asked(cmd)
  /\ host.phase = "resend" => \E n \in 1 .. Unsent : host.last = DataCmd(n)
  /\ cmd.op = "BEGIN" => upc = "reply"
  /\ cmd.op = "DATA" => upc \in {"copy", "copy_wait", "reply"}
  /\ cmd.op = "END" => upc \in {"end", "end_wait", "reply"}
  /\ cmd.op = "ERASE" => upc \in {"erase_wait", "reply"}

(* do_cmd refuses nothing but a packet that it may have had before.         *)
Refusals ==
  /\ upc \notin {"rx", "reply"} => res = "OK"
  /\ upc = "reply" /\ res # "OK" => host.resends > 0 /\ cmd.op = "DATA"

(* The host goes on with the image that the loader has begun.               *)
Followed ==
  \/ host.phase \in {"data", "resend", "done"} /\ (upc = "reply" => res = "OK")
  \/ host.phase = "begin" /\ cmd # NoPacket /\ res = "OK"

(* The units that have been taken for the ring.                             *)
Ending == cmd.op = "END" \/ host.phase = "done"
Taken == IF Ending THEN host.size ELSE host.size - mem.remaining

NotYet == mem.seq = host.seq - 1 /\ Taken = host.sent
TakenTo(n) == mem.seq = host.seq /\ Taken = host.sent + n /\ host.resends > 0

(* Loader and host agree on what has been taken; only a packet sent again   *)
(* has been taken before.                                                   *)
InStep ==
  /\ Taken \in 0 .. host.size
  /\ Ending => host.sent = host.size
  /\ ~Ending => mem.mode
  /\ (host.phase = "data" /\ Nothing) \/ cmd.op = "BEGIN" \/ packet.op = "END" => NotYet
  /\ host.phase = "resend" => TakenTo(Len(host.last.units))
  /\ packet.op = "DATA" => NotYet \/ TakenTo(Len(packet.units))
  /\ cmd.op = "DATA" =>
       /\ mem.seq = host.seq
       /\ Taken + Len(mem.cpy) = host.sent + Len(cmd.units)
       /\ \A x \in 1 .. Len(mem.cpy) : mem.cpy[x] = Unit(host.gen, Taken + x - 1)

TalkInv == InTurn /\ Refusals /\ (Followed => InStep)

(* Nobody but the loader and the host changes it.                           *)
LEMMA TalkFrame ==
  ASSUME TalkInv, UNCHANGED <<upc, cmd, res, mem, packet, waiting, host>>
  PROVE  TalkInv'
<1>1. UNCHANGED <<InTurn, Refusals, Followed, InStep>>
  BY DEF InTurn, Refusals, Followed, InStep, Nothing, Asked, BeginCmd, DataCmd, EndCmd, EraseCmd,
     ChipCmd, Unsent, Taken, Ending, NotYet, TakenTo
<1>2. QED
  BY <1>1 DEF TalkInv

(* What the host may have asked, told apart by the command.                 *)
LEMMA AskedIs ==
  ASSUME NEW c, Asked(c)
  PROVE  /\ c # NoPacket
         /\ c.op = "BEGIN" => c = BeginCmd /\ host.phase = "begin"
         /\ c.op = "DATA" => host.phase = "data" /\ \E n \in 1 .. Unsent : c = DataCmd(n)
         /\ c.op = "END" => c = EndCmd /\ host.phase = "data" /\ Unsent = 0
         /\ c.op = "ERASE" => c \in {EraseCmd, ChipCmd} /\ host.phase = "erasing"
         /\ c.op \in {"BEGIN", "DATA", "END", "ERASE"}
  BY DEF Asked, BeginCmd, DataCmd, EndCmd, EraseCmd, ChipCmd, NoPacket

(* The units of a packet.                                                   *)
LEMMA UnitsAre ==
  ASSUME NEW gen \in Nat, NEW from \in Nat, NEW n \in Nat
  PROVE  /\ Units(gen, from, n) \in Seq(Nat) /\ Len(Units(gen, from, n)) = n
         /\ \A x \in 1 .. n : Units(gen, from, n)[x] = Unit(gen, from + x - 1)
<1>1. \A x \in 1 .. n : Unit(gen, from + x - 1) \in Nat
  BY DEF Unit
<1>2. Units(gen, from, n) \in [1 .. n -> Nat]
  BY <1>1 DEF Units
<1>3. Units(gen, from, n) \in Seq(Nat) /\ Len(Units(gen, from, n)) = n
  BY <1>2
<1>4. \A x \in 1 .. n : Units(gen, from, n)[x] = Unit(gen, from + x - 1)
  BY DEF Units
<1>5. QED
  BY <1>3, <1>4

(* A packet of the host, and what it holds.                                 *)
LEMMA PacketIs ==
  ASSUME FlashInv, NEW n \in 1 .. Unsent
  PROVE  /\ n \in Nat /\ host.gen \in Nat /\ host.sent \in Nat /\ host.seq \in Nat
         /\ host.size \in Nat /\ host.sent + n <= host.size
         /\ DataCmd(n).op = "DATA" /\ DataCmd(n).seq = host.seq
         /\ Len(DataCmd(n).units) = n /\ DataCmd(n).units \in Seq(Nat)
         /\ \A x \in 1 .. n : DataCmd(n).units[x] = Unit(host.gen, host.sent + x - 1)
<1>1. /\ n \in Nat /\ host.gen \in Nat /\ host.sent \in Nat /\ host.seq \in Nat
      /\ host.size \in Nat /\ host.sent + n <= host.size
  BY DEF FlashInv, HostOK, Unsent
<1>2. /\ DataCmd(n).op = "DATA" /\ DataCmd(n).seq = host.seq
      /\ DataCmd(n).units = Units(host.gen, host.sent, n)
  BY DEF DataCmd
<1>3. Units(host.gen, host.sent, n) \in Seq(Nat) /\ Len(Units(host.gen, host.sent, n)) = n
  BY <1>1, UnitsAre
<1>4. \A x \in 1 .. n : Units(host.gen, host.sent, n)[x] = Unit(host.gen, host.sent + x - 1)
  BY DEF Units
<1>5. QED
  BY <1>1, <1>2, <1>3, <1>4

(* A command that is received: the host waits for its answer.               *)
LEMMA ReceivedIs ==
  ASSUME FlashInv, TalkInv, NEW op \in {"BEGIN", "DATA", "END", "ERASE"}, Receive(op)
  PROVE  /\ current = "uart" /\ ev.ev = "UART_RXD"
         /\ upc = "rx" /\ cmd = NoPacket /\ packet # NoPacket
         /\ packet.op = op /\ Asked(packet) /\ waiting /\ ~Nothing
         /\ cmd' = packet /\ packet' = NoPacket
         /\ UNCHANGED <<programmer, worker, device, failed, waiting, host>>
         /\ mem.cpy = <<>>
<1>1. /\ upc = "rx" /\ packet.op = op /\ cmd' = packet /\ packet' = NoPacket
      /\ UNCHANGED <<programmer, worker, device, failed, waiting, host>>
      /\ current = "uart" /\ ev.ev = "UART_RXD"
  BY DEF Receive, Uart, UartUnchanged
<1>2. packet # NoPacket
  BY <1>1 DEF NoPacket
<1>3. QED
  BY <1>1, <1>2 DEF TalkInv, InTurn, Nothing, FlashInv, LoaderOK

(* The turns of the conversation after a command has been received.         *)
LEMMA ReceivedInTurn ==
  ASSUME FlashInv, TalkInv, NEW op \in {"BEGIN", "DATA", "END", "ERASE"}, Receive(op),
         op = "BEGIN" => upc' = "reply",
         op = "DATA" => upc' \in {"copy", "reply"},
         op = "END" => upc' \in {"end", "reply"},
         op = "ERASE" => upc' = "erase_wait"
  PROVE  InTurn'
<1>1. InTurn
  BY DEF TalkInv
<1>2. /\ packet # NoPacket /\ packet.op = op /\ Asked(packet) /\ waiting /\ ~Nothing
      /\ cmd' = packet /\ packet' = NoPacket
      /\ waiting' = waiting /\ host' = host
  BY ReceivedIs
<1>3. Asked(cmd)' /\ ~Nothing' /\ upc' # "rx"
  BY <1>2 DEF Asked, BeginCmd, DataCmd, EndCmd, EraseCmd, ChipCmd, Unsent, Nothing
<1>4. /\ host.phase # "resend"
      /\ host.phase = "begin" => host.sent = 0 /\ host.seq = 0
  BY <1>1, <1>2, AskedIs DEF InTurn
<1>5. QED
  BY <1>1, <1>2, <1>3, <1>4 DEF InTurn

(* FLASH_BEGIN: nothing of the new image has been taken.                    *)
LEMMA BeginTalk == ASSUME FlashInv, TalkInv, FlashBegin PROVE TalkInv'
<1>1. /\ Receive("BEGIN") /\ upc' = "reply" /\ res' = "OK"
      /\ mem' = [mem EXCEPT !.remaining = packet.size, !.seq = -1, !.mode = TRUE]
  BY DEF FlashBegin
<1>2. /\ packet = BeginCmd /\ host.phase = "begin" /\ cmd' = BeginCmd /\ packet' = NoPacket
      /\ host' = host /\ mem.cpy = <<>>
  BY <1>1, ReceivedIs, AskedIs
<1>3. InTurn' /\ Refusals'
  BY <1>1, ReceivedInTurn DEF Refusals
<1>4. host.size \in Nat /\ mem'.remaining = host.size /\ mem'.seq = -1 /\ mem'.mode
  BY <1>1, <1>2 DEF BeginCmd, FlashInv, LoaderOK, HostOK
<1>5. Taken' = 0 /\ ~Ending'
  BY <1>2, <1>4 DEF Taken, Ending, BeginCmd
<1>6. host.sent = 0 /\ host.seq = 0
  BY <1>2 DEF TalkInv, InTurn
<1>7. InStep'
  BY <1>1, <1>2, <1>4, <1>5, <1>6 DEF InStep, NotYet, BeginCmd, NoPacket
<1>8. QED
  BY <1>3, <1>7 DEF TalkInv

(* FLASH_DATA: a packet that was not yet taken, or one that was and whose   *)
(* answer got lost; its units are copied once.                              *)
LEMMA DataTalk == ASSUME FlashInv, TalkInv, FlashData PROVE TalkInv'
<1>1. /\ Receive("DATA") /\ upc' \in {"reply", "copy"} /\ (res' = "OK" <=> upc' = "copy")
      /\ res' = DataResult(packet)
      /\ mem' = IF res' = "OK" THEN [mem EXCEPT !.seq = packet.seq, !.cpy = ToCopy(packet)] ELSE mem
  BY DEF FlashData
<1>2. PICK n \in 1 .. Unsent : packet = DataCmd(n)
  BY <1>1, ReceivedIs, AskedIs
<1>3. /\ upc = "rx" /\ host.phase = "data"
      /\ cmd = NoPacket /\ cmd' = DataCmd(n) /\ packet' = NoPacket
      /\ host' = host /\ mem.cpy = <<>> /\ ~Nothing
  BY <1>1, <1>2, ReceivedIs, AskedIs
<1>4. InTurn'
  BY <1>1, ReceivedInTurn
<1>5. /\ n \in Nat /\ host.gen \in Nat /\ host.sent \in Nat /\ host.seq \in Nat
      /\ host.size \in Nat /\ host.sent + n <= host.size
      /\ DataCmd(n).op = "DATA" /\ DataCmd(n).seq = host.seq
      /\ Len(DataCmd(n).units) = n /\ DataCmd(n).units \in Seq(Nat)
      /\ \A x \in 1 .. n : DataCmd(n).units[x] = Unit(host.gen, host.sent + x - 1)
  BY PacketIs
<1> DEFINE c == DataCmd(n)
<1> HIDE DEF c
<1>6. /\ mem \in [remaining : Nat, seq : Nat \cup {-1}, mode : BOOLEAN, cpy : Seq(Nat)]
  BY DEF FlashInv, LoaderOK
<1>7. Followed /\ InStep /\ ~Ending /\ ~Ending' /\ mem.mode
  BY <1>3, <1>5 DEF TalkInv, Followed, InStep, Ending, NoPacket
<1>8. NotYet \/ TakenTo(n)
  BY <1>2, <1>5, <1>7 DEF InStep
<1>9. Taken = host.size - mem.remaining
  BY <1>7 DEF Taken
<1>10. NotYet => res' = "OK"
  BY <1>1, <1>2, <1>5, <1>6, <1>7, <1>9 DEF NotYet, DataResult, InSequence
<1>11. Refusals'
  BY <1>1, <1>3, <1>5, <1>8, <1>10 DEF Refusals, TakenTo
<1>12. CASE res' # "OK"
  <2>1. ~Followed'
    BY <1>1, <1>3, <1>12 DEF Followed
  <2>2. QED
    BY <1>4, <1>11, <2>1 DEF TalkInv
<1>13. CASE res' = "OK"
  <2>1. mem' = [mem EXCEPT !.seq = host.seq,
                           !.cpy = IF host.seq = mem.seq THEN <<>> ELSE c.units]
    BY <1>1, <1>2, <1>5, <1>13 DEF ToCopy, c
  <2>2. /\ mem'.remaining = mem.remaining /\ mem'.seq = host.seq /\ mem'.mode = mem.mode
        /\ mem'.cpy = IF host.seq = mem.seq THEN <<>> ELSE c.units
    BY <1>6, <2>1
  <2>3. Taken' = Taken
    BY <1>3, <1>7, <2>2 DEF Taken
  <2>4. Taken' + Len(mem'.cpy) = host.sent + n
        /\ \A x \in 1 .. Len(mem'.cpy) : mem'.cpy[x] = Unit(host.gen, Taken' + x - 1)
    <3>1. CASE host.seq = mem.seq
      <4>1. TakenTo(n) /\ mem'.cpy = <<>> /\ Len(<<>>) = 0
        BY <1>5, <1>8, <2>2, <3>1, EmptySeq DEF NotYet
      <4>2. QED
        BY <1>5, <2>3, <4>1 DEF TakenTo
    <3>2. CASE host.seq # mem.seq
      <4>1. mem'.cpy = c.units /\ Taken' = host.sent
        BY <1>8, <2>2, <2>3, <3>2 DEF NotYet, TakenTo
      <4>2. QED
        BY <1>5, <4>1 DEF c
    <3>3. QED
      BY <3>1, <3>2
  <2>5. InStep'
    <3>1. /\ host'.phase = "data" /\ cmd'.op = "DATA" /\ packet'.op = "none"
          /\ ~Nothing' /\ Len(cmd'.units) = n /\ host' = host
      BY <1>3, <1>5 DEF NoPacket, Nothing
    <3>2. Taken' \in 0 .. host.size
      BY <1>7, <2>3 DEF InStep
    <3>3. QED
      BY <1>7, <2>2, <2>4, <3>1, <3>2 DEF InStep
  <2>6. QED
    BY <1>4, <1>11, <2>5 DEF TalkInv
<1>14. QED
  BY <1>12, <1>13

(* The command of the copy loop.                                            *)
LEMMA CopyingIs ==
  ASSUME TalkInv, upc \in {"copy", "copy_wait"}
  PROVE  /\ cmd.op = "DATA" /\ host.phase = "data" /\ packet = NoPacket /\ ~Nothing
         /\ res = "OK" /\ \E n \in 1 .. Unsent : cmd = DataCmd(n)
<1>1. cmd # NoPacket /\ packet = NoPacket /\ Asked(cmd) /\ ~Nothing /\ res = "OK"
  BY DEF TalkInv, InTurn, Nothing, Refusals
<1>2. cmd.op \in {"BEGIN", "DATA", "END", "ERASE"}
  BY <1>1, AskedIs
<1>3. cmd.op = "DATA"
  BY <1>2 DEF TalkInv, InTurn
<1>4. QED
  BY <1>1, <1>3, AskedIs

(* The command that is waited for at FLASH_END.                             *)
LEMMA EndingIs ==
  ASSUME TalkInv, upc \in {"end", "end_wait"}
  PROVE  cmd.op = "END" /\ host.phase = "data" /\ packet = NoPacket /\ ~Nothing /\ res = "OK"
<1>1. cmd # NoPacket /\ packet = NoPacket /\ Asked(cmd) /\ ~Nothing /\ res = "OK"
  BY DEF TalkInv, InTurn, Nothing, Refusals
<1>2. cmd.op \in {"BEGIN", "DATA", "END", "ERASE"}
  BY <1>1, AskedIs
<1>3. cmd.op = "END"
  BY <1>2 DEF TalkInv, InTurn
<1>4. QED
  BY <1>1, <1>3, AskedIs

(* The command that is waited for in an erasure.                            *)
LEMMA ErasingIs ==
  ASSUME TalkInv, upc = "erase_wait"
  PROVE  /\ cmd.op = "ERASE" /\ cmd \in {EraseCmd, ChipCmd} /\ host.phase = "erasing"
         /\ packet = NoPacket /\ ~Nothing /\ res = "OK"
<1>1. cmd # NoPacket /\ packet = NoPacket /\ Asked(cmd) /\ ~Nothing /\ res = "OK"
  BY DEF TalkInv, InTurn, Nothing, Refusals
<1>2. cmd.op \in {"BEGIN", "DATA", "END", "ERASE"}
  BY <1>1, AskedIs
<1>3. cmd.op = "ERASE"
  BY <1>2 DEF TalkInv, InTurn
<1>4. QED
  BY <1>1, <1>3, AskedIs

(* What a turn of the copy loop takes out of the packet.                    *)
LEMMA CopiedIs ==
  ASSUME FlashInv, CopyBlock
  PROVE  /\ CopyLen \in Nat \ {0} /\ CopyLen <= Len(mem.cpy) /\ Len(mem.cpy) <= mem.remaining
         /\ Len(mem.cpy) \in Nat /\ mem.remaining \in Nat
         /\ mem'.remaining = mem.remaining - CopyLen
         /\ mem'.seq = mem.seq /\ mem'.mode = mem.mode
         /\ Len(mem'.cpy) = Len(mem.cpy) - CopyLen
         /\ \A x \in 1 .. Len(mem'.cpy) : mem'.cpy[x] = mem.cpy[CopyLen + x]
<1>1. /\ mem \in [remaining : Nat, seq : Nat \cup {-1}, mode : BOOLEAN, cpy : Seq(Nat)]
      /\ Len(mem.cpy) <= mem.remaining /\ Len(mem.cpy) \in Nat /\ mem.cpy \in Seq(Nat)
  BY LenProperties DEF FlashInv, LoaderOK
<1>2. CopyLen \in Nat \ {0} /\ CopyLen <= Len(mem.cpy)
  BY CopyFits, RingAssumption
<1>3. /\ mem' = [mem EXCEPT !.remaining = @ - CopyLen, !.cpy = SubSeq(@, CopyLen + 1, Len(@))]
  BY DEF CopyBlock
<1>4. /\ mem'.remaining = mem.remaining - CopyLen
      /\ mem'.seq = mem.seq /\ mem'.mode = mem.mode
      /\ mem'.cpy = SubSeq(mem.cpy, CopyLen + 1, Len(mem.cpy))
  BY <1>1, <1>3
<1>5. Len(mem'.cpy) = Len(mem.cpy) - CopyLen
  BY <1>4, CopyFits
<1>6. \A x \in 1 .. Len(mem'.cpy) : mem'.cpy[x] = mem.cpy[CopyLen + x]
  BY <1>1, <1>2, <1>4, <1>5
<1>7. QED
  BY <1>1, <1>2, <1>4, <1>5, <1>6

(* A turn of the copy loop takes the next units.                            *)
LEMMA CopyTalk == ASSUME FlashInv, TalkInv, CopyBlock PROVE TalkInv'
<1>1. /\ upc = "copy" /\ UNCHANGED <<upc, cmd, res, packet, waiting, host>>
  BY DEF CopyBlock, Uart, UartUnchanged
<1>2. cmd.op = "DATA" /\ host.phase = "data" /\ packet = NoPacket /\ ~Nothing
  BY <1>1, CopyingIs
<1>3. InTurn' /\ Refusals'
  BY <1>1 DEF TalkInv, Refusals, InTurn, Nothing, Asked, BeginCmd, DataCmd, EndCmd, EraseCmd,
     ChipCmd, Unsent
<1>4. Followed /\ InStep /\ ~Ending /\ ~Ending'
  BY <1>1, <1>2 DEF TalkInv, Followed, Ending
<1>5. PICK len \in Nat \ {0} : len = CopyLen
  BY CopiedIs
<1>6. /\ len <= Len(mem.cpy) /\ Len(mem.cpy) <= mem.remaining
      /\ Len(mem.cpy) \in Nat /\ mem.remaining \in Nat
      /\ mem'.remaining = mem.remaining - len
      /\ mem'.seq = mem.seq /\ mem'.mode = mem.mode
      /\ Len(mem'.cpy) = Len(mem.cpy) - len
      /\ \A x \in 1 .. Len(mem'.cpy) : mem'.cpy[x] = mem.cpy[len + x]
  BY <1>5, CopiedIs
<1>7. /\ Taken \in Nat /\ host.size \in Nat /\ Taken <= host.size
      /\ Taken = host.size - mem.remaining /\ Taken' = Taken + len
  BY <1>1, <1>4, <1>6 DEF Taken, InStep, FlashInv, HostOK
<1>8. /\ mem.seq = host.seq
      /\ Taken + Len(mem.cpy) = host.sent + Len(cmd.units)
      /\ \A x \in 1 .. Len(mem.cpy) : mem.cpy[x] = Unit(host.gen, Taken + x - 1)
  BY <1>2, <1>4 DEF InStep
<1>9. /\ mem'.seq = host.seq /\ Taken' + Len(mem'.cpy) = host.sent + Len(cmd.units)
      /\ Taken' \in 0 .. host.size
  <2>1. /\ Len(mem'.cpy) = Len(mem.cpy) - len /\ Len(mem.cpy) \in Nat
        /\ len <= mem.remaining /\ mem.remaining \in Nat
    BY <1>6
  <2>2. Taken' + Len(mem'.cpy) = Taken + Len(mem.cpy)
    BY <1>7, <2>1
  <2>3. Taken' \in Nat /\ Taken' <= host.size
    BY <1>7, <2>1
  <2>4. mem'.seq = host.seq
    BY <1>6, <1>8
  <2>5. QED
    BY <1>7, <1>8, <2>2, <2>3, <2>4
<1>10. ASSUME NEW x \in 1 .. Len(mem'.cpy)
      PROVE  mem'.cpy[x] = Unit(host.gen, Taken' + x - 1)
  <2>1. len + x \in 1 .. Len(mem.cpy) /\ Taken + (len + x) - 1 = Taken' + x - 1
    BY <1>6, <1>7
  <2>2. QED
    BY <1>6, <1>8, <2>1
<1>11. InStep'
  BY <1>1, <1>2, <1>4, <1>6, <1>9, <1>10 DEF InStep, NoPacket, Nothing
<1>12. QED
  BY <1>3, <1>11 DEF TalkInv

(* The loops wait, turn, and are left for the reply.                        *)
LEMMA LoopTalk ==
  ASSUME FlashInv, TalkInv,
         \/ CopyTest \/ EndTest \/ EraseResume
         \/ LoopAgain("copy_wait", "copy") \/ LoopAgain("end_wait", "end")
  PROVE  TalkInv'
<1>1. /\ UNCHANGED <<cmd, res, mem, packet, waiting, host>>
      /\ upc \in {"copy", "copy_wait"} => upc' \in {"copy", "copy_wait", "reply"}
      /\ upc \in {"end", "end_wait"} => upc' \in {"end", "end_wait", "reply"}
      /\ upc = "erase_wait" => upc' \in {"erase_wait", "reply"}
      /\ upc \in {"copy", "copy_wait", "end", "end_wait", "erase_wait"}
      /\ upc' = "reply" => upc \in {"copy", "end", "erase_wait"}
  BY DEF CopyTest, EndTest, EraseResume, LoopAgain, Uart, UartUnchanged
<1>2. /\ packet = NoPacket /\ ~Nothing /\ res = "OK"
      /\ upc \in {"copy", "copy_wait"} => cmd.op = "DATA"
      /\ upc \in {"end", "end_wait"} => cmd.op = "END"
      /\ upc = "erase_wait" => cmd.op = "ERASE"
  BY <1>1, CopyingIs, EndingIs, ErasingIs
<1>3. InTurn' /\ Refusals'
  <2>1. upc' # "rx" /\ upc # "rx"
    BY <1>1
  <2>2. QED
    BY <1>1, <1>2, <2>1
    DEF TalkInv, Refusals, InTurn, Nothing, Asked, BeginCmd, DataCmd, EndCmd, EraseCmd, ChipCmd, Unsent
<1>4. Followed' => Followed
  BY <1>1, <1>2 DEF Followed
<1>5. InStep => InStep'
  BY <1>1, <1>2 DEF InStep, Nothing, Ending, Taken, NotYet, TakenTo
<1>6. QED
  BY <1>3, <1>4, <1>5 DEF TalkInv

(* FLASH_END: the whole image has been taken.                               *)
LEMMA EndTalk == ASSUME FlashInv, TalkInv, FlashEnd PROVE TalkInv'
<1>1. /\ Receive("END")
      /\ res' = (IF mem.remaining > 0 THEN "NOT_ENOUGH_DATA" ELSE "OK")
      /\ mem' = [mem EXCEPT !.remaining = 1, !.mode = FALSE]
      /\ upc' = IF res' = "OK" THEN "end" ELSE "reply"
  BY DEF FlashEnd
<1>2. /\ upc = "rx" /\ packet = EndCmd /\ host.phase = "data" /\ Unsent = 0
      /\ cmd = NoPacket /\ cmd' = EndCmd /\ packet' = NoPacket /\ host' = host
  BY <1>1, ReceivedIs, AskedIs
<1>3. InTurn'
  BY <1>1, ReceivedInTurn
<1>4. Followed /\ InStep /\ ~Ending /\ Ending' /\ NotYet
  BY <1>2 DEF TalkInv, Followed, InStep, Ending, NoPacket, EndCmd
<1>5. /\ host.sent = host.size /\ mem.remaining = 0 /\ host.size \in Nat
      /\ mem \in [remaining : Nat, seq : Nat \cup {-1}, mode : BOOLEAN, cpy : Seq(Nat)]
  BY <1>2, <1>4 DEF NotYet, Taken, Unsent, FlashInv, LoaderOK, HostOK
<1>6. Refusals'
  BY <1>1, <1>5 DEF Refusals
<1>7. InStep'
  <2>1. Taken' = host.size
    BY <1>2, <1>4 DEF Taken
  <2>2. /\ cmd'.op = "END" /\ packet'.op = "none" /\ ~Nothing' /\ host'.phase = "data"
    BY <1>2 DEF Nothing, NoPacket, EndCmd
  <2>3. QED
    BY <1>2, <1>4, <1>5, <2>1, <2>2 DEF InStep
<1>8. QED
  BY <1>3, <1>6, <1>7 DEF TalkInv

(* An erasure begins.                                                       *)
LEMMA EraseTalk == ASSUME FlashInv, TalkInv, FlashErase PROVE TalkInv'
<1>1. Receive("ERASE") /\ res' = "OK" /\ upc' = "erase_wait"
  BY DEF FlashErase
<1>2. host.phase = "erasing" /\ host' = host
  BY <1>1, ReceivedIs, AskedIs
<1>3. InTurn' /\ Refusals' /\ ~Followed'
  BY <1>1, <1>2, ReceivedInTurn DEF Refusals, Followed
<1>4. QED
  BY <1>3 DEF TalkInv

(* The answer: the host goes on, sends the packet again, or stops.          *)
LEMMA ReplyTalk == ASSUME FlashInv, TalkInv, Reply PROVE TalkInv'
<1>1. /\ upc = "reply" /\ waiting' = FALSE /\ upc' = "rx" /\ cmd' = NoPacket
      /\ UNCHANGED <<res, mem, packet>>
  BY DEF Reply, Uart
<1>2. /\ cmd # NoPacket /\ packet = NoPacket /\ Asked(cmd) /\ Nothing'
      /\ cmd.op \in {"BEGIN", "DATA", "END", "ERASE"}
  BY <1>1, AskedIs DEF TalkInv, InTurn, Nothing
<1>3. /\ host.phase \in {"begin", "data", "erasing"}
      /\ cmd.op = "BEGIN" => host.phase = "begin"
      /\ cmd.op \in {"DATA", "END"} => host.phase = "data"
      /\ cmd.op = "ERASE" => host.phase = "erasing"
      /\ host.phase \in {"begin", "data"} => host.sent <= host.size
  BY <1>2, AskedIs DEF TalkInv, InTurn
<1>4. Refusals' /\ mem.cpy = <<>>
  BY <1>1 DEF Refusals, FlashInv, LoaderOK
<1>5. ASSUME host'.phase \in {"data", "done", "stopped", "erased", "chip_erased"},
             host'.phase \in {"data", "done"} => host'.sent <= host'.size
      PROVE  InTurn'
  BY <1>1, <1>2, <1>5 DEF InTurn, NoPacket
<1>6. ASSUME res = "OK", cmd.op # "ERASE"
      PROVE  Followed /\ InStep /\ host.phase # "done"
  BY <1>2, <1>3, <1>6 DEF TalkInv, Followed
<1>7. host \in [phase : Phase, gen : Nat, offset : Nat, size : Nat, sent : Nat,
                seq : Nat, last : {NoPacket} \cup DataPacket, resends : Nat]
  BY DEF FlashInv, HostOK
<1>8. CASE host' = [host EXCEPT !.phase = "stopped"]
  <2>1. host'.phase = "stopped"
    BY <1>7, <1>8
  <2>2. ~Followed'
    BY <2>1 DEF Followed
  <2>3. QED
    BY <1>4, <1>5, <2>1, <2>2 DEF TalkInv
<1>9. CASE cmd.op = "ERASE" /\ host' = Accepted
  <2>1. host'.phase \in {"erased", "chip_erased"}
    BY <1>7, <1>9 DEF Accepted
  <2>2. ~Followed'
    BY <2>1 DEF Followed
  <2>3. QED
    BY <1>4, <1>5, <2>1, <2>2 DEF TalkInv
<1>10. CASE res = "OK" /\ cmd.op \in {"BEGIN", "END"} /\ host' = Accepted
  <2>1. host' = [host EXCEPT !.phase = IF cmd.op = "BEGIN" THEN "data" ELSE "done"]
    BY <1>7, <1>10 DEF Accepted
  <2>2. /\ host'.phase = IF cmd.op = "BEGIN" THEN "data" ELSE "done"
        /\ host'.size = host.size /\ host'.sent = host.sent /\ host'.seq = host.seq
        /\ host'.gen = host.gen
    BY <1>7, <2>1
  <2>3. /\ (Ending' <=> Ending) /\ Taken' = Taken
    BY <1>1, <1>6, <1>10, <2>2 DEF Taken, Ending, NoPacket
  <2>4. cmd.op = "BEGIN" => NotYet'
    BY <1>1, <1>6, <1>10, <2>2, <2>3 DEF InStep, NotYet
  <2>5. InStep'
    BY <1>1, <1>2, <1>6, <1>10, <2>2, <2>3, <2>4 DEF InStep, NoPacket
  <2>6. InTurn'
    BY <1>3, <1>5, <1>10, <2>2
  <2>7. QED
    BY <1>4, <2>5, <2>6 DEF TalkInv
<1>11. CASE res = "OK" /\ cmd.op = "DATA" /\ host' \in
              {Accepted, [host EXCEPT !.phase = "resend", !.resends = @ + 1, !.last = cmd]}
  <2>1. PICK n \in 1 .. Unsent : cmd = DataCmd(n)
    BY <1>2, <1>11, AskedIs
  <2>2. /\ n \in Nat /\ host.gen \in Nat /\ host.sent \in Nat /\ host.seq \in Nat
        /\ host.size \in Nat /\ host.sent + n <= host.size /\ Len(cmd.units) = n
    BY <2>1, PacketIs
  <2>3. host.phase = "data" /\ ~Ending
    BY <1>3, <1>11 DEF Ending
  <2>4. /\ mem.seq = host.seq /\ Taken = host.sent + n /\ Taken = host.size - mem.remaining
        /\ mem.mode /\ Taken \in 0 .. host.size
    <3>1. Taken \in Nat /\ mem.seq = host.seq /\ Taken + Len(mem.cpy) = host.sent + n /\ Len(<<>>) = 0
      BY <1>6, <1>11, <2>2, EmptySeq DEF InStep
    <3>2. QED
      BY <1>4, <1>6, <1>11, <2>2, <2>3, <3>1 DEF Taken, InStep
  <2>5. CASE host' = Accepted
    <3>1. host' = [host EXCEPT !.phase = "data", !.sent = host.sent + n, !.seq = host.seq + 1]
      BY <1>7, <1>11, <2>2, <2>5 DEF Accepted
    <3>2. /\ host'.phase = "data" /\ host'.size = host.size /\ host'.sent = host.sent + n
          /\ host'.gen = host.gen /\ host'.seq = host.seq + 1
      BY <1>7, <3>1
    <3>3. Taken' = Taken /\ ~Ending'
      BY <1>1, <2>4, <3>2 DEF Taken, Ending, NoPacket
    <3>4. NotYet'
      BY <1>1, <2>2, <2>4, <3>2, <3>3 DEF NotYet
    <3>5. InStep'
      BY <1>1, <1>2, <2>4, <3>2, <3>3, <3>4 DEF InStep, NoPacket
    <3>6. InTurn'
      BY <1>5, <2>2, <3>2
    <3>7. QED
      BY <1>4, <3>5, <3>6 DEF TalkInv
  <2>6. CASE host' = [host EXCEPT !.phase = "resend", !.resends = @ + 1, !.last = cmd]
    <3>1. host' = [phase |-> "resend", gen |-> host.gen, offset |-> host.offset,
                   size |-> host.size, sent |-> host.sent, seq |-> host.seq,
                   last |-> cmd, resends |-> host.resends + 1]
      BY <1>7, <2>6
    <3>2. /\ host'.phase = "resend" /\ host'.size = host.size /\ host'.sent = host.sent
          /\ host'.gen = host.gen /\ host'.seq = host.seq /\ host'.last = cmd
          /\ host'.resends > 0
      BY <1>7, <3>1
    <3>3. Taken' = Taken /\ ~Ending'
      BY <1>1, <2>4, <3>2 DEF Taken, Ending, NoPacket
    <3>4. n \in 1 .. Unsent' /\ host'.last = DataCmd(n)'
      BY <2>1, <3>2 DEF Unsent, DataCmd
    <3>5. InTurn'
      <4>1. host'.sent <= host'.size
        BY <2>2, <3>2
      <4>2. (\E x \in 1 .. Unsent : host.last = DataCmd(x))'
        BY <3>4
      <4>3. QED
        BY <1>1, <1>2, <3>2, <4>1, <4>2 DEF InTurn, NoPacket
    <3>6. TakenTo(Len(host.last.units))'
      BY <1>1, <2>2, <2>4, <3>2, <3>3 DEF TakenTo
    <3>7. InStep'
      BY <1>1, <1>2, <2>4, <3>2, <3>3, <3>6 DEF InStep, NoPacket
    <3>8. QED
      BY <1>4, <3>5, <3>7 DEF TalkInv
  <2>7. QED
    BY <1>11, <2>5, <2>6
<1>12. QED
  BY <1>2, <1>8, <1>9, <1>10, <1>11 DEF Reply

(* A command that is sent: the host waits for the answer.                   *)
LEMMA SentIs ==
  ASSUME TalkInv, NEW c, Send(c)
  PROVE  /\ Nothing /\ upc = "rx" /\ packet = NoPacket /\ cmd = NoPacket /\ ~waiting
         /\ packet' = c /\ waiting' = TRUE
         /\ UNCHANGED <<kernel, loader, pipeline, programmer, worker, device, failed>>
         /\ UNCHANGED <<upc, cmd, res, mem, error>>
         /\ host.phase \notin {"begin", "erasing"}
  BY DEF Send, loader, TalkInv, InTurn, Nothing

(* ... and the turns of the conversation go on.                             *)
LEMMA SentInTurn ==
  ASSUME TalkInv, NEW c, Send(c), Asked(c)',
         host'.phase = "begin" => host'.sent = 0 /\ host'.seq = 0,
         host'.phase \in {"begin", "data"} => host'.sent <= host'.size
  PROVE  InTurn' /\ Refusals' /\ ~Nothing'
<1>1. /\ upc' = "rx" /\ packet' = c /\ cmd' = NoPacket /\ waiting' = TRUE
  BY SentIs
<1>2. Asked(packet)' /\ c # NoPacket /\ host'.phase \in {"begin", "data", "erasing"}
  BY <1>1 DEF Asked, BeginCmd, DataCmd, EndCmd, EraseCmd, ChipCmd, Unsent, NoPacket
<1>3. ~Nothing'
  BY <1>1, <1>2 DEF Nothing
<1>4. InTurn' /\ Refusals'
  BY <1>1, <1>2, <1>3 DEF InTurn, Refusals, NoPacket
<1>5. QED
  BY <1>3, <1>4

(* What the host sends of the image it is writing: a new packet, the last   *)
(* one again, or the end.                                                   *)
LEMMA SendTalk ==
  ASSUME FlashInv, TalkInv, NEW c, Send(c), host'.phase = "data",
         host.phase \in {"data", "resend"},
         host'.size = host.size, host'.sent = host.sent, host'.seq = host.seq,
         host'.gen = host.gen, host'.resends = host.resends,
         \/ host.phase = "data" /\ Unsent = 0 /\ c = EndCmd
         \/ /\ \E n \in 1 .. Unsent : c = DataCmd(n)
            /\ host.phase = "resend" => c = host.last
  PROVE  TalkInv'
<1>1. /\ Unsent' = Unsent /\ \A n : DataCmd(n)' = DataCmd(n)
      /\ c.op \in {"DATA", "END"}
  BY DEF Unsent, DataCmd, EndCmd
<1>2. /\ Nothing /\ packet' = c /\ cmd = NoPacket /\ cmd' = NoPacket
      /\ UNCHANGED <<upc, cmd, res, mem>> /\ upc = "rx"
  BY SentIs
<1>3. Asked(c)' /\ host.sent <= host.size
  BY <1>1 DEF Asked, EndCmd, TalkInv, InTurn
<1>4. InTurn' /\ Refusals' /\ ~Nothing'
  BY <1>3, SentInTurn
<1>5. Followed /\ InStep
  BY <1>2 DEF TalkInv, Followed
<1>6. /\ ~Ending /\ ~Ending' /\ Taken' = Taken
      /\ (NotYet <=> NotYet') /\ \A n : TakenTo(n) <=> TakenTo(n)'
  BY <1>2 DEF Ending, Taken, NotYet, TakenTo, NoPacket
<1>7. host.phase = "data" => NotYet
  BY <1>2, <1>5 DEF InStep
<1>8. host.phase = "resend" => TakenTo(Len(c.units)) /\ c.op # "END"
  BY <1>5 DEF InStep, DataCmd
<1>9. InStep'
  <2>1. /\ cmd'.op = "none" /\ host'.phase = "data" /\ ~Nothing' /\ ~Ending'
        /\ Taken' \in 0 .. host'.size /\ mem'.mode
    BY <1>2, <1>4, <1>5, <1>6 DEF InStep, NoPacket
  <2>2. /\ packet'.op = "END" => NotYet'
        /\ packet'.op = "DATA" => NotYet' \/ TakenTo(Len(packet.units))'
    BY <1>1, <1>2, <1>6, <1>7, <1>8 DEF TakenTo
  <2>3. QED
    BY <2>1, <2>2 DEF InStep
<1>10. QED
  BY <1>4, <1>9 DEF TalkInv

(* The host keeps to the conversation.                                      *)
LEMMA HostTalk == ASSUME FlashInv, TalkInv, HostStep PROVE TalkInv'
<1>0. /\ host \in [phase : Phase, gen : Nat, offset : Nat, size : Nat, sent : Nat,
                   seq : Nat, last : {NoPacket} \cup DataPacket, resends : Nat]
      /\ InTurn
  BY DEF FlashInv, HostOK, TalkInv
<1>1. ASSUME NEW r \in Images, SendBegin(r) PROVE TalkInv'
  <2>1. r.offset \in Nat /\ r.size \in Nat
    BY FlashAssumption
  <2> DEFINE c == [op |-> "BEGIN", offset |-> r.offset, size |-> r.size]
  <2>2. /\ Send(c)
        /\ host' = [host EXCEPT !.phase = "begin", !.gen = @ + 1,
                                !.offset = r.offset, !.size = r.size, !.sent = 0, !.seq = 0]
    BY <1>1 DEF SendBegin
  <2>3. /\ host'.phase = "begin" /\ host'.sent = 0 /\ host'.seq = 0
        /\ host'.offset = r.offset /\ host'.size = r.size
    BY <1>0, <2>2
  <2>4. Asked(c)'
    BY <2>3 DEF Asked, BeginCmd
  <2> HIDE DEF c
  <2>5. InTurn' /\ Refusals'
    BY <2>1, <2>2, <2>3, <2>4, SentInTurn
  <2>6. ~Followed'
    BY <2>2, <2>3, SentIs DEF Followed
  <2>7. QED
    BY <2>5, <2>6 DEF TalkInv
<1>2. ASSUME NEW c, Send(c), host'.phase = "erasing", c \in {EraseCmd', ChipCmd} PROVE TalkInv'
  <2>1. Asked(c)'
    BY <1>2 DEF Asked, EraseCmd, ChipCmd
  <2>2. InTurn' /\ Refusals'
    BY <1>2, <2>1, SentInTurn
  <2>3. ~Followed'
    BY <1>2 DEF Followed
  <2>4. QED
    BY <2>2, <2>3 DEF TalkInv
<1>3. ASSUME NEW r \in Regions, SendErase(r) PROVE TalkInv'
  <2>1. host' = [host EXCEPT !.phase = "erasing", !.gen = @ + 1,
                             !.offset = r.offset, !.size = r.size]
    BY <1>3 DEF SendErase
  <2>2. host'.phase = "erasing" /\ host'.offset = r.offset /\ host'.size = r.size
    BY <1>0, <2>1
  <2>3. QED
    BY <1>2, <1>3, <2>2 DEF SendErase, EraseCmd
<1>4. CASE SendChipErase
  <2>1. host'.phase = "erasing"
    BY <1>0, <1>4 DEF SendChipErase
  <2>2. QED
    BY <1>2, <1>4, <2>1 DEF SendChipErase, ChipCmd
<1>5. ASSUME NEW len \in Packets, SendData(len) PROVE TalkInv'
  <2>1. Send(DataCmd(len)) /\ host' = host /\ host.phase = "data"
    BY <1>5 DEF SendData, DataCmd, Units
  <2>2. len \in 1 .. Unsent
    BY <1>0, <1>5, FlashAssumption DEF SendData, Unsent
  <2>3. QED
    BY <2>1, <2>2, SendTalk
<1>6. CASE SendAgain
  <2>1. /\ Send(host.last) /\ host.phase = "resend"
        /\ host' = [host EXCEPT !.phase = "data", !.last = NoPacket]
    BY <1>6 DEF SendAgain
  <2>2. \E n \in 1 .. Unsent : host.last = DataCmd(n)
    BY <1>0, <2>1 DEF InTurn
  <2>3. /\ host'.phase = "data" /\ host'.resends = host.resends
        /\ host'.size = host.size /\ host'.sent = host.sent /\ host'.seq = host.seq
        /\ host'.gen = host.gen
    BY <1>0, <2>1
  <2>4. QED
    BY <2>1, <2>2, <2>3, SendTalk
<1>7. CASE SendEnd
  <2>1. Send(EndCmd) /\ host' = host /\ host.phase = "data" /\ Unsent = 0
    BY <1>0, <1>7 DEF SendEnd, EndCmd, Unsent
  <2>2. QED
    BY <2>1, SendTalk
<1>8. QED
  BY <1>1, <1>3, <1>4, <1>5, <1>6, <1>7 DEF HostStep

(* Every step keeps to the conversation.                                    *)
LEMMA TalkKept == FlashInv /\ TalkInv /\ [Next]_vars => TalkInv'
<1> SUFFICES ASSUME FlashInv, TalkInv, [Next]_vars PROVE TalkInv'
  OBVIOUS
<1>1. CASE UNCHANGED vars
  BY <1>1, TalkFrame DEF vars, loader, outside
<1>2. CASE (\E p \in Worker : ServePoll(p)) \/ ServeEvent \/ RxInterrupt
  BY <1>2, TalkFrame DEF ServePoll, ServeEvent, RxInterrupt, loader, outside
<1>3. CASE FlashStep
  <2>1. FlashUnchanged
    BY <1>3 DEF FlashStep, FlashIdle, ChipErase, ChipErased, RegionErase, RegionErased, RegionDone,
       NextBlock, Drained, SectorErased, BlockProgrammed
  <2>2. QED
    BY <2>1, TalkFrame DEF FlashUnchanged, loader, outside
<1>4. CASE WorkerStep
  <2>1. WorkerUnchanged
    BY <1>4 DEF WorkerStep, EraseStart, ProgramStart, WriteEnable, ReadLatch, Resume, EraseCommand,
       ChipCommand, ProgramCommand, ReadChip, EraseRead, ProgramRead
  <2>2. QED
    BY <2>1, TalkFrame DEF WorkerUnchanged, loader, outside
<1>5. CASE RxOther
  BY <1>5, TalkFrame DEF RxOther, Uart, UartUnchanged
<1>6. CASE UartStep /\ ~RxOther
  BY <1>6, BeginTalk, DataTalk, EndTalk, EraseTalk, CopyTalk, LoopTalk, ReplyTalk DEF UartStep
<1>7. CASE HostStep
  BY <1>7, HostTalk
<1>8. QED
  BY <1>1, <1>2, <1>3, <1>4, <1>5, <1>6, <1>7 DEF Next, MainStep

(* Nothing is under way at first.                                           *)
LEMMA TalkAtFirst == Init => TalkInv
<1> SUFFICES ASSUME Init PROVE TalkInv
  OBVIOUS
<1>1. /\ upc = "rx" /\ cmd = NoPacket /\ packet = NoPacket /\ waiting = FALSE
      /\ host.phase = "none" /\ cmd.op = "none"
  BY DEF Init, NoPacket
<1>2. QED
  BY <1>1 DEF TalkInv, InTurn, Refusals, Followed, Nothing
-----------------------------------------------------------------------------
(* The events that are on their way, and who is to go on.                   *)

(* The host does not go on after an error, and there is room in the queue   *)
(* for two events behind the half that UART_RXD can fill (process.h:88: 32). *)
Calm == ~Restart /\ PROCESS_CONF_NUMEVENTS >= 5

(* The events, by what they do: those that say that bytes have been         *)
(* received, those that tell uart_boot_process something, and those that    *)
(* drive flash_prog_process and its workers.                                *)
Rxd == [p |-> "uart", ev |-> "UART_RXD", data |-> 0]
Tell(e) == [p |-> "uart", ev |-> e, data |-> 0]
Rdy(i) == [p |-> "flash", ev |-> "BUF_RDY", data |-> i]
Ask(d) == [p |-> "flash", ev |-> "ERASE", data |-> d]
Order(t) == [p |-> t, ev |-> "CONTINUE", data |-> 0]
Result(r) == [p |-> "flash", ev |-> "CONTINUE", data |-> r]

Tells == {Tell("BUF_FREE"), Tell("PROG_OK"), Tell("PROG_ERR")}
Wakes == {Rdy(i) : i \in CtrlIdx} \cup {Ask(0), Ask(Chip)}
Orders == {Order(t) : t \in Worker}
Results == {Result(0), Result(-1)}
Tokens == Wakes \cup Orders \cup Results
Posted == {Rxd} \cup Tells \cup Tokens

Contents(q) == {q[i] : i \in 1 .. Len(q)}
InFlight == Contents(queue) \cap Tokens
ToTell == Contents(queue) \cap Tells

(* The queue holds, besides UART_RXD in its first half, at most one event   *)
(* for uart_boot_process and, behind it, one that drives the programming.   *)
Tidy(q) ==
  /\ q \in Seq(Posted)
  /\ \A i \in 1 .. Len(q) : q[i] = Rxd => i <= PROCESS_CONF_NUMEVENTS \div 2
  /\ \A i, j \in 1 .. Len(q) :
       i < j /\ q[i] # Rxd /\ q[j] # Rxd => q[i] \in Tells /\ q[j] \in Tokens

(* The kinds of events are told apart by what their receivers look at.      *)
LEMMA EventsAre ==
  /\ Rxd.p = "uart" /\ Rxd.ev = "UART_RXD" /\ Rxd \notin Tells /\ Rxd \notin Tokens
  /\ \A e \in Tells : e.p = "uart" /\ e \notin Tokens /\ e.ev # "UART_RXD"
  /\ \A e \in Tells : /\ e.ev = "PROG_ERR" <=> e = Tell("PROG_ERR")
                      /\ e.ev = "PROG_OK" <=> e = Tell("PROG_OK")
  /\ Tell("PROG_OK") # Tell("PROG_ERR") /\ Tell("BUF_FREE") \notin {Tell("PROG_OK"), Tell("PROG_ERR")}
  /\ Tell("PROG_OK") \in Tells /\ Tell("PROG_ERR") \in Tells /\ Tell("BUF_FREE") \in Tells
  /\ \A w \in Wakes : w.p = "flash" /\ w \notin Orders /\ w \notin Results /\ w \in Tokens
  /\ \A t \in Worker : /\ Order(t) \in Orders /\ Order(t) \in Tokens /\ Order(t) \notin Results
                       /\ Order(t).p = t /\ Order(t).ev = "CONTINUE" /\ t \notin {"none", "uart", "flash"}
  /\ \A r \in Results : /\ r.p = "flash" /\ r.ev = "CONTINUE" /\ r \in Tokens
                        /\ r.data # 0 <=> r = Result(-1)
                        /\ r.data = 0 <=> r = Result(0)
  /\ Result(0) # Result(-1) /\ Result(0) \in Results /\ Result(-1) \in Results
<1>1. /\ Rxd.p = "uart" /\ Rxd.ev = "UART_RXD" /\ Rxd \notin Tells /\ Rxd \notin Tokens
  BY DEF Rxd, Tells, Tell, Tokens, Wakes, Rdy, Ask, Orders, Order, Worker, Results, Result
<1>2. /\ \A e \in Tells : e.p = "uart" /\ e \notin Tokens /\ e.ev # "UART_RXD"
      /\ \A e \in Tells : /\ e.ev = "PROG_ERR" <=> e = Tell("PROG_ERR")
                          /\ e.ev = "PROG_OK" <=> e = Tell("PROG_OK")
      /\ Tell("PROG_OK") # Tell("PROG_ERR") /\ Tell("BUF_FREE") \notin {Tell("PROG_OK"), Tell("PROG_ERR")}
      /\ Tell("PROG_OK") \in Tells /\ Tell("PROG_ERR") \in Tells /\ Tell("BUF_FREE") \in Tells
  <2>1. \A e \in Tokens : e.ev \in {"BUF_RDY", "ERASE", "CONTINUE"}
    BY DEF Tokens, Wakes, Rdy, Ask, Orders, Order, Results, Result
  <2>2. \A e \in Tells : /\ e.p = "uart" /\ e.ev \in {"BUF_FREE", "PROG_OK", "PROG_ERR"}
                         /\ e = Tell(e.ev)
    BY DEF Tells, Tell
  <2>3. \A d : Tell(d).ev = d
    BY DEF Tell
  <2>4. QED
    BY <2>1, <2>2, <2>3 DEF Tells
<1>3. \A w \in Wakes : w.p = "flash" /\ w \notin Orders /\ w \notin Results /\ w \in Tokens
  BY DEF Tokens, Wakes, Rdy, Ask, Orders, Order, Worker, Results, Result
<1>4. \A t \in Worker : /\ Order(t) \in Orders /\ Order(t) \in Tokens /\ Order(t) \notin Results
                        /\ Order(t).p = t /\ Order(t).ev = "CONTINUE" /\ t \notin {"none", "uart", "flash"}
  BY DEF Tokens, Orders, Order, Worker, Results, Result
<1>5. /\ \A r \in Results : /\ r.p = "flash" /\ r.ev = "CONTINUE" /\ r \in Tokens
                            /\ r.data # 0 <=> r = Result(-1)
                            /\ r.data = 0 <=> r = Result(0)
      /\ Result(0) # Result(-1) /\ Result(0) \in Results /\ Result(-1) \in Results
  BY DEF Tokens, Results, Result
<1>6. QED
  BY <1>1, <1>2, <1>3, <1>4, <1>5

(* A tidy queue is never full.                                              *)
LEMMA TidyShort ==
  ASSUME Calm, NEW q, Tidy(q)
  PROVE  Len(q) < PROCESS_CONF_NUMEVENTS
<1>1. PICK h \in Nat : /\ h = PROCESS_CONF_NUMEVENTS \div 2 /\ h + 2 < PROCESS_CONF_NUMEVENTS
  BY FlashAssumption DEF Calm
<1>2. Len(q) \in Nat
  BY LenProperties DEF Tidy
<1>3. SUFFICES ASSUME Len(q) > h + 2 PROVE FALSE
  BY <1>1, <1>2, FlashAssumption
<1>4. /\ h + 1 \in 1 .. Len(q) /\ h + 2 \in 1 .. Len(q) /\ h + 3 \in 1 .. Len(q)
      /\ ~(h + 1 <= h) /\ ~(h + 2 <= h) /\ ~(h + 3 <= h) /\ h + 1 < h + 2 /\ h + 2 < h + 3
  BY <1>2, <1>3
<1>5. q[h + 1] # Rxd /\ q[h + 2] # Rxd /\ q[h + 3] # Rxd
  BY <1>1, <1>4 DEF Tidy
<1>6. q[h + 2] \in Tokens /\ q[h + 2] \in Tells
  BY <1>4, <1>5 DEF Tidy
<1>7. QED
  BY <1>6, EventsAre

(* One event more at the end of the queue.                                  *)
LEMMA TidyAppended ==
  ASSUME NEW q, Tidy(q), NEW x \in Posted,
         x = Rxd => Len(q) < PROCESS_CONF_NUMEVENTS \div 2,
         x # Rxd => Contents(q) \cap Tokens = {},
         x \in Tells => Contents(q) \cap Tells = {}
  PROVE  Tidy(Append(q, x)) /\ Contents(Append(q, x)) = Contents(q) \cup {x}
<1>1. q \in Seq(Posted) /\ Len(q) \in Nat /\ PROCESS_CONF_NUMEVENTS \div 2 \in Nat
  BY LenProperties, FlashAssumption DEF Tidy
<1>2. PICK n \in Nat : n = Len(q)
  BY <1>1
<1>3. /\ Append(q, x) \in Seq(Posted) /\ Len(Append(q, x)) = n + 1
      /\ \A i \in 1 .. n : Append(q, x)[i] = q[i]
      /\ Append(q, x)[n + 1] = x
  BY <1>1, <1>2, AppendProperties
<1> DEFINE r == Append(q, x)
<1> HIDE DEF r
<1>4. /\ r \in Seq(Posted) /\ Len(r) = n + 1
      /\ \A i \in 1 .. n : r[i] = q[i]
      /\ r[n + 1] = x /\ \A i \in 1 .. n + 1 : i \in 1 .. n \/ i = n + 1
  BY <1>3 DEF r
<1>5. Contents(r) = Contents(q) \cup {x}
  <2>1. \A e \in Contents(r) : e \in Contents(q) \cup {x}
    BY <1>2, <1>4 DEF Contents
  <2>2. \A e \in Contents(q) : e \in Contents(r)
    <3>1. ASSUME NEW i \in 1 .. n PROVE q[i] \in Contents(r)
      <4>1. i \in 1 .. Len(r) /\ r[i] = q[i]
        BY <1>4
      <4>2. QED
        BY <4>1 DEF Contents
    <3>2. QED
      BY <1>2, <3>1 DEF Contents
  <2>3. x \in Contents(r)
    <3>1. n + 1 \in 1 .. Len(r) /\ r[n + 1] = x
      BY <1>4
    <3>2. QED
      BY <3>1 DEF Contents
  <2>4. QED
    BY <2>1, <2>2, <2>3
<1>6. ASSUME NEW i \in 1 .. Len(r), r[i] = Rxd PROVE i <= PROCESS_CONF_NUMEVENTS \div 2
  <2>1. CASE i \in 1 .. n
    BY <1>2, <1>4, <1>6, <2>1 DEF Tidy
  <2>2. CASE i = n + 1
    BY <1>1, <1>2, <1>4, <1>6, <2>2
  <2>3. QED
    BY <1>4, <2>1, <2>2
<1>7. ASSUME NEW i \in 1 .. Len(r), NEW j \in 1 .. Len(r), i < j, r[i] # Rxd, r[j] # Rxd
      PROVE  r[i] \in Tells /\ r[j] \in Tokens
  <2>1. i \in 1 .. n /\ r[i] = q[i]
    BY <1>4, <1>7
  <2>2. CASE j \in 1 .. n
    BY <1>2, <1>4, <1>7, <2>1, <2>2 DEF Tidy
  <2>3. CASE j = n + 1
    <3>1. x # Rxd /\ q[i] \in Contents(q) /\ q[i] \in Posted /\ q[i] # Rxd
      BY <1>1, <1>2, <1>4, <1>7, <2>1, <2>3 DEF Contents
    <3>2. q[i] \in Tells
      BY <3>1 DEF Posted
    <3>3. x \notin Tells
      BY <3>1, <3>2
    <3>4. x \in Tokens
      BY <3>1, <3>3 DEF Posted
    <3>5. QED
      BY <1>4, <2>1, <2>3, <3>2, <3>4
  <2>4. QED
    BY <1>4, <2>2, <2>3
<1>8. Tidy(r)
  BY <1>4, <1>6, <1>7 DEF Tidy
<1>9. QED
  BY <1>5, <1>8 DEF r

(* One event less at the head of the queue.                                 *)
LEMMA TidyServed ==
  ASSUME NEW q, Tidy(q), q # <<>>
  PROVE  /\ Tidy(Tail(q)) /\ Head(q) \in Posted
         /\ Contents(q) = {Head(q)} \cup Contents(Tail(q))
         /\ Head(q) \in Tells => Contents(Tail(q)) \cap Tells = {}
         /\ Head(q) \in Tokens => Contents(Tail(q)) \cap (Tells \cup Tokens) = {}
<1>1. /\ q \in Seq(Posted) /\ Len(q) \in Nat \ {0}
      /\ Head(q) = q[1] /\ Tail(q) \in Seq(Posted) /\ Len(Tail(q)) = Len(q) - 1
      /\ \A k \in 1 .. Len(Tail(q)) : Tail(q)[k] = q[k + 1]
  <2>1. q \in Seq(Posted)
    BY DEF Tidy
  <2>2. QED
    BY <2>1, HeadTailProperties, LenProperties, EmptySeq
<1>2. PICK n \in Nat : Len(q) = n + 1 /\ Len(Tail(q)) = n
  <2>1. Len(q) - 1 \in Nat /\ Len(q) = (Len(q) - 1) + 1
    BY <1>1
  <2>2. QED
    BY <1>1, <2>1
<1> DEFINE r == Tail(q)
<1> HIDE DEF r
<1>3. /\ r \in Seq(Posted) /\ Len(r) = n /\ 1 \in 1 .. n + 1
      /\ \A k \in 1 .. n : r[k] = q[k + 1] /\ k + 1 \in 1 .. n + 1 /\ 1 < k + 1
  BY <1>1, <1>2 DEF r
<1>4. Head(q) \in Posted
  BY <1>1
<1>5. Contents(q) = {Head(q)} \cup Contents(r)
  <2>1. ASSUME NEW i \in 1 .. n + 1 PROVE q[i] \in {Head(q)} \cup Contents(r)
    <3>1. CASE i = 1
      BY <1>1, <3>1
    <3>2. CASE i # 1
      <4>1. i - 1 \in 1 .. n /\ (i - 1) + 1 = i
        BY <2>1, <3>2
      <4>2. r[i - 1] = q[i]
        BY <1>3, <4>1
      <4>3. QED
        BY <1>3, <4>1, <4>2 DEF Contents
    <3>3. QED
      BY <3>1, <3>2
  <2>2. \A k \in 1 .. n : r[k] \in Contents(q)
    BY <1>2, <1>3 DEF Contents
  <2>3. Head(q) \in Contents(q)
    BY <1>1, <1>2, <1>3 DEF Contents
  <2>4. QED
    BY <1>2, <1>3, <2>1, <2>2, <2>3 DEF Contents
<1>6. ASSUME NEW k \in 1 .. n, Head(q) # Rxd, r[k] # Rxd
      PROVE  Head(q) \in Tells /\ r[k] \in Tokens
  <2>1. q[1] # Rxd /\ q[k + 1] # Rxd
    BY <1>1, <1>3, <1>6
  <2>2. QED
    BY <1>1, <1>2, <1>3, <2>1 DEF Tidy
<1>7. Tidy(r)
  <2>1. ASSUME NEW i \in 1 .. n, r[i] = Rxd PROVE i <= PROCESS_CONF_NUMEVENTS \div 2
    <3>1. q[i + 1] = Rxd /\ i + 1 \in 1 .. Len(q)
      BY <1>2, <1>3, <2>1
    <3>2. i + 1 <= PROCESS_CONF_NUMEVENTS \div 2
      BY <3>1 DEF Tidy
    <3>3. QED
      BY <3>2, FlashAssumption
  <2>2. ASSUME NEW i \in 1 .. n, NEW j \in 1 .. n, i < j, r[i] # Rxd, r[j] # Rxd
        PROVE  r[i] \in Tells /\ r[j] \in Tokens
    <3>1. /\ i + 1 < j + 1 /\ i + 1 \in 1 .. Len(q) /\ j + 1 \in 1 .. Len(q)
          /\ q[i + 1] = r[i] /\ q[j + 1] = r[j]
      BY <1>2, <1>3, <2>2
    <3>2. QED
      BY <2>2, <3>1 DEF Tidy
  <2>3. QED
    BY <1>3, <2>1, <2>2 DEF Tidy
<1>8. ASSUME Head(q) \in Tells PROVE Contents(r) \cap Tells = {}
  <2>1. \A k \in 1 .. n : r[k] \notin Tells
    BY <1>6, <1>8, EventsAre
  <2>2. QED
    BY <1>3, <2>1 DEF Contents
<1>9. ASSUME Head(q) \in Tokens PROVE Contents(r) \cap (Tells \cup Tokens) = {}
  <2>1. \A k \in 1 .. n : r[k] = Rxd
    BY <1>6, <1>9, EventsAre
  <2>2. QED
    BY <1>3, <2>1, EventsAre DEF Contents
<1>10. QED
  BY <1>4, <1>5, <1>7, <1>8, <1>9 DEF r

(* process_post finds room, so that the event is at the end of the queue.   *)
LEMMA PostIs ==
  ASSUME Calm, Tidy(queue), NEW p, NEW e, NEW d
  PROVE  Post(queue, p, e, d) = Append(queue, [p |-> p, ev |-> e, data |-> d])
<1>1. Len(queue) < PROCESS_CONF_NUMEVENTS /\ Len(queue) \in Nat
  BY TidyShort, LenProperties DEF Tidy
<1>2. Len(queue) # PROCESS_CONF_NUMEVENTS
  BY <1>1, FlashAssumption
<1>3. QED
  BY <1>2 DEF Post

(* What is posted when nothing drives the programming: something to tell,   *)
(* or the event that does.                                                  *)
LEMMA Posts ==
  ASSUME Calm, Tidy(queue), InFlight = {}, NEW p, NEW e, NEW d,
         NEW x \in Tells \cup Tokens, x = [p |-> p, ev |-> e, data |-> d],
         queue' = Post(queue, p, e, d), x \in Tells => ToTell = {}
  PROVE  /\ Tidy(queue)'
         /\ InFlight' = {x} \cap Tokens
         /\ ToTell' = ToTell \cup ({x} \cap Tells)
<1>1. x \in Posted /\ x # Rxd
  BY EventsAre DEF Posted
<1>2. queue' = Append(queue, x)
  BY PostIs
<1>3. Tidy(Append(queue, x)) /\ Contents(Append(queue, x)) = Contents(queue) \cup {x}
  BY <1>1, TidyAppended DEF InFlight, ToTell
<1>4. Tidy(queue)' /\ Contents(queue)' = Contents(queue) \cup {x}
  BY <1>2, <1>3 DEF Tidy, Contents
<1>5. QED
  BY <1>4 DEF InFlight, ToTell

(* uart_boot_process is told.                                               *)
LEMMA TellPosted ==
  ASSUME Calm, Tidy(queue), InFlight = {}, ToTell = {},
         NEW e \in {"BUF_FREE", "PROG_OK", "PROG_ERR"}, queue' = Post(queue, "uart", e, 0)
  PROVE  Tidy(queue)' /\ InFlight' = {} /\ ToTell' = {Tell(e)}
<1>1. Tell(e) \in Tells /\ Tell(e) \notin Tokens
  BY EventsAre
<1>2. Tell(e) = [p |-> "uart", ev |-> e, data |-> 0]
  BY DEF Tell
<1>3. /\ Tidy(queue)' /\ InFlight' = {Tell(e)} \cap Tokens
      /\ ToTell' = ToTell \cup ({Tell(e)} \cap Tells)
  BY <1>1, <1>2, Posts
<1>4. QED
  BY <1>1, <1>3

(* A worker is given its order.                                             *)
LEMMA OrderPosted ==
  ASSUME Calm, Tidy(queue), InFlight = {}, NEW t \in Worker,
         queue' = Post(queue, t, "CONTINUE", 0)
  PROVE  Tidy(queue)' /\ InFlight' = {Order(t)} /\ ToTell' = ToTell
<1>1. Order(t) \in Tokens /\ Order(t) \notin Tells
  BY EventsAre
<1>2. Order(t) = [p |-> t, ev |-> "CONTINUE", data |-> 0]
  BY DEF Order
<1>3. /\ Tidy(queue)' /\ InFlight' = {Order(t)} \cap Tokens
      /\ ToTell' = ToTell \cup ({Order(t)} \cap Tells)
  BY <1>1, <1>2, Posts
<1>4. QED
  BY <1>1, <1>3

(* A worker's result is on its way.                                         *)
LEMMA ResultPosted ==
  ASSUME Calm, Tidy(queue), InFlight = {}, NEW r \in {0, -1},
         queue' = Post(queue, "flash", "CONTINUE", r)
  PROVE  Tidy(queue)' /\ InFlight' = {Result(r)} /\ ToTell' = ToTell
<1>1. Result(r) \in Tokens /\ Result(r) \notin Tells
  BY EventsAre
<1>2. Result(r) = [p |-> "flash", ev |-> "CONTINUE", data |-> r]
  BY DEF Result
<1>3. /\ Tidy(queue)' /\ InFlight' = {Result(r)} \cap Tokens
      /\ ToTell' = ToTell \cup ({Result(r)} \cap Tells)
  BY <1>1, <1>2, Posts
<1>4. QED
  BY <1>1, <1>3

(* flash_prog_process will be woken.                                        *)
LEMMA WakePosted ==
  ASSUME Calm, Tidy(queue), InFlight = {}, NEW w \in Wakes, NEW e, NEW d,
         w = [p |-> "flash", ev |-> e, data |-> d], queue' = Post(queue, "flash", e, d)
  PROVE  Tidy(queue)' /\ InFlight' = {w} /\ ToTell' = ToTell
<1>1. w \in Tokens /\ w \notin Tells
  BY EventsAre
<1>2. /\ Tidy(queue)' /\ InFlight' = {w} \cap Tokens
      /\ ToTell' = ToTell \cup ({w} \cap Tells)
  BY <1>1, Posts
<1>3. QED
  BY <1>1, <1>2

(* UART_RXD comes between.                                                  *)
LEMMA RxdPosted ==
  ASSUME Calm, Tidy(queue), ~AlmostFull, queue' = Post(queue, "uart", "UART_RXD", 0)
  PROVE  Tidy(queue)' /\ InFlight' = InFlight /\ ToTell' = ToTell
<1>1. queue' = Append(queue, Rxd)
  BY PostIs DEF Rxd
<1>2. Len(queue) \in Nat /\ Rxd \in Posted /\ Rxd \notin Tells /\ Rxd \notin Tokens
  BY LenProperties, EventsAre DEF Tidy, Posted
<1>3. Len(queue) < PROCESS_CONF_NUMEVENTS \div 2
  BY <1>2, FlashAssumption DEF AlmostFull
<1>4. Tidy(Append(queue, Rxd)) /\ Contents(Append(queue, Rxd)) = Contents(queue) \cup {Rxd}
  BY <1>2, <1>3, TidyAppended
<1>5. Tidy(queue)' /\ Contents(queue)' = Contents(queue) \cup {Rxd}
  BY <1>1, <1>4 DEF Tidy, Contents
<1>6. QED
  BY <1>2, <1>5 DEF InFlight, ToTell

(* The event at the head is delivered.                                      *)
LEMMA Delivered ==
  ASSUME Tidy(queue), ServeEvent
  PROVE  /\ Tidy(queue)' /\ current = "none" /\ current' = ev'.p
         /\ \/ ev' = Rxd /\ UNCHANGED <<InFlight, ToTell>>
            \/ ev' \in Tells /\ ToTell = {ev'} /\ ToTell' = {} /\ UNCHANGED InFlight
            \/ InFlight = {ev'} /\ ToTell = {} /\ InFlight' = {} /\ ToTell' = {}
<1>1. /\ current = "none" /\ queue # <<>> /\ ev' = Head(queue) /\ current' = Head(queue).p
      /\ queue' = Tail(queue)
  BY DEF ServeEvent
<1> DEFINE h == Head(queue)
<1>2. /\ Tidy(Tail(queue)) /\ h \in Posted
      /\ Contents(queue) = {h} \cup Contents(Tail(queue))
      /\ h \in Tells => Contents(Tail(queue)) \cap Tells = {}
      /\ h \in Tokens => Contents(Tail(queue)) \cap (Tells \cup Tokens) = {}
  BY <1>1, TidyServed
<1> HIDE DEF h
<1>3. /\ Tidy(queue)' /\ h \in Posted
      /\ Contents(queue) = {h} \cup Contents(queue)'
      /\ h \in Tells => Contents(queue)' \cap Tells = {}
      /\ h \in Tokens => Contents(queue)' \cap (Tells \cup Tokens) = {}
  <2>1. Contents(queue)' = Contents(Tail(queue))
    BY <1>1 DEF Contents
  <2>2. Tidy(queue)'
    <3>1. Tidy(queue')
      BY <1>1, <1>2
    <3>2. QED
      BY <3>1 DEF Tidy
  <2>3. QED
    BY <1>2, <2>1, <2>2
<1>4. CASE h = Rxd
  BY <1>1, <1>3, <1>4, EventsAre DEF InFlight, ToTell, h
<1>5. CASE h \in Tells
  BY <1>1, <1>3, <1>5, EventsAre DEF InFlight, ToTell, h
<1>6. CASE h \in Tokens
  BY <1>1, <1>3, <1>6, EventsAre DEF InFlight, ToTell, h
<1>7. QED
  BY <1>3, <1>4, <1>5, <1>6 DEF Posted
-----------------------------------------------------------------------------
(* Who is to go on.                                                         *)

(* flash_prog_process when it is woken, itself, or the worker for which it  *)
(* waits.                                                                   *)
Waits == {"chip_wait", "region_wait", "sector_wait", "program_wait"}
Helper == IF fpc = "program_wait" THEN "program" ELSE "erase"
Resting(t) == worker[t].pc = "idle" /\ t \notin polled /\ current # t
AllRest == \A t \in Worker : Resting(t)

Asleep == fpc = "idle" /\ current # "flash" /\ AllRest /\ InFlight \subseteq Wakes
Up ==
  /\ current = "flash" /\ AllRest /\ InFlight = {}
  /\ fpc # "drain" => ToTell = {}
  /\ fpc = "idle" => ev \in Wakes
  /\ fpc \in Waits => ev \in Results
Waiting == fpc \in Waits /\ current # "flash" /\ \A t \in Worker \ {Helper} : Resting(t)
Ordered == Waiting /\ Resting(Helper) /\ InFlight = {Order(Helper)}
Handed == current = Helper /\ Helper \notin polled /\ (worker[Helper].pc = "idle" => ev = Order(Helper))
Polling ==
  /\ current # Helper /\ Helper \in polled
  /\ worker[Helper].pc \in {"latch_wait", "busy_wait", "chip_wait"}
AtWork == Waiting /\ InFlight = {} /\ ToTell = {} /\ (Handed \/ Polling)
Answered(r) == Waiting /\ Resting(Helper) /\ InFlight = {Result(r)} /\ ToTell = {}

OneAtATime == Asleep \/ Up \/ Ordered \/ AtWork \/ \E r \in {0, -1} : Answered(r)

(* What uart_boot_process has been given.                                   *)
UartWaits == {"rx", "copy_wait", "end_wait", "erase_wait"}
Heard ==
  /\ current # "uart" => upc \in UartWaits
  /\ current = "uart" => ev \in {Rxd} \cup Tells
  /\ current = "uart" /\ ev \in Tells => ToTell = {}

(* What has been asked of flash_prog_process: to look at the ring, to erase *)
(* the chip or a region.                                                    *)
Woken(w) == w \in InFlight \/ (current = "flash" /\ fpc = "idle" /\ ev = w)
ChipJob == Woken(Ask(Chip)) \/ fpc \in {"chip", "chip_wait"}
RegionJob == Woken(Ask(0)) \/ fpc \in {"region", "region_wait", "region_done"}
BlockJob == (\E i \in CtrlIdx : Woken(Rdy(i))) \/ fpc \in {"sector_wait", "program_wait"}
OkTold ==
  \/ Tell("PROG_OK") \in ToTell
  \/ current = "uart" /\ ev = Tell("PROG_OK") /\ upc = "erase_wait"

(* Nothing is under way in the pipeline.                                    *)
Still ==
  /\ fpc = "idle" /\ current # "flash" /\ AllRest /\ InFlight = {}
  /\ ~InProcess(ring) /\ Tell("PROG_OK") \notin ToTell

(* The host waits for an erasure, and the loader for its end.               *)
EraseDue == host.phase = "erasing" => cmd # NoPacket /\ (upc = "erase_wait" \/ error)

(* Blocks are programmed only while some are ready, and an erasure goes on  *)
(* only when the host has asked for it and no block is ready; it is over    *)
(* before the host goes on.                                                 *)
JobsOK ==
  /\ BlockJob => InProcess(ring)
  /\ ChipJob \/ RegionJob =>
       ~InProcess(ring) /\ host.phase \in {"erasing", "stopped"} /\ EraseDue
  /\ OkTold => host.phase \in {"erasing", "stopped"} /\ EraseDue
  /\ host.phase = "erasing" =>
       /\ ~InProcess(ring)
       /\ ChipJob => ~OkTold /\ cmd.chip
       /\ RegionJob => ~OkTold /\ ~cmd.chip
  /\ fpc \in {"chip", "chip_wait"} => chip_erase
  /\ fpc \in {"region", "region_wait", "region_done", "sector_wait"} => ~chip_erase

(* ... and so are the blocks.                                               *)
QuietOK ==
  /\ \/ host.phase \in {"none", "begin", "done", "erased", "chip_erased"}
     \/ host.phase = "erasing" /\ (cmd = NoPacket \/ (upc = "reply" /\ ~error))
     => Still
  /\ cmd.op = "END" /\ upc = "reply" => ~InProcess(ring)

(* An error that has been seen and not yet been reported.                   *)
ErrorSomewhere ==
  \/ error
  \/ Tell("PROG_ERR") \in ToTell \/ Result(-1) \in InFlight
  \/ current = "uart" /\ ev = Tell("PROG_ERR")
  \/ current = "flash" /\ ev = Result(-1) /\ fpc \in Waits

ErrorsOK ==
  /\ failed => host.phase = "stopped" \/ ErrorSomewhere
  /\ ErrorSomewhere => failed
  /\ host.phase = "stopped" => failed \/ host.resends > 0
  /\ current = "uart" /\ ev = Tell("PROG_ERR") /\ upc \notin UartWaits => error

FlowInv == Tidy(queue) /\ OneAtATime /\ Heard /\ JobsOK /\ QuietOK /\ ErrorsOK

(* Without anything to do, the pipeline sleeps.                             *)
LEMMA NoJob ==
  ASSUME FlowInv, current # "flash", ~BlockJob, ~ChipJob, ~RegionJob
  PROVE  fpc = "idle" /\ AllRest /\ InFlight = {}
<1>1. fpc \notin Waits
  BY DEF BlockJob, ChipJob, RegionJob, Waits
<1>2. Asleep
  BY <1>1 DEF FlowInv, OneAtATime, Up, Ordered, AtWork, Answered, Waiting
<1>3. \A w \in Wakes : w \notin InFlight
  BY DEF Wakes, BlockJob, ChipJob, RegionJob, Woken
<1>4. QED
  BY <1>2, <1>3 DEF Asleep

(* Who is to go on is the same when a process that is not in the pipeline   *)
(* runs.                                                                    *)
LEMMA OneFrame ==
  ASSUME OneAtATime, current \in {"none", "uart"}, current' \in {"none", "uart"},
         UNCHANGED <<polled, worker, fpc>>, InFlight' = InFlight, ToTell' \subseteq ToTell
  PROVE  OneAtATime' /\ (AllRest' <=> AllRest)
<1>1. /\ Helper' = Helper /\ Helper \in Worker
      /\ \A t \in Worker : Resting(t)' = Resting(t) /\ t # current /\ t # current'
      /\ current # "flash" /\ current' # "flash"
  BY DEF Helper, Worker, Resting
<1>2. /\ Asleep => Asleep'
      /\ Ordered => Ordered'
      /\ AtWork => AtWork'
      /\ \A r \in {0, -1} : Answered(r) => Answered(r)'
  <2>1. /\ Waiting' = Waiting /\ AllRest' = AllRest /\ Resting(Helper)' = Resting(Helper)
        /\ Polling' = Polling
    BY <1>1 DEF Waiting, AllRest, Polling
  <2>2. ~Handed
    BY <1>1 DEF Handed
  <2>3. /\ Asleep => Asleep'
        /\ Ordered => Ordered'
    BY <1>1, <2>1 DEF Asleep, Ordered, Order
  <2>4. AtWork => AtWork'
    BY <1>1, <2>1, <2>2 DEF AtWork
  <2>5. \A r \in {0, -1} : Answered(r) => Answered(r)'
    BY <1>1, <2>1 DEF Answered, Result
  <2>6. QED
    BY <2>3, <2>4, <2>5
<1>3. ~Up
  BY <1>1 DEF Up
<1>4. AllRest' <=> AllRest
  BY <1>1 DEF AllRest
<1>5. QED
  BY <1>2, <1>3, <1>4 DEF OneAtATime

(* What a step of uart_boot_process that posts nothing leaves true.         *)
LEMMA QuietStep ==
  ASSUME FlowInv, current = "uart", current' \in {"uart", "none"},
         UNCHANGED <<queue, polled, ev, worker, programmer, failed, host>>,
         InProcess(ring)' = InProcess(ring),
         error' <=> (error \/ (upc \in UartWaits /\ ev = Tell("PROG_ERR"))),
         cmd # NoPacket => cmd' = cmd,
         current' = "none" => upc' \in UartWaits,
         upc' = "erase_wait" => upc = "erase_wait",
         upc = "erase_wait" /\ upc' # "erase_wait" =>
           upc' = "reply" /\ ev \in {Tell("PROG_OK"), Tell("PROG_ERR")},
         upc' = "reply" /\ host.phase = "erasing" => upc = "erase_wait",
         cmd'.op = "END" /\ upc' = "reply" => ~InProcess(ring)
  PROVE  FlowInv'
<1>1. /\ UNCHANGED <<InFlight, ToTell, fpc, chip_erase>> /\ Tidy(queue)'
      /\ \A w : Woken(w)' = Woken(w)
  BY DEF InFlight, ToTell, Contents, programmer, FlowInv, Tidy, Woken
<1>2. OneAtATime' /\ (AllRest' <=> AllRest)
  <2>1. OneAtATime /\ InFlight' = InFlight /\ ToTell' \subseteq ToTell
    BY <1>1 DEF FlowInv
  <2>2. UNCHANGED <<polled, worker, fpc>>
    BY <1>1
  <2>3. QED
    BY <2>1, <2>2, OneFrame
<1>3. Heard'
  BY <1>1 DEF FlowInv, Heard
<1>4. /\ BlockJob' = BlockJob /\ ChipJob' = ChipJob /\ RegionJob' = RegionJob
  BY <1>1 DEF BlockJob, ChipJob, RegionJob, Rdy, Ask
<1>5. ev \in Tells => ToTell = {}
  BY DEF FlowInv, Heard
<1>6. /\ OkTold' => OkTold /\ (upc = "erase_wait" => upc' = "erase_wait" \/ error')
      /\ (ChipJob \/ RegionJob) /\ upc = "erase_wait" /\ host.phase = "erasing" =>
           upc' = "erase_wait" \/ error'
  <2>1. Tell("PROG_OK")' = Tell("PROG_OK") /\ Tell("PROG_OK") \in Tells /\ Tell("PROG_ERR") \in Tells
    BY EventsAre DEF Tell
  <2>2. OkTold' => OkTold
    BY <1>1, <2>1 DEF OkTold
  <2>3. ASSUME OkTold', upc = "erase_wait", upc' # "erase_wait" PROVE error'
    <3>1. Tell("PROG_OK") \in ToTell
      BY <1>1, <2>1, <2>3 DEF OkTold
    <3>2. QED
      BY <1>5, <2>1, <2>3, <3>1
  <2>4. ASSUME ChipJob \/ RegionJob, upc = "erase_wait", host.phase = "erasing",
               upc' # "erase_wait" PROVE error'
    <3>1. ~OkTold
      BY <2>4 DEF FlowInv, JobsOK
    <3>2. ev = Tell("PROG_ERR")
      BY <2>4, <3>1 DEF OkTold
    <3>3. QED
      BY <2>4, <3>2 DEF UartWaits
  <2>5. QED
    BY <2>2, <2>3, <2>4
<1>7. (ChipJob \/ RegionJob => EraseDue') /\ (OkTold' => EraseDue')
  BY <1>6 DEF FlowInv, JobsOK, EraseDue
<1>8. JobsOK'
  <2>1. ASSUME host.phase = "erasing", ChipJob \/ RegionJob PROVE cmd' = cmd
    BY <2>1 DEF FlowInv, JobsOK, EraseDue
  <2>2. QED
    BY <1>1, <1>4, <1>6, <1>7, <2>1 DEF FlowInv, JobsOK
<1>9. QuietOK'
  <2>1. Still' <=> Still
    BY <1>1, <1>2, EventsAre DEF Still, Tell
  <2>2. ASSUME host.phase = "erasing", upc' = "reply", ~error' PROVE Still
    <3>1. upc = "erase_wait" /\ ev = Tell("PROG_OK") /\ ToTell = {}
      BY <1>5, <2>2, EventsAre DEF UartWaits
    <3>2. OkTold
      BY <3>1 DEF OkTold
    <3>3. ~ChipJob /\ ~RegionJob /\ ~InProcess(ring) /\ ~BlockJob
      BY <2>2, <3>2 DEF FlowInv, JobsOK
    <3>4. fpc = "idle" /\ AllRest /\ InFlight = {}
      BY <3>3, NoJob
    <3>5. QED
      BY <3>1, <3>3, <3>4 DEF Still
  <2>3. QED
    BY <2>1, <2>2 DEF FlowInv, QuietOK
<1>10. ErrorsOK'
  <2>1. /\ Tell("PROG_ERR")' = Tell("PROG_ERR") /\ Result(-1)' = Result(-1)
    BY DEF Tell, Result
  <2>2. ErrorSomewhere' = ErrorSomewhere
    BY <1>1, <2>1 DEF ErrorSomewhere, FlowInv, ErrorsOK
  <2>3. QED
    BY <2>1, <2>2 DEF FlowInv, ErrorsOK
<1>11. QED
  BY <1>1, <1>2, <1>3, <1>8, <1>9, <1>10 DEF FlowInv

(* What the ring's operations do to whether a block is ready.               *)
LEMMA RingProcess ==
  /\ ~InProcess(EmptyRing)
  /\ FlashInv /\ InProcess(SetBufFree(ring)) => InProcess(ring)
  /\ FlashInv /\ CopyBlock => (InProcess(ring)' <=> InProcess(ring) \/ BlockReady)
<1>1. ~InProcess(EmptyRing)
  BY DEF InProcess, EmptyRing
<1>2. InProcess(SetBufFree(ring)) => InProcess(ring)
  BY DEF SetBufFree
<1>3. ASSUME FlashInv, CopyBlock PROVE InProcess(ring)' <=> InProcess(ring) \/ BlockReady
  <2>1. HasFreeBuf(ring) /\ ring' = Filled(ring, CopyLen, mem.remaining = CopyLen)
    BY <1>3 DEF CopyBlock
  <2>2. ring \in Rings /\ CopyLen \in 1 .. Room(ring)
    BY <1>3, CopyFits DEF FlashInv, RingOK, Sound
  <2>3. (mem.remaining = CopyLen) \in BOOLEAN
    OBVIOUS
  <2>4. /\ ring'.head = ring.head
        /\ ring'.tail = IF mem.remaining = CopyLen \/ CopyLen = Room(ring)
                          THEN Succ(ring.tail) ELSE ring.tail
    BY <2>1, <2>2, <2>3, FilledIs
  <2>5. QED
    BY <2>1, <2>4 DEF InProcess, HasFreeBuf, BlockReady
<1>4. QED
  BY <1>1, <1>2, <1>3

(* A pending error and an event that is one.                                *)
LEMMA ErrorSeenIs ==
  ASSUME FlashInv, Heard, current = "uart"
  PROVE  /\ error \in BOOLEAN /\ (ErrorSeen <=> (error \/ ev = Tell("PROG_ERR")))
         /\ ev.ev = "UART_RXD" => ev = Rxd /\ ev # Tell("PROG_ERR")
         /\ EraseOver => ev \in {Tell("PROG_OK"), Tell("PROG_ERR")}
<1>1. error \in BOOLEAN /\ ev \in {Rxd} \cup Tells
  BY DEF FlashInv, LoaderOK, Heard
<1>2. QED
  BY <1>1, EventsAre DEF ErrorSeen, EraseOver

(* uart_boot_process, where it posts nothing.                               *)
LEMMA UartQuietFlow ==
  ASSUME FlashInv, TalkInv, TalkInv', FlowInv,
         \/ RxOther \/ FlashBegin \/ FlashData \/ FlashEnd \/ CopyTest \/ EndTest \/ EraseResume
         \/ LoopAgain("copy_wait", "copy") \/ LoopAgain("end_wait", "end")
  PROVE  FlowInv'
<1> USE DEF UartUnchanged, Uart
<1>1. current = "uart"
  BY DEF RxOther, FlashBegin, FlashData, FlashEnd, CopyTest, EndTest, EraseResume, LoopAgain, Receive
<1>2. /\ error \in BOOLEAN /\ (ErrorSeen <=> (error \/ ev = Tell("PROG_ERR")))
      /\ ev.ev = "UART_RXD" => ev # Tell("PROG_ERR")
      /\ EraseOver => ev \in {Tell("PROG_OK"), Tell("PROG_ERR")}
  BY <1>1, ErrorSeenIs DEF FlowInv
<1>3. CASE RxOther
  <2>1. /\ upc = "rx" /\ upc' = "rx" /\ current' = "none" /\ error' = ErrorSeen /\ cmd' = cmd
        /\ UNCHANGED <<queue, polled, ev, worker, programmer, failed, host, ring>>
    BY <1>3 DEF RxOther, Yield, pipeline
  <2>2. cmd = NoPacket
    BY <2>1 DEF TalkInv, InTurn
  <2>3. QED
    BY <1>1, <1>2, <2>1, <2>2, QuietStep DEF UartWaits, InProcess
<1>4. ASSUME NEW op \in {"BEGIN", "DATA", "END"}, Receive(op), error' = error, current' = current,
             UNCHANGED <<queue, polled, ev>>, upc' \notin {"rx", "erase_wait"},
             InProcess(ring)' = InProcess(ring),
             op = "END" /\ upc' = "reply" => ~InProcess(ring)
      PROVE  FlowInv'
  <2>1. /\ upc = "rx" /\ cmd = NoPacket /\ packet.op = op /\ Asked(packet) /\ cmd' = packet
        /\ UNCHANGED <<programmer, worker, failed, host>> /\ ev.ev = "UART_RXD"
    BY <1>4, ReceivedIs
  <2>2. host.phase # "erasing"
    BY <1>4, <2>1, AskedIs
  <2>3. QED
    BY <1>1, <1>2, <1>4, <2>1, <2>2, QuietStep DEF UartWaits
<1>5. CASE FlashBegin
  <2>1. /\ Receive("BEGIN") /\ ring' = EmptyRing /\ upc' = "reply" /\ error' = error
        /\ UNCHANGED <<queue, current, polled, ev>>
    BY <1>5 DEF FlashBegin, Run
  <2>2. host.phase = "begin"
    BY <2>1, ReceivedIs, AskedIs
  <2>3. ~InProcess(ring)
    BY <2>2 DEF FlowInv, QuietOK, Still
  <2>4. InProcess(ring)' = InProcess(ring)
    BY <2>1, <2>3, RingProcess DEF InProcess
  <2>5. QED
    BY <1>4, <2>1, <2>4
<1>6. CASE FlashData
  <2>1. /\ Receive("DATA") /\ ring' = ring /\ upc' \in {"copy", "reply"} /\ error' = error
        /\ UNCHANGED <<queue, current, polled, ev>>
    BY <1>6 DEF FlashData, Run, pipeline
  <2>2. QED
    BY <1>4, <2>1 DEF InProcess
<1>7. CASE FlashEnd
  <2>1. /\ Receive("END") /\ ring' = ring /\ upc' \in {"end", "reply"} /\ error' = error
        /\ UNCHANGED <<queue, current, polled, ev>> /\ cmd' = packet
        /\ upc' = "reply" => res' # "OK"
    BY <1>7 DEF FlashEnd, Run, pipeline, Receive
  <2>2. packet.op = "END"
    BY <2>1 DEF Receive
  <2>3. upc' # "reply"
    BY <2>1, <2>2 DEF TalkInv, Refusals
  <2>4. QED
    BY <1>4, <2>1, <2>3 DEF InProcess
<1>8. CASE CopyTest
  <2>1. /\ upc = "copy" /\ upc' \in {"copy_wait", "reply"} /\ error' = error /\ cmd' = cmd
        /\ current' = current \/ (current' = "none" /\ upc' = "copy_wait")
        /\ UNCHANGED <<queue, polled, ev, worker, programmer, failed, host, ring>>
    BY <1>8 DEF CopyTest, Run, Yield, pipeline
  <2>2. cmd.op = "DATA" /\ Asked(cmd)
    <3>1. cmd # NoPacket /\ Asked(cmd) /\ cmd.op \in {"BEGIN", "DATA", "END", "ERASE"}
      BY <2>1, AskedIs DEF TalkInv, InTurn
    <3>2. QED
      BY <2>1, <3>1 DEF TalkInv, InTurn
  <2>3. host.phase # "erasing"
    BY <2>2, AskedIs
  <2>4. QED
    BY <1>1, <1>2, <2>1, <2>2, <2>3, QuietStep DEF UartWaits, InProcess
<1>9. CASE EndTest
  <2>1. /\ upc = "end" /\ upc' \in {"end_wait", "reply"} /\ error' = error /\ cmd' = cmd
        /\ current' = current \/ (current' = "none" /\ upc' = "end_wait")
        /\ upc' = "reply" => ~InProcess(ring)
        /\ UNCHANGED <<queue, polled, ev, worker, programmer, failed, host, ring>>
    BY <1>9 DEF EndTest, Run, Yield, pipeline
  <2>2. cmd.op = "END" /\ Asked(cmd)
    <3>1. cmd # NoPacket /\ Asked(cmd) /\ cmd.op \in {"BEGIN", "DATA", "END", "ERASE"}
      BY <2>1, AskedIs DEF TalkInv, InTurn
    <3>2. QED
      BY <2>1, <3>1 DEF TalkInv, InTurn
  <2>3. host.phase # "erasing"
    BY <2>2, AskedIs
  <2>4. QED
    BY <1>1, <1>2, <2>1, <2>3, QuietStep DEF UartWaits, InProcess
<1>10. CASE EraseResume
  <2>1. /\ upc = "erase_wait" /\ error' = ErrorSeen /\ cmd' = cmd
        /\ \/ upc' = "reply" /\ current' = current /\ EraseOver
           \/ upc' = "erase_wait" /\ current' = "none"
        /\ UNCHANGED <<queue, polled, ev, worker, programmer, failed, host, ring>>
    BY <1>10 DEF EraseResume, Run, Yield, pipeline
  <2>2. cmd.op = "ERASE"
    <3>1. cmd # NoPacket /\ Asked(cmd) /\ cmd.op \in {"BEGIN", "DATA", "END", "ERASE"}
      BY <2>1, AskedIs DEF TalkInv, InTurn
    <3>2. QED
      BY <2>1, <3>1 DEF TalkInv, InTurn
  <2>3. QED
    BY <1>1, <1>2, <2>1, <2>2, QuietStep DEF UartWaits, InProcess
<1>11. ASSUME NEW wait \in {"copy_wait", "end_wait"}, NEW label \in {"copy", "end"},
              LoopAgain(wait, label)
       PROVE  FlowInv'
  <2>1. /\ upc = wait /\ upc' = label /\ error' = ErrorSeen /\ cmd' = cmd /\ current' = current
        /\ UNCHANGED <<queue, polled, ev, worker, programmer, failed, host, ring>>
    BY <1>11 DEF LoopAgain, Run, pipeline
  <2>2. QED
    BY <1>1, <1>2, <1>11, <2>1, QuietStep DEF UartWaits, InProcess
<1>12. QED
  BY <1>3, <1>5, <1>6, <1>7, <1>8, <1>9, <1>10, <1>11

(* The pipeline is woken out of its sleep.                                  *)
LEMMA WokenUp ==
  ASSUME Calm, FlowInv, fpc = "idle", AllRest, InFlight = {}, current = "uart",
         current' \in {"uart", "none"}, UNCHANGED <<polled, ev, worker, programmer>>,
         NEW w \in Wakes, NEW e, NEW d, w = [p |-> "flash", ev |-> e, data |-> d],
         queue' = Post(queue, "flash", e, d)
  PROVE  /\ Tidy(queue)' /\ OneAtATime' /\ InFlight' = {w} /\ ToTell' = ToTell
         /\ \A x : Woken(x)' <=> x = w
         /\ UNCHANGED <<fpc, chip_erase>>
<1>1. Tidy(queue)' /\ InFlight' = {w} /\ ToTell' = ToTell
  BY WakePosted DEF FlowInv
<1>2. AllRest'
  BY DEF AllRest, Resting, Worker
<1>3. UNCHANGED <<fpc, chip_erase>>
  BY DEF programmer
<1>4. Asleep'
  BY <1>1, <1>2, <1>3 DEF Asleep
<1>5. QED
  BY <1>1, <1>3, <1>4 DEF OneAtATime, Woken

(* The copy loop: flash_prog_process is woken only when it sleeps.          *)
LEMMA CopyFlow ==
  ASSUME Calm, FlashInv, TalkInv, FlowInv, CopyBlock
  PROVE  FlowInv'
<1>1. /\ current = "uart" /\ upc = "copy"
      /\ queue' = Wake(queue)
      /\ UNCHANGED <<current, polled, ev, worker, programmer, failed, host, upc, error, cmd>>
  BY DEF CopyBlock, Uart, Run, UartUnchanged
<1>2. InProcess(ring)' <=> InProcess(ring) \/ BlockReady
  BY RingProcess
<1>3. cmd.op = "DATA" /\ host.phase = "data"
  <2>1. cmd # NoPacket /\ Asked(cmd) /\ cmd.op \in {"BEGIN", "DATA", "END", "ERASE"}
    BY <1>1, AskedIs DEF TalkInv, InTurn
  <2>2. QED
    BY <1>1, <2>1, AskedIs DEF TalkInv, InTurn
<1>4. CASE ~(BlockReady /\ ~InProcess(ring))
  <2>1. queue' = queue
    BY <1>1, <1>4 DEF Wake
  <2>2. InProcess(ring)' = InProcess(ring)
    BY <1>2, <1>4 DEF InProcess
  <2>3. QED
    BY <1>1, <1>3, <2>1, <2>2, QuietStep DEF UartWaits
<1>5. CASE BlockReady /\ ~InProcess(ring)
  <2>1. ~BlockJob /\ ~ChipJob /\ ~RegionJob /\ ~OkTold
    BY <1>3, <1>5 DEF FlowInv, JobsOK
  <2>2. fpc = "idle" /\ AllRest /\ InFlight = {}
    BY <1>1, <2>1, NoJob
  <2>3. queue' = Post(queue, "flash", "BUF_RDY", ring.tail)
    BY <1>1, <1>5 DEF Wake
  <2>4. /\ Rdy(ring.tail) \in Wakes
        /\ Rdy(ring.tail) = [p |-> "flash", ev |-> "BUF_RDY", data |-> ring.tail]
    BY DEF FlashInv, RingOK, Sound, Rings, Wakes, Rdy
  <2>5. /\ Tidy(queue)' /\ OneAtATime' /\ InFlight' = {Rdy(ring.tail)} /\ ToTell' = ToTell
        /\ \A x : Woken(x)' <=> x = Rdy(ring.tail)
        /\ UNCHANGED <<fpc, chip_erase>>
    BY <1>1, <2>2, <2>3, <2>4, WokenUp
  <2>6. Heard'
    BY <1>1, <2>5 DEF FlowInv, Heard
  <2>7. /\ \A d : Ask(d)' # Rdy(ring.tail)
        /\ Result(-1)' = Result(-1) /\ Result(-1) # Rdy(ring.tail)
        /\ \A e : Tell(e)' = Tell(e)
    BY DEF Ask, Rdy, Result, Tell
  <2>8. InProcess(ring)' /\ ~ChipJob' /\ ~RegionJob' /\ ~OkTold'
    BY <1>1, <1>2, <1>5, <2>1, <2>2, <2>5, <2>7 DEF ChipJob, RegionJob, OkTold
  <2>9. JobsOK' /\ QuietOK'
    BY <1>1, <1>3, <2>2, <2>5, <2>8 DEF JobsOK, QuietOK
  <2>10. ErrorsOK'
    <3>1. ErrorSomewhere' <=> ErrorSomewhere
      BY <1>1, <2>2, <2>5, <2>7 DEF ErrorSomewhere
    <3>2. QED
      BY <1>1, <2>7, <3>1 DEF FlowInv, ErrorsOK
  <2>11. QED
    BY <2>5, <2>6, <2>9, <2>10 DEF FlowInv
<1>6. QED
  BY <1>4, <1>5

(* An erasure is asked for when nothing is under way.                       *)
LEMMA EraseFlow ==
  ASSUME Calm, FlashInv, TalkInv, FlowInv, FlashErase
  PROVE  FlowInv'
<1>1. /\ Receive("ERASE")
      /\ queue' = IF packet.chip THEN Post(queue, "flash", "ERASE", Chip)
                                 ELSE Post(queue, "flash", "ERASE", 0)
      /\ upc' = "erase_wait" /\ current' = "none"
      /\ UNCHANGED <<polled, ev, error, ring>>
  BY DEF FlashErase, Yield
<1>2. /\ current = "uart" /\ ev.ev = "UART_RXD" /\ cmd = NoPacket
      /\ packet # NoPacket /\ cmd' = packet /\ packet.op = "ERASE" /\ Asked(packet)
      /\ UNCHANGED <<programmer, worker, failed, host>>
  BY <1>1, ReceivedIs
<1>3. host.phase = "erasing" /\ packet.chip \in BOOLEAN
  <2>1. host.phase = "erasing" /\ packet \in {EraseCmd, ChipCmd}
    BY <1>2, AskedIs
  <2>2. EraseCmd.chip = FALSE /\ ChipCmd.chip = TRUE
    BY DEF EraseCmd, ChipCmd
  <2>3. QED
    BY <2>1, <2>2
<1>4. Still
  BY <1>2, <1>3 DEF FlowInv, QuietOK
<1>5. ev = Rxd /\ ev # Tell("PROG_ERR")
  BY <1>2, ErrorSeenIs DEF FlowInv
<1> DEFINE d == IF packet.chip THEN Chip ELSE 0
<1>6. /\ queue' = Post(queue, "flash", "ERASE", d)
      /\ Ask(d) \in Wakes /\ Ask(d) = [p |-> "flash", ev |-> "ERASE", data |-> d]
  BY <1>1 DEF Wakes, Ask
<1>7. d \in {0, Chip} /\ (d = Chip <=> packet.chip)
  BY <1>3 DEF Chip
<1> HIDE DEF d
<1>8. /\ Tidy(queue)' /\ OneAtATime' /\ InFlight' = {Ask(d)} /\ ToTell' = ToTell
      /\ \A x : Woken(x)' <=> x = Ask(d)
      /\ UNCHANGED <<fpc, chip_erase>>
  BY <1>1, <1>2, <1>4, <1>6, WokenUp DEF Still
<1>9. Heard'
  BY <1>1 DEF Heard, UartWaits
<1>10. /\ \A i : Rdy(i)' # Ask(d)
       /\ \A x \in {0, Chip} : Ask(x)' = Ask(d) <=> x = d
       /\ Result(-1)' = Result(-1) /\ Result(-1) # Ask(d)
       /\ \A e : Tell(e)' = Tell(e)
  BY DEF Ask, Rdy, Result, Tell
<1>11. /\ ~BlockJob' /\ (ChipJob' <=> packet.chip) /\ (RegionJob' <=> ~packet.chip) /\ ~OkTold'
       /\ ~InProcess(ring)'
  BY <1>1, <1>4, <1>7, <1>8, <1>10 DEF BlockJob, ChipJob, RegionJob, OkTold, Still, Chip, InProcess
<1>12. JobsOK'
  BY <1>1, <1>2, <1>3, <1>4, <1>8, <1>11 DEF JobsOK, EraseDue, Still
<1>13. QuietOK'
  BY <1>1, <1>2, <1>3 DEF QuietOK
<1>14. ErrorsOK'
  <2>1. ErrorSomewhere' <=> ErrorSomewhere
    BY <1>1, <1>2, <1>4, <1>5, <1>8, <1>10 DEF ErrorSomewhere, Still
  <2>2. QED
    BY <1>1, <1>2, <1>10, <2>1 DEF FlowInv, ErrorsOK
<1>15. QED
  BY <1>8, <1>9, <1>12, <1>13, <1>14 DEF FlowInv

(* The reply tells of an error, or the pipeline is still.                   *)
LEMMA ReplyFlow ==
  ASSUME FlashInv, TalkInv, FlowInv, Reply
  PROVE  FlowInv'
<1>1. /\ current = "uart" /\ upc = "reply" /\ current' = "none" /\ upc' = "rx"
      /\ error' = FALSE /\ cmd' = NoPacket
      /\ UNCHANGED <<queue, polled, ev, ring, worker, programmer, failed>>
      /\ NoPacket.op = "none"
  BY DEF Reply, Uart, Yield, pipeline, NoPacket
<1>2. /\ cmd # NoPacket /\ Asked(cmd) /\ cmd.op \in {"BEGIN", "DATA", "END", "ERASE"}
      /\ error \in BOOLEAN
      /\ res # "OK" => host.resends > 0
  BY <1>1, AskedIs DEF TalkInv, InTurn, FlashInv, LoaderOK, Refusals
<1>3. /\ cmd.op = "ERASE" => host.phase = "erasing"
      /\ cmd.op # "ERASE" => host.phase \in {"begin", "data"}
      /\ cmd.op = "END" => host.phase = "data"
  BY <1>2, AskedIs
<1>4. /\ host'.resends = host.resends \/ ~error
      /\ error \/ res # "OK" => host'.phase = "stopped" /\ host'.resends = host.resends
      /\ ~error /\ res = "OK" =>
           /\ host'.phase \in {"data", "resend", "done", "erased", "chip_erased"}
           /\ host'.phase = "done" => cmd.op = "END"
           /\ host'.phase \in {"erased", "chip_erased"} => cmd.op = "ERASE"
  <2>1. host \in [phase : Phase, gen : Nat, offset : Nat, size : Nat, sent : Nat,
                  seq : Nat, last : {NoPacket} \cup DataPacket, resends : Nat]
    BY DEF FlashInv, HostOK
  <2>2. CASE host' = IF res = "OK" /\ ~error THEN Accepted ELSE [host EXCEPT !.phase = "stopped"]
    <3>1. CASE res = "OK" /\ ~error
      <4>1. host' = Accepted
        BY <2>2, <3>1
      <4>2. /\ host'.resends = host.resends
            /\ host'.phase = CASE cmd.op = "BEGIN" -> "data"
                               [] cmd.op = "DATA"  -> "data"
                               [] cmd.op = "END"   -> "done"
                               [] cmd.op = "ERASE" -> IF cmd.chip THEN "chip_erased" ELSE "erased"
        BY <2>1, <4>1 DEF Accepted
      <4>3. QED
        BY <1>2, <3>1, <4>2
    <3>2. CASE ~(res = "OK" /\ ~error)
      BY <2>1, <2>2, <3>2
    <3>3. QED
      BY <3>1, <3>2
  <2>3. CASE /\ res = "OK" /\ ~error
             /\ host' = [host EXCEPT !.phase = "resend", !.resends = @ + 1, !.last = cmd]
    <3>1. host'.phase = "resend"
      BY <2>1, <2>3
    <3>2. QED
      BY <2>3, <3>1
  <2>4. QED
    BY <2>2, <2>3 DEF Reply
<1>5. host'.phase \in {"data", "resend", "done", "erased", "chip_erased", "stopped"}
  BY <1>2, <1>4
<1>6. /\ UNCHANGED <<InFlight, ToTell, fpc, chip_erase>> /\ Tidy(queue)'
      /\ \A w : Woken(w)' = Woken(w)
  BY <1>1 DEF InFlight, ToTell, Contents, programmer, FlowInv, Tidy, Woken
<1>7. OneAtATime' /\ (AllRest' <=> AllRest)
  <2>1. OneAtATime /\ InFlight' = InFlight /\ ToTell' \subseteq ToTell
    BY <1>6 DEF FlowInv
  <2>2. UNCHANGED <<polled, worker, fpc>>
    BY <1>1, <1>6
  <2>3. QED
    BY <1>1, <2>1, <2>2, OneFrame
<1>8. Heard'
  BY <1>1 DEF Heard, UartWaits
<1>9. /\ BlockJob' = BlockJob /\ ChipJob' = ChipJob /\ RegionJob' = RegionJob
      /\ InProcess(ring)' = InProcess(ring)
      /\ \A e : Tell(e)' = Tell(e)
      /\ Result(-1)' = Result(-1)
  BY <1>1, <1>6 DEF BlockJob, ChipJob, RegionJob, Rdy, Ask, InProcess, Tell, Result
<1>10. OkTold' => OkTold
  BY <1>1, <1>6, <1>9 DEF OkTold
<1>11. ChipJob \/ RegionJob \/ OkTold => host'.phase = "stopped"
  <2>1. ASSUME ChipJob \/ RegionJob \/ OkTold PROVE error
    <3>1. host.phase = "erasing" /\ EraseDue
      BY <1>2, <1>3, <2>1 DEF FlowInv, JobsOK
    <3>2. QED
      BY <1>1, <3>1 DEF EraseDue
  <2>2. QED
    BY <1>4, <2>1
<1>12. JobsOK'
  BY <1>5, <1>6, <1>9, <1>10, <1>11 DEF FlowInv, JobsOK, EraseDue
<1>13. QuietOK'
  <2>1. ASSUME host'.phase \in {"done", "erased", "chip_erased"} PROVE Still
    <3>1. ~error /\ res = "OK" /\ cmd.op \in {"END", "ERASE"}
      BY <1>2, <1>4, <2>1
    <3>2. CASE cmd.op = "ERASE"
      BY <1>1, <1>3, <3>1, <3>2 DEF FlowInv, QuietOK
    <3>3. CASE cmd.op = "END"
      <4>1. host.phase = "data" /\ ~InProcess(ring)
        BY <1>1, <1>3, <3>3 DEF FlowInv, QuietOK
      <4>2. ~ChipJob /\ ~RegionJob /\ ~BlockJob /\ ~OkTold
        BY <4>1 DEF FlowInv, JobsOK
      <4>3. fpc = "idle" /\ AllRest /\ InFlight = {}
        BY <1>1, <4>2, NoJob
      <4>4. QED
        BY <1>1, <4>1, <4>2, <4>3 DEF Still, OkTold
    <3>4. QED
      BY <3>1, <3>2, <3>3
  <2>2. Still => Still'
    BY <1>1, <1>6, <1>7, <1>9 DEF Still
  <2>3. QED
    BY <1>1, <1>5, <2>1, <2>2 DEF QuietOK
<1>14. ErrorsOK'
  <2>1. ErrorSomewhere => error \/ ErrorSomewhere'
    BY <1>1, <1>6, <1>9 DEF ErrorSomewhere, FlowInv, ErrorsOK, UartWaits
  <2>2. ErrorSomewhere' => ErrorSomewhere
    BY <1>1, <1>6, <1>9 DEF ErrorSomewhere
  <2>3. failed => host'.phase = "stopped" \/ ErrorSomewhere'
    <3>1. host.phase # "stopped"
      BY <1>2, <1>3
    <3>2. QED
      BY <1>4, <2>1, <3>1 DEF FlowInv, ErrorsOK
  <2>4. host'.phase = "stopped" => failed \/ host'.resends > 0
    <3>1. error => failed
      BY DEF FlowInv, ErrorsOK, ErrorSomewhere
    <3>2. QED
      BY <1>2, <1>4, <3>1
  <2>5. QED
    BY <1>1, <2>2, <2>3, <2>4 DEF FlowInv, ErrorsOK
<1>15. QED
  BY <1>6, <1>7, <1>8, <1>12, <1>13, <1>14 DEF FlowInv

(* The host goes on when the pipeline is still, or with its image.          *)
LEMMA HostFlow ==
  ASSUME Calm, FlashInv, TalkInv, FlowInv, HostStep
  PROVE  FlowInv'
<1>1. ASSUME NEW c, Send(c), host.phase # "stopped", host'.resends = host.resends,
             \/ AtRest /\ host'.phase \in {"begin", "erasing"}
             \/ host.phase \in {"data", "resend"} /\ host'.phase = "data"
      PROVE  FlowInv'
  <2>1. /\ cmd = NoPacket /\ upc = "rx"
        /\ UNCHANGED <<queue, polled, turn, current, ev, upc, error, cmd, ring, worker, fpc,
                       chip_erase, failed>>
    BY <1>1, SentIs DEF Send, kernel, loader, pipeline, programmer
  <2>2. /\ UNCHANGED <<InFlight, ToTell, AllRest, OneAtATime>> /\ Tidy(queue)' /\ Heard'
        /\ UNCHANGED <<BlockJob, ChipJob, RegionJob, OkTold, Still, ErrorSomewhere>>
    <3>1. UNCHANGED <<InFlight, ToTell, AllRest, Helper>>
      BY <2>1 DEF InFlight, ToTell, Contents, AllRest, Resting, Helper
    <3>2. UNCHANGED <<OneAtATime, Still>>
      BY <2>1, <3>1 DEF OneAtATime, Asleep, Up, Ordered, AtWork, Answered, Handed, Polling, Waiting,
         Resting, Order, Result, Tell, Still, InProcess
    <3>3. UNCHANGED <<BlockJob, ChipJob, RegionJob, OkTold, ErrorSomewhere>>
      BY <2>1, <3>1 DEF BlockJob, ChipJob, RegionJob, OkTold, ErrorSomewhere, Woken, Rdy, Ask, Tell,
         Result
    <3>4. Tidy(queue)' /\ Heard'
      BY <2>1, <3>1 DEF FlowInv, Tidy, Heard
    <3>5. QED
      BY <3>1, <3>2, <3>3, <3>4
  <2>3. host.phase \in {"none", "done", "erased", "chip_erased", "data", "resend"}
    BY <1>1 DEF AtRest, Calm
  <2>4. ~ChipJob /\ ~RegionJob /\ ~OkTold
    BY <2>3 DEF FlowInv, JobsOK
  <2>5. host'.phase # "data" => Still /\ ~InProcess(ring)
    BY <1>1, <2>3 DEF AtRest, Calm, FlowInv, QuietOK, Still
  <2>6. JobsOK'
    BY <2>1, <2>2, <2>4, <2>5, <1>1 DEF FlowInv, JobsOK, InProcess
  <2>7. QuietOK'
    BY <2>1, <2>2, <2>5, <1>1 DEF QuietOK
  <2>8. ErrorsOK'
    BY <2>1, <2>2, <1>1 DEF FlowInv, ErrorsOK, Tell
  <2>9. QED
    BY <2>2, <2>6, <2>7, <2>8 DEF FlowInv
<1>2. /\ host \in [phase : Phase, gen : Nat, offset : Nat, size : Nat, sent : Nat,
                   seq : Nat, last : {NoPacket} \cup DataPacket, resends : Nat]
      /\ AtRest => host.phase # "stopped"
  BY DEF FlashInv, HostOK, AtRest, Calm
<1>3. ASSUME NEW r \in Images, SendBegin(r) PROVE FlowInv'
  <2>1. /\ AtRest /\ Send([op |-> "BEGIN", offset |-> r.offset, size |-> r.size])
        /\ host'.phase = "begin" /\ host'.resends = host.resends
    BY <1>2, <1>3 DEF SendBegin
  <2>2. QED
    BY <1>1, <1>2, <2>1
<1>4. ASSUME NEW r \in Regions, SendErase(r) PROVE FlowInv'
  <2>1. /\ AtRest
        /\ Send([op |-> "ERASE", chip |-> FALSE, offset |-> r.offset, size |-> r.size])
        /\ host'.phase = "erasing" /\ host'.resends = host.resends
    BY <1>2, <1>4 DEF SendErase
  <2>2. QED
    BY <1>1, <1>2, <2>1
<1>5. CASE SendChipErase
  <2>1. /\ AtRest /\ Send([op |-> "ERASE", chip |-> TRUE])
        /\ host'.phase = "erasing" /\ host'.resends = host.resends
    BY <1>2, <1>5 DEF SendChipErase
  <2>2. QED
    BY <1>1, <1>2, <2>1
<1>6. ASSUME NEW len \in Packets, SendData(len) PROVE FlowInv'
  <2>1. /\ host.phase = "data" /\ host' = host
        /\ Send([op |-> "DATA", seq |-> host.seq,
                 units |-> [i \in 1 .. len |-> Unit(host.gen, host.sent + i - 1)]])
    BY <1>6 DEF SendData
  <2>2. QED
    BY <1>1, <2>1
<1>7. CASE SendAgain
  <2>1. /\ host.phase = "resend" /\ Send(host.last)
        /\ host'.phase = "data" /\ host'.resends = host.resends
    BY <1>2, <1>7 DEF SendAgain
  <2>2. QED
    BY <1>1, <2>1
<1>8. CASE SendEnd
  <2>1. host.phase = "data" /\ host' = host /\ Send([op |-> "END"])
    BY <1>8 DEF SendEnd
  <2>2. QED
    BY <1>1, <2>1
<1>9. QED
  BY <1>3, <1>4, <1>5, <1>6, <1>7, <1>8 DEF HostStep

(* How a step of a worker ends: it goes on, looks at the status again when  *)
(* it is polled, or has a result.                                           *)
Onward(t) == current' = t /\ worker'[t].pc # "idle" /\ UNCHANGED <<queue, failed, polled, ev>>
Again(t) ==
  /\ current' = "none" /\ polled' = polled \cup {t}
  /\ worker'[t].pc \in {"latch_wait", "busy_wait", "chip_wait"} /\ UNCHANGED <<queue, failed, ev>>
Over(t, r) ==
  /\ current' = "none" /\ worker'[t].pc = "idle" /\ UNCHANGED <<polled, ev>>
  /\ queue' = Post(queue, "flash", "CONTINUE", r) /\ failed' = (failed \/ r # 0)
OtherWorker(t) == \A x \in Worker \ {t} : worker'[x] = worker[x]
Worked(t) == OtherWorker(t) /\ (Onward(t) \/ Again(t) \/ \E r \in {0, -1} : Over(t, r))

(* The three ends, where the code has them.                                 *)
LEMMA FinishIs ==
  ASSUME FlashInv, NEW t \in Worker, current = t, NEW r \in {0, -1}, Finish(t, r)
  PROVE  Worked(t)
<1>1. worker \in [Worker -> [pc : WorkerLabel, addr : Int, remain : 0 .. LOAD_BLK_SIZE,
                             buf : BufIdx, pos : 0 .. LOAD_BLK_SIZE - 1, j : 0 .. Timeout - 1]]
  BY DEF FlashInv, WorkerOK
<1>2. OtherWorker(t) /\ worker'[t].pc = "idle"
  BY <1>1 DEF Finish, Goto, OtherWorker
<1>3. Over(t, r)
  BY <1>2 DEF Finish, Yield, Over
<1>4. QED
  BY <1>2, <1>3 DEF Worked

(* ... where it polls itself                                                *)
LEMMA PollIs ==
  ASSUME FlashInv, NEW t \in Worker, current = t,
         NEW l \in {"latch_wait", "busy_wait", "chip_wait"}, PollAgain(t, l)
  PROVE  Worked(t)
<1>1. worker \in [Worker -> [pc : WorkerLabel, addr : Int, remain : 0 .. LOAD_BLK_SIZE,
                             buf : BufIdx, pos : 0 .. LOAD_BLK_SIZE - 1, j : 0 .. Timeout - 1]]
  BY DEF FlashInv, WorkerOK
<1>2. OtherWorker(t) /\ worker'[t].pc = l
  BY <1>1 DEF PollAgain, Goto, OtherWorker
<1>3. Again(t)
  BY <1>2 DEF PollAgain, Again
<1>4. QED
  BY <1>2, <1>3 DEF Worked

(* ... and where it goes on.                                                *)
LEMMA OnwardIs ==
  ASSUME FlashInv, NEW t \in Worker, current = t, Run, UNCHANGED <<queue, failed>>,
         NEW w, w.pc # "idle", worker' = [worker EXCEPT ![t] = w]
  PROVE  Worked(t)
<1>1. worker \in [Worker -> [pc : WorkerLabel, addr : Int, remain : 0 .. LOAD_BLK_SIZE,
                             buf : BufIdx, pos : 0 .. LOAD_BLK_SIZE - 1, j : 0 .. Timeout - 1]]
  BY DEF FlashInv, WorkerOK
<1>2. OtherWorker(t) /\ worker'[t] = w
  BY <1>1 DEF OtherWorker
<1>3. Onward(t)
  BY <1>2 DEF Run, Onward
<1>4. QED
  BY <1>2, <1>3 DEF Worked

(* ... to another label, with or without the counter.                       *)
LEMMA LabelIs ==
  ASSUME FlashInv, NEW t \in Worker, current = t, Run, UNCHANGED <<queue, failed>>,
         NEW l, l # "idle", NEW j,
         \/ worker' = [worker EXCEPT ![t].pc = l, ![t].j = j]
         \/ worker' = [worker EXCEPT ![t].pc = l]
  PROVE  Worked(t)
<1>1. worker \in [Worker -> [pc : WorkerLabel, addr : Int, remain : 0 .. LOAD_BLK_SIZE,
                             buf : BufIdx, pos : 0 .. LOAD_BLK_SIZE - 1, j : 0 .. Timeout - 1]]
  BY DEF FlashInv, WorkerOK
<1>2. OtherWorker(t) /\ worker'[t].pc = l
  BY <1>1 DEF OtherWorker
<1>3. Onward(t)
  BY <1>2 DEF Run, Onward
<1>4. QED
  BY <1>2, <1>3 DEF Worked

(* Every step of a worker ends in one of the three ways.                    *)
LEMMA WorkIs ==
  ASSUME FlashInv, WorkerStep
  PROVE  WorkerUnchanged /\ \E t \in Worker : current = t /\ Worked(t)
<1>1. /\ worker \in [Worker -> [pc : WorkerLabel, addr : Int, remain : 0 .. LOAD_BLK_SIZE,
                              buf : BufIdx, pos : 0 .. LOAD_BLK_SIZE - 1, j : 0 .. Timeout - 1]]
      /\ "erase" \in Worker /\ "program" \in Worker
  BY DEF FlashInv, WorkerOK, Worker
<1> DEFINE W == WorkerUnchanged /\ \E t \in Worker : current = t /\ Worked(t)
<1>2. ASSUME NEW t \in Worker, current = t, WorkerUnchanged, Worked(t) PROVE W
  BY <1>2
<1> HIDE DEF W
<1>0. SUFFICES W
  BY DEF W
<1>3. CASE EraseStart
  <2>1. current = "erase" /\ WorkerUnchanged
    BY <1>3 DEF EraseStart, Working
  <2> DEFINE a == IF ev.ev = "POLL" THEN worker["erase"].addr ELSE flash_ops.addr
  <2>2. CASE Finish("erase", -1)
    BY <1>1, <1>2, <2>1, <2>2, FinishIs, PollIs
  <2>3. CASE /\ worker' = [worker EXCEPT !["erase"].addr = a, !["erase"].pc = "wren"]
             /\ Run /\ UNCHANGED <<queue, failed>>
    <3> DEFINE w == [worker["erase"] EXCEPT !.addr = a, !.pc = "wren"]
    <3>1. worker' = [worker EXCEPT !["erase"] = w] /\ w.pc # "idle"
      BY <1>1, <2>3
    <3> HIDE DEF w
    <3>2. Worked("erase")
      BY <1>1, <2>1, <2>3, <3>1, OnwardIs
    <3>3. QED
      BY <1>1, <1>2, <2>1, <3>2
  <2>4. QED
    BY <1>3, <2>2, <2>3 DEF EraseStart
<1>4. CASE ProgramStart
  <2>1. current = "program" /\ WorkerUnchanged /\ Run /\ UNCHANGED <<queue, failed>>
    BY <1>4 DEF ProgramStart, Working
  <2> DEFINE w == IF ev.ev = "POLL" THEN [worker["program"] EXCEPT !.pc = "wren"]
                  ELSE [pc |-> "wren", addr |-> flash_ops.addr, remain |-> flash_ops.size,
                        buf |-> flash_ops.buf, pos |-> 0, j |-> 0]
  <2>2. worker' = [worker EXCEPT !["program"] = w]
    BY <1>1, <1>4 DEF ProgramStart
  <2>3. w.pc # "idle"
    BY <1>1
  <2> HIDE DEF w
  <2>4. Worked("program")
    BY <1>1, <2>1, <2>2, <2>3, OnwardIs
  <2>5. QED
    BY <1>1, <1>2, <2>1, <2>4
<1>6. ASSUME NEW t \in Worker, WriteEnable(t) PROVE W
  <2>1. current = t /\ WorkerUnchanged
    BY <1>6 DEF WriteEnable, Working
  <2>2. \/ /\ worker' = [worker EXCEPT ![t].pc = "read_latch", ![t].j = 1]
           /\ Run /\ UNCHANGED <<queue, failed>>
        \/ Finish(t, -1)
    BY <1>6 DEF WriteEnable
  <2>3. Worked(t)
    BY <2>1, <2>2, LabelIs, FinishIs, PollIs
  <2>4. QED
    BY <1>2, <2>1, <2>3
<1>7. ASSUME NEW t \in Worker, ReadLatch(t) PROVE W
  <2>1. current = t /\ WorkerUnchanged
    BY <1>7 DEF ReadLatch, Working
  <2>2. \/ /\ worker' = [worker EXCEPT ![t].pc = "command"]
           /\ Run /\ UNCHANGED <<queue, failed>>
        \/ PollAgain(t, "latch_wait") \/ Finish(t, -1)
    BY <1>7 DEF ReadLatch, GoOn, Goto
  <2>3. Worked(t)
    BY <2>1, <2>2, LabelIs, FinishIs, PollIs
  <2>4. QED
    BY <1>2, <2>1, <2>3
<1>8. ASSUME NEW t \in Worker, NEW wait, NEW read, read # "idle", Resume(t, wait, read) PROVE W
  <2>1. current = t /\ WorkerUnchanged
    BY <1>8 DEF Resume, Working
  <2>2. CASE Finish(t, -1)
    BY <1>2, <2>1, <2>2, FinishIs, PollIs
  <2>3. CASE Run /\ UNCHANGED <<queue, failed>> /\ ~Finish(t, -1)
    <3> DEFINE j == worker[t].j + 1
    <3>1. worker' = [worker EXCEPT ![t].pc = read, ![t].j = j]
      BY <1>1, <1>8, <2>3 DEF Resume
    <3> HIDE DEF j
    <3>2. Worked(t)
      BY <1>8, <2>1, <2>3, <3>1, LabelIs
    <3>3. QED
      BY <1>2, <2>1, <3>2
  <2>4. QED
    BY <1>8, <2>2, <2>3 DEF Resume
<1>9. CASE EraseCommand \/ ChipCommand
  <2>1. current = "erase" /\ WorkerUnchanged
    BY <1>9 DEF EraseCommand, ChipCommand, Working
  <2>2. \/ /\ \/ worker' = [worker EXCEPT !["erase"].pc = "read_busy", !["erase"].j = 1]
              \/ worker' = [worker EXCEPT !["erase"].pc = "read_chip", !["erase"].j = 1]
           /\ Run /\ UNCHANGED <<queue, failed>>
        \/ Finish("erase", -1)
    BY <1>9 DEF EraseCommand, ChipCommand
  <2>3. Worked("erase")
    BY <1>1, <2>1, <2>2, LabelIs, FinishIs, PollIs
  <2>4. QED
    BY <1>1, <1>2, <2>1, <2>3
<1>10. CASE ProgramCommand
  <2>1. current = "program" /\ WorkerUnchanged
    BY <1>10 DEF ProgramCommand, Working
  <2>2. \/ /\ worker' = [worker EXCEPT !["program"].pc = "read_busy", !["program"].j = 1]
           /\ Run /\ UNCHANGED <<queue, failed>>
        \/ Finish("program", -1)
    BY <1>10 DEF ProgramCommand
  <2>3. Worked("program")
    BY <1>1, <2>1, <2>2, LabelIs, FinishIs, PollIs
  <2>4. QED
    BY <1>1, <1>2, <2>1, <2>3
<1>11. CASE ReadChip \/ EraseRead
  <2>1. current = "erase" /\ WorkerUnchanged
    BY <1>11 DEF ReadChip, EraseRead, Working
  <2>2. \/ /\ worker' = [worker EXCEPT !["erase"].pc = "read_busy", !["erase"].j = 1]
           /\ Run /\ UNCHANGED <<queue, failed>>
        \/ PollAgain("erase", "chip_wait") \/ PollAgain("erase", "busy_wait")
        \/ Finish("erase", -1) \/ Finish("erase", 0)
    BY <1>11 DEF ReadChip, EraseRead
  <2>3. Worked("erase")
    BY <1>1, <2>1, <2>2, LabelIs, FinishIs, PollIs
  <2>4. QED
    BY <1>1, <1>2, <2>1, <2>3
<1>12. CASE ProgramRead
  <2>1. current = "program" /\ WorkerUnchanged
    BY <1>12 DEF ProgramRead, Working
  <2> DEFINE p == worker["program"]
             w == [p EXCEPT !.pc = "wren", !.addr = @ + 1, !.pos = @ + 1, !.remain = @ - 1]
  <2>2. \/ /\ worker' = [worker EXCEPT !["program"] = w]
           /\ Run /\ UNCHANGED <<queue, failed>>
        \/ PollAgain("program", "busy_wait")
        \/ Finish("program", -1) \/ Finish("program", 0)
    BY <1>1, <1>12 DEF ProgramRead
  <2>3. w.pc # "idle"
    BY <1>1
  <2> HIDE DEF w
  <2>4. Worked("program")
    BY <1>1, <2>1, <2>2, <2>3, OnwardIs, FinishIs, PollIs
  <2>5. QED
    BY <1>1, <1>2, <2>1, <2>4
<1>13. W
  <2>1. ASSUME NEW t \in Worker, WriteEnable(t) \/ ReadLatch(t) PROVE W
    BY <1>6, <1>7, <2>1
  <2>2. ASSUME NEW t \in Worker,
               Resume(t, "latch_wait", "read_latch") \/ Resume(t, "busy_wait", "read_busy")
        PROVE  W
    BY <1>8, <2>2
  <2>3. CASE Resume("erase", "chip_wait", "read_chip")
    BY <1>1, <1>8, <2>3
  <2> DEFINE Latch == \E t \in Worker : WriteEnable(t) \/ ReadLatch(t)
             Resumed == \E t \in Worker : \/ Resume(t, "latch_wait", "read_latch")
                                         \/ Resume(t, "busy_wait", "read_busy")
  <2>4. Latch => W
    BY <2>1
  <2>5. Resumed => W
    BY <2>2
  <2>6. \/ EraseStart \/ ProgramStart \/ (EraseCommand \/ ChipCommand) \/ ProgramCommand
        \/ (ReadChip \/ EraseRead) \/ ProgramRead
        \/ Latch \/ Resumed \/ Resume("erase", "chip_wait", "read_chip")
    BY DEF WorkerStep
  <2> HIDE DEF Latch, Resumed
  <2>7. QED
    BY <1>3, <1>4, <1>9, <1>10, <1>11, <1>12, <2>3, <2>4, <2>5, <2>6
<1>14. QED
  BY <1>13

(* A worker goes on with its order until it has answered.                   *)
LEMMA WorkerFlow ==
  ASSUME Calm, FlashInv, FlowInv, WorkerStep
  PROVE  FlowInv'
<1>1. PICK t \in Worker : current = t /\ Worked(t)
  BY WorkIs
<1>2. /\ UNCHANGED <<upc, error, cmd, mem, ring, fpc, chip_erase, host>>
      /\ OtherWorker(t) /\ (Onward(t) \/ Again(t) \/ \E r \in {0, -1} : Over(t, r))
  BY <1>1, WorkIs DEF WorkerUnchanged, loader, programmer, outside, Worked
<1>3. /\ t \notin {"none", "uart", "flash"} /\ current = t
      /\ Result(0) \in Results /\ Result(-1) \in Results
  BY <1>1, EventsAre
<1>4. /\ t = Helper /\ Helper' = Helper /\ Waiting /\ InFlight = {} /\ ToTell = {}
      /\ Helper \notin polled
  <2>1. Helper' = Helper
    BY <1>2 DEF Helper
  <2>2. ~Asleep /\ ~Up /\ ~Ordered /\ \A r : ~Answered(r)
    <3>1. ~AllRest
      BY <1>1 DEF AllRest, Resting
    <3>2. Waiting => t = Helper
      BY <1>1 DEF Waiting, Resting
    <3>3. Resting(Helper) => t # Helper
      BY <1>1 DEF Resting
    <3>4. QED
      BY <3>1, <3>2, <3>3 DEF Asleep, Up, Ordered, Answered
  <2>3. AtWork
    BY <2>2 DEF FlowInv, OneAtATime
  <2>4. t = Helper
    BY <1>1, <2>3 DEF AtWork, Waiting, Resting
  <2>5. QED
    BY <1>1, <2>1, <2>3, <2>4 DEF AtWork, Handed, Polling
<1>5. current' \in {t, "none"} /\ ev' = ev
  BY <1>2 DEF Onward, Again, Over
<1>6. Waiting'
  <2>1. \A x \in Worker \ {Helper} : Resting(x)'
    BY <1>2, <1>3, <1>4, <1>5, EventsAre DEF Waiting, Resting, OtherWorker, Onward, Again, Over
  <2>2. QED
    BY <1>2, <1>3, <1>4, <1>5, <2>1 DEF Waiting
<1>7. /\ \A e : Tell(e)' = Tell(e)
      /\ \A i : Rdy(i)' = Rdy(i) /\ Ask(i)' = Ask(i) /\ Result(i)' = Result(i)
      /\ Order(Helper)' = Order(Helper)
  BY <1>4 DEF Tell, Rdy, Ask, Result, Order
<1>8. /\ Tidy(queue)' /\ OneAtATime' /\ ToTell' = {}
      /\ \A w \in Wakes : w \notin InFlight'
      /\ Result(-1) \in InFlight' => failed'
      /\ failed' => failed \/ Result(-1) \in InFlight'
      /\ failed => failed'
  <2>1. CASE UNCHANGED queue /\ (Onward(t) \/ Again(t))
    <3>1. Tidy(queue)' /\ InFlight' = {} /\ ToTell' = {}
      BY <1>4, <2>1 DEF FlowInv, Tidy, InFlight, ToTell, Contents
    <3>2. Handed' \/ Polling'
      BY <1>3, <1>4, <2>1 DEF Handed, Polling, Onward, Again
    <3>3. AtWork'
      BY <1>6, <3>1, <3>2 DEF AtWork
    <3>4. failed' = failed
      BY <2>1 DEF Onward, Again
    <3>5. QED
      BY <3>1, <3>3, <3>4 DEF OneAtATime
  <2>2. ASSUME NEW r \in {0, -1}, Over(t, r)
        PROVE  /\ Tidy(queue)' /\ OneAtATime' /\ ToTell' = {}
               /\ \A w \in Wakes : w \notin InFlight'
               /\ Result(-1) \in InFlight' => failed'
               /\ failed' => failed \/ Result(-1) \in InFlight'
               /\ failed => failed'
    <3>1. queue' = Post(queue, "flash", "CONTINUE", r)
      BY <2>2 DEF Over
    <3>2. Tidy(queue)' /\ InFlight' = {Result(r)} /\ ToTell' = {}
      BY <1>4, <3>1, ResultPosted DEF FlowInv
    <3>3. Resting(Helper)'
      BY <1>3, <1>4, <2>2 DEF Resting, Over
    <3>4. Answered(r)'
      BY <1>6, <1>7, <3>2, <3>3 DEF Answered
    <3>5. Result(r) \in Results
      BY <1>3
    <3>6. \A w \in Wakes : w \notin InFlight'
      BY <3>2, <3>5, EventsAre
    <3>7. Result(-1) \in InFlight' <=> r # 0
      BY <3>2, EventsAre
    <3>8. failed' <=> (failed \/ r # 0)
      BY <2>2 DEF Over
    <3>9. QED
      BY <3>2, <3>4, <3>6, <3>7, <3>8 DEF OneAtATime
  <2>3. QED
    BY <1>2, <2>1, <2>2 DEF Onward, Again
<1>9. Heard'
  BY <1>2, <1>3, <1>5 DEF FlowInv, Heard
<1>10. /\ BlockJob' => BlockJob
       /\ ChipJob' => ChipJob
       /\ RegionJob' => RegionJob
       /\ ~OkTold'
  <2>1. /\ \A i \in CtrlIdx : Rdy(i) \in Wakes /\ Rdy(i)' \notin InFlight'
        /\ Ask(0)' \notin InFlight' /\ Ask(Chip)' \notin InFlight'
    BY <1>7, <1>8 DEF Wakes
  <2>2. Tell("PROG_OK")' \notin ToTell'
    BY <1>8
  <2>3. QED
    BY <1>2, <1>3, <1>5, <2>1, <2>2 DEF BlockJob, ChipJob, RegionJob, OkTold, Woken
<1>11. JobsOK'
  BY <1>2, <1>10 DEF FlowInv, JobsOK, EraseDue, InProcess
<1>12. QuietOK'
  <2>1. ~Still
    BY <1>1 DEF Still, AllRest, Resting
  <2>2. QED
    BY <1>2, <2>1 DEF FlowInv, QuietOK, InProcess
<1>13. ErrorsOK'
  <2>1. ErrorSomewhere => ErrorSomewhere'
    BY <1>2, <1>3, <1>4 DEF ErrorSomewhere
  <2>2. ErrorSomewhere' => error \/ Result(-1) \in InFlight'
    BY <1>2, <1>3, <1>5, <1>7, <1>8 DEF ErrorSomewhere
  <2>3. error => failed
    BY DEF FlowInv, ErrorsOK, ErrorSomewhere
  <2>4. Result(-1) \in InFlight' => ErrorSomewhere'
    BY <1>7 DEF ErrorSomewhere
  <2>5. QED
    BY <1>2, <1>3, <1>5, <1>8, <2>1, <2>2, <2>3, <2>4 DEF FlowInv, ErrorsOK
<1>14. QED
  BY <1>8, <1>9, <1>11, <1>12, <1>13 DEF FlowInv

(* flash_prog_process looks at its blocks and erasures; the rest of the     *)
(* invariant depends on what becomes of them, and on what it tells.         *)
LEMMA FlashRest ==
  ASSUME FlowInv, current = "flash", current' \in {"flash", "none"},
         UNCHANGED <<upc, error, cmd, host, failed>>,
         Tidy(queue)', OneAtATime',
         BlockJob' => InProcess(ring)', InProcess(ring)' => InProcess(ring),
         ChipJob' => ChipJob, RegionJob' => RegionJob,
         Tell("PROG_OK") \in ToTell' =>
           Tell("PROG_OK") \in ToTell \/ ((ChipJob \/ RegionJob) /\ ~ChipJob' /\ ~RegionJob'),
         ErrorSomewhere' <=> ErrorSomewhere,
         fpc' \in {"chip", "chip_wait"} => chip_erase',
         fpc' \in {"region", "region_wait", "region_done", "sector_wait"} => ~chip_erase'
  PROVE  FlowInv'
<1>1. Heard'
  BY DEF FlowInv, Heard
<1>2. OkTold' => OkTold \/ ((ChipJob \/ RegionJob) /\ ~ChipJob' /\ ~RegionJob')
  <2>1. Tell("PROG_OK")' = Tell("PROG_OK")
    BY DEF Tell
  <2>2. QED
    BY <2>1 DEF OkTold
<1>3. EraseDue' = EraseDue
  BY DEF EraseDue
<1>4. JobsOK'
  BY <1>2, <1>3 DEF FlowInv, JobsOK
<1>5. QuietOK'
  <2>1. ~Still
    BY DEF Still
  <2>2. QED
    BY <2>1 DEF FlowInv, QuietOK
<1>6. ErrorsOK'
  BY DEF FlowInv, ErrorsOK
<1>7. QED
  BY <1>1, <1>4, <1>5, <1>6 DEF FlowInv

(* The events mean the same before and after a step.                        *)
LEMMA EventsStay ==
  /\ \A e : Tell(e)' = Tell(e)
  /\ \A i : Rdy(i)' = Rdy(i) /\ Ask(i)' = Ask(i) /\ Result(i)' = Result(i) /\ Order(i)' = Order(i)
  BY DEF Tell, Rdy, Ask, Result, Order

(* flash_prog_process has the turn.                                         *)
LEMMA UpIs ==
  ASSUME FlowInv, current = "flash"
  PROVE  /\ Up /\ AllRest /\ InFlight = {}
         /\ fpc # "drain" => ToTell = {}
         /\ fpc = "idle" => ev \in Wakes
         /\ fpc \in Waits => ev \in Results
         /\ ErrorSomewhere <=> \/ error \/ Tell("PROG_ERR") \in ToTell
                               \/ (ev = Result(-1) /\ fpc \in Waits)
  BY DEF FlowInv, OneAtATime, Asleep, Up, Ordered, AtWork, Answered, Waiting, ErrorSomewhere

(* ... and keeps it, posting nothing.                                       *)
LEMMA FlashOn ==
  ASSUME FlowInv, current = "flash", FlashUnchanged, Run, UNCHANGED <<queue, ring>>,
         fpc' \in {"drain", "chip", "region", "region_done"},
         fpc \in {"idle", "region", "region_wait"},
         fpc' = "chip" => Woken(Ask(Chip)) /\ chip_erase',
         fpc' \in {"region", "region_done"} => RegionJob /\ ~chip_erase',
         ~(fpc \in Waits /\ ev = Result(-1))
  PROVE  FlowInv'
<1>1. /\ AllRest /\ InFlight = {} /\ ToTell = {}
      /\ ErrorSomewhere <=> error
  BY UpIs, EventsAre
<1>2. UNCHANGED <<upc, error, cmd, host, failed, current, polled, ev, worker>>
  BY DEF FlashUnchanged, Run, loader, outside
<1>3. Tidy(queue)' /\ InFlight' = {} /\ ToTell' = {}
  BY <1>1 DEF FlowInv, Tidy, InFlight, ToTell, Contents
<1>4. AllRest'
  BY <1>1, <1>2 DEF AllRest, Resting
<1>5. OneAtATime'
  BY <1>2, <1>3, <1>4 DEF OneAtATime, Up, Waits
<1>6. /\ ~BlockJob' /\ (ChipJob' <=> fpc' = "chip") /\ (RegionJob' <=> fpc' \in {"region", "region_done"})
  BY <1>3 DEF BlockJob, ChipJob, RegionJob, Woken
<1>7. ErrorSomewhere' <=> error
  BY <1>2, <1>3 DEF ErrorSomewhere, Waits
<1>8. QED
  BY <1>1, <1>2, <1>3, <1>5, <1>6, <1>7, FlashRest DEF ChipJob, InProcess

(* ... or gives an order and waits for the result.                          *)
LEMMA FlashOrders ==
  ASSUME Calm, FlowInv, current = "flash", FlashUnchanged, Yield, UNCHANGED ring,
         fpc' \in Waits,
         NEW t \in Worker, t = IF fpc' = "program_wait" THEN "program" ELSE "erase",
         queue' = Post(queue, t, "CONTINUE", 0),
         fpc' = "chip_wait" => ChipJob /\ chip_erase',
         fpc' = "region_wait" => RegionJob /\ ~chip_erase',
         fpc' = "sector_wait" => ~chip_erase',
         fpc' \in {"sector_wait", "program_wait"} => InProcess(ring),
         ~(fpc \in Waits /\ ev = Result(-1))
  PROVE  FlowInv'
<1>1. /\ AllRest /\ InFlight = {}
      /\ ErrorSomewhere <=> error \/ Tell("PROG_ERR") \in ToTell
  BY UpIs
<1>2. /\ UNCHANGED <<upc, error, cmd, host, failed, polled, ev, worker>> /\ current' = "none"
  BY DEF FlashUnchanged, Yield, loader, outside
<1>3. Tidy(queue)' /\ InFlight' = {Order(t)} /\ ToTell' = ToTell
  BY <1>1, OrderPosted DEF FlowInv
<1>4. \A x \in Worker : Resting(x)'
  BY <1>1, <1>2, EventsAre DEF AllRest, Resting
<1>5. Helper' = t
  BY DEF Helper
<1>6. Ordered'
  BY <1>2, <1>3, <1>4, <1>5, EventsStay DEF Ordered, Waiting
<1>7. Order(t) \notin Wakes /\ Order(t) # Result(-1)
  BY EventsAre
<1>8. /\ BlockJob' => fpc' \in {"sector_wait", "program_wait"}
      /\ ChipJob' => fpc' = "chip_wait"
      /\ RegionJob' => fpc' = "region_wait"
  <2>1. \A w \in Wakes : ~Woken(w)'
    BY <1>2, <1>3, <1>7 DEF Woken
  <2>2. /\ \A i \in CtrlIdx : ~Woken(Rdy(i))'
        /\ ~Woken(Ask(0))' /\ ~Woken(Ask(Chip))'
    BY <1>2, <1>3, <1>7 DEF Woken, Wakes, Rdy, Ask
  <2>3. QED
    BY <2>2 DEF BlockJob, ChipJob, RegionJob, Waits
<1>9. ErrorSomewhere' <=> error \/ Tell("PROG_ERR") \in ToTell
  BY <1>2, <1>3, <1>7, EventsStay DEF ErrorSomewhere
<1>10. QED
  BY <1>1, <1>2, <1>3, <1>6, <1>8, <1>9, FlashRest DEF OneAtATime, InProcess, Waits

(* ... or has something to tell.                                            *)
LEMMA FlashTells ==
  ASSUME Calm, FlowInv, current = "flash", FlashUnchanged, UNCHANGED <<polled, ev>>,
         \/ fpc' = "drain" /\ current' = "flash"
         \/ fpc' = "idle" /\ current' = "none",
         fpc # "drain", InProcess(ring)' => InProcess(ring),
         NEW e \in {"BUF_FREE", "PROG_OK", "PROG_ERR"}, queue' = Post(queue, "uart", e, 0),
         e = "PROG_OK" => ChipJob \/ RegionJob,
         e = "PROG_ERR" <=> fpc \in Waits /\ ev = Result(-1)
  PROVE  FlowInv'
<1>1. /\ AllRest /\ InFlight = {} /\ ToTell = {}
      /\ ErrorSomewhere <=> error \/ e = "PROG_ERR"
  BY UpIs, EventsAre
<1>2. UNCHANGED <<upc, error, cmd, host, failed, polled, ev, worker>>
  BY DEF FlashUnchanged, loader, outside
<1>3. Tidy(queue)' /\ InFlight' = {} /\ ToTell' = {Tell(e)}
  BY <1>1, TellPosted DEF FlowInv
<1>4. AllRest'
  BY <1>1, <1>2, EventsAre DEF AllRest, Resting
<1>5. OneAtATime'
  BY <1>3, <1>4 DEF OneAtATime, Up, Asleep, Waits
<1>6. ~BlockJob' /\ ~ChipJob' /\ ~RegionJob'
  BY <1>3 DEF BlockJob, ChipJob, RegionJob, Woken
<1>7. \A x, y : Tell(x) = Tell(y) => x = y
  BY DEF Tell
<1>8. ErrorSomewhere' <=> error \/ e = "PROG_ERR"
  BY <1>2, <1>3, <1>7, EventsStay DEF ErrorSomewhere, Waits
<1>9. Tell("PROG_OK") \in ToTell' => e = "PROG_OK"
  BY <1>3, <1>7
<1>10. QED
  BY <1>1, <1>2, <1>3, <1>5, <1>6, <1>8, <1>9, FlashRest

(* flash_prog_process, statement by statement.                              *)
LEMMA FlashFlow ==
  ASSUME Calm, FlashInv, FlowInv, FlashStep
  PROVE  FlowInv'
<1> USE DEF Flash
<1>0. /\ current = "flash" /\ FlashUnchanged /\ "erase" \in Worker /\ "program" \in Worker
      /\ fpc \in FlashLabel
  BY DEF FlashStep, FlashIdle, ChipErase, ChipErased, RegionErase, RegionErased, RegionDone,
     NextBlock, Drained, SectorErased, BlockProgrammed, Worker, FlashInv, ProgrammerOK
<1>1. /\ fpc \in {"chip", "chip_wait"} => ChipJob /\ chip_erase
      /\ fpc \in {"region", "region_wait", "region_done"} => RegionJob /\ ~chip_erase
      /\ fpc \in {"sector_wait", "program_wait"} => InProcess(ring)
      /\ fpc = "sector_wait" => ~chip_erase
  BY DEF FlowInv, JobsOK, ChipJob, RegionJob, BlockJob
<1>2. /\ fpc = "idle" => ev \in Wakes /\ (ev.ev = "ERASE" => ev = Ask(ev.data) /\ ev.data \in {0, Chip})
      /\ fpc \in Waits => ev \in Results /\ (ev.data # 0 <=> ev = Result(-1)) /\ ev.ev = "CONTINUE"
  <2>1. \A w \in Wakes : w.ev = "ERASE" => w = Ask(w.data) /\ w.data \in {0, Chip}
    BY DEF Wakes, Rdy, Ask
  <2>2. QED
    BY <1>0, <2>1, UpIs, EventsAre
<1>3. CASE FlashIdle
  <2>1. fpc = "idle" /\ Run /\ UNCHANGED <<queue, ring>>
    BY <1>3 DEF FlashIdle
  <2>2. CASE ev.ev # "ERASE"
    <3>1. fpc' = "drain"
      BY <1>3, <2>2 DEF FlashIdle
    <3>2. QED
      BY <1>0, <2>1, <3>1, FlashOn DEF Waits
  <2>3. CASE ev.ev = "ERASE" /\ ev.data = Chip
    <3>1. fpc' = "chip" /\ chip_erase' = TRUE
      BY <1>3, <2>3 DEF FlashIdle
    <3>2. Woken(Ask(Chip))
      BY <1>0, <1>2, <2>1, <2>3 DEF Woken
    <3>3. QED
      BY <1>0, <2>1, <3>1, <3>2, FlashOn DEF Waits
  <2>4. CASE ev.ev = "ERASE" /\ ev.data # Chip
    <3>1. fpc' = "region" /\ chip_erase' = FALSE
      BY <1>3, <2>4 DEF FlashIdle
    <3>2. RegionJob
      BY <1>0, <1>2, <2>1, <2>4 DEF Woken, RegionJob
    <3>3. QED
      BY <1>0, <2>1, <3>1, <3>2, FlashOn DEF Waits
  <2>5. QED
    BY <2>2, <2>3, <2>4
<1>4. CASE ChipErase
  <2>1. fpc = "chip" /\ UNCHANGED <<ring, chip_erase>>
    BY <1>4 DEF ChipErase
  <2>2. CASE ErasedAlready(flash_ops.addr)
    <3>1. queue' = Post(queue, "uart", "PROG_OK", 0) /\ fpc' = "drain" /\ Run
      BY <1>4, <2>2 DEF ChipErase
    <3>2. QED
      BY <1>0, <1>1, <2>1, <3>1, FlashTells DEF Run, Waits, InProcess
  <2>3. CASE ~ErasedAlready(flash_ops.addr)
    <3>1. queue' = Post(queue, "erase", "CONTINUE", 0) /\ fpc' = "chip_wait" /\ Yield
      BY <1>4, <2>3 DEF ChipErase
    <3>2. QED
      BY <1>0, <1>1, <2>1, <3>1, FlashOrders DEF Waits
  <2>4. QED
    BY <2>2, <2>3
<1>5. CASE ChipErased
  <2>1. fpc = "chip_wait" /\ UNCHANGED <<ring, chip_erase>> /\ fpc' = "drain" /\ Run
    BY <1>5 DEF ChipErased
  <2> DEFINE e == IF ev.data # 0 THEN "PROG_ERR" ELSE "PROG_OK"
  <2>2. queue' = Post(queue, "uart", e, 0)
    BY <1>5 DEF ChipErased
  <2>3. QED
    BY <1>0, <1>1, <1>2, <2>1, <2>2, FlashTells DEF Run, Waits, InProcess
<1>6. CASE RegionErase
  <2>1. fpc = "region" /\ UNCHANGED <<ring, chip_erase>>
    BY <1>6 DEF RegionErase
  <2>2. CASE ErasedAlready(flash_ops.addr)
    <3>1. fpc' \in {"region", "region_done"} /\ Run /\ UNCHANGED queue
      BY <1>6, <2>2 DEF RegionErase, RegionLabel
    <3>2. QED
      BY <1>0, <1>1, <2>1, <3>1, FlashOn DEF Waits
  <2>3. CASE ~ErasedAlready(flash_ops.addr)
    <3>1. queue' = Post(queue, "erase", "CONTINUE", 0) /\ fpc' = "region_wait" /\ Yield
      BY <1>6, <2>3 DEF RegionErase
    <3>2. QED
      BY <1>0, <1>1, <2>1, <3>1, FlashOrders DEF Waits
  <2>4. QED
    BY <2>2, <2>3
<1>7. CASE RegionErased
  <2>1. fpc = "region_wait" /\ UNCHANGED <<ring, chip_erase>>
    BY <1>7 DEF RegionErased
  <2>2. CASE ev.data # 0
    <3>1. queue' = Post(queue, "uart", "PROG_ERR", 0) /\ fpc' = "idle" /\ Yield
      BY <1>7, <2>2 DEF RegionErased
    <3>2. QED
      BY <1>0, <1>2, <2>1, <2>2, <3>1, FlashTells DEF Yield, Waits, InProcess
  <2>3. CASE ~(ev.data # 0)
    <3>1. fpc' \in {"region", "region_done"} /\ Run /\ UNCHANGED queue
      BY <1>7, <2>3 DEF RegionErased, RegionLabel
    <3>2. QED
      BY <1>0, <1>1, <1>2, <2>1, <2>3, <3>1, FlashOn DEF Waits
  <2>4. QED
    BY <2>2, <2>3
<1>8. CASE RegionDone
  <2>1. /\ fpc = "region_done" /\ UNCHANGED ring
        /\ queue' = Post(queue, "uart", "PROG_OK", 0) /\ fpc' = "idle" /\ Yield
    BY <1>8 DEF RegionDone
  <2>2. QED
    BY <1>0, <1>1, <2>1, FlashTells DEF Yield, Waits, InProcess
<1>9. CASE NextBlock
  <2>1. fpc = "drain" /\ InProcess(ring) /\ UNCHANGED ring /\ chip_erase' = FALSE /\ Yield
    BY <1>9 DEF NextBlock
  <2>2. \/ fpc' = "program_wait" /\ queue' = Post(queue, "program", "CONTINUE", 0)
        \/ fpc' = "sector_wait" /\ queue' = Post(queue, "erase", "CONTINUE", 0)
    BY <1>9 DEF NextBlock
  <2>3. QED
    BY <1>0, <2>1, <2>2, FlashOrders DEF Waits
<1>10. CASE Drained
  <2>1. /\ fpc = "drain" /\ fpc' = "idle" /\ current' = "none"
        /\ UNCHANGED <<queue, ring, chip_erase, polled, ev>>
        /\ UNCHANGED <<upc, error, cmd, host, failed, worker>>
    BY <1>0, <1>10 DEF Drained, Yield, FlashUnchanged, loader, outside
  <2>2. AllRest /\ InFlight = {}
    BY <1>0, UpIs
  <2>3. Tidy(queue)' /\ InFlight' = {} /\ ToTell' = ToTell
    BY <2>1, <2>2 DEF FlowInv, Tidy, InFlight, ToTell, Contents
  <2>4. AllRest'
    BY <2>1, <2>2, EventsAre DEF AllRest, Resting
  <2>5. OneAtATime'
    BY <2>1, <2>3, <2>4 DEF OneAtATime, Asleep
  <2>6. ~BlockJob' /\ ~ChipJob' /\ ~RegionJob'
    BY <2>1, <2>3 DEF BlockJob, ChipJob, RegionJob, Woken
  <2>7. ErrorSomewhere' <=> ErrorSomewhere
    BY <1>0, <2>1, <2>2, <2>3, EventsStay DEF ErrorSomewhere, Waits
  <2>8. QED
    BY <1>0, <2>1, <2>3, <2>5, <2>6, <2>7, FlashRest DEF InProcess
<1>11. ASSUME fpc \in {"sector_wait", "program_wait"}, NEW e \in {"BUF_FREE", "PROG_ERR"}, BlockOver(e),
              e = "PROG_ERR" <=> ev.data # 0
       PROVE  FlowInv'
  <2>1. /\ queue' = Post(queue, "uart", e, 0) /\ fpc' = "drain" /\ Run
        /\ InProcess(ring)' => InProcess(ring)
    BY <1>11, RingProcess DEF BlockOver, InProcess
  <2>2. QED
    BY <1>0, <1>2, <1>11, <2>1, FlashTells DEF Run, Waits
<1>12. CASE SectorErased
  <2>1. fpc = "sector_wait" /\ UNCHANGED chip_erase /\ ev.ev # "BUF_RDY"
    BY <1>2, <1>12 DEF SectorErased, Waits
  <2>2. CASE ev.data # 0
    BY <1>11, <1>12, <2>1, <2>2 DEF SectorErased
  <2>3. CASE ~(ev.data # 0)
    <3>1. queue' = Post(queue, "program", "CONTINUE", 0) /\ fpc' = "program_wait" /\ Yield
          /\ UNCHANGED ring
      BY <1>12, <2>1, <2>3 DEF SectorErased
    <3>2. QED
      BY <1>0, <1>1, <1>2, <2>1, <2>3, <3>1, FlashOrders DEF Waits
  <2>4. QED
    BY <2>2, <2>3
<1>13. CASE BlockProgrammed
  <2>1. fpc = "program_wait" /\ ev.ev # "BUF_RDY"
    BY <1>2, <1>13 DEF BlockProgrammed, Waits
  <2>2. BlockOver(BlockEvent)
    BY <1>13, <2>1 DEF BlockProgrammed
  <2>3. QED
    BY <1>11, <2>1, <2>2 DEF BlockEvent
<1>14. QED
  BY <1>3, <1>4, <1>5, <1>6, <1>7, <1>8, <1>9, <1>10, <1>12, <1>13 DEF FlashStep

(* The kernel delivers an event.                                            *)
LEMMA EventFlow ==
  ASSUME FlowInv, ServeEvent
  PROVE  FlowInv'
<1>1. /\ Tidy(queue)' /\ current = "none" /\ current' = ev'.p
      /\ \/ ev' = Rxd /\ UNCHANGED <<InFlight, ToTell>>
         \/ ev' \in Tells /\ ToTell = {ev'} /\ ToTell' = {} /\ UNCHANGED InFlight
         \/ InFlight = {ev'} /\ ToTell = {} /\ InFlight' = {} /\ ToTell' = {}
  BY Delivered DEF FlowInv
<1>2. UNCHANGED <<polled, upc, error, cmd, host, ring, fpc, chip_erase, worker, failed>>
  BY DEF ServeEvent, loader, pipeline, programmer, outside
<1>3. upc \in UartWaits
  BY <1>1 DEF FlowInv, Heard
<1>4. EraseDue' = EraseDue /\ InProcess(ring)' = InProcess(ring)
  BY <1>2 DEF EraseDue, InProcess
<1>5. CASE ev' \in {Rxd} \cup Tells /\ UNCHANGED InFlight
  <2>1. /\ current' = "uart" /\ ToTell' \subseteq ToTell
        /\ ev' \in Tells => ToTell' = {} /\ ToTell = {ev'}
        /\ ev' = Rxd => ToTell' = ToTell
    <3>1. Rxd \notin Tells /\ \A x \in {Rxd} \cup Tells : x.p = "uart" /\ x \notin Tokens
      BY EventsAre
    <3>2. ev' \notin InFlight
      BY <1>5, <3>1 DEF InFlight
    <3>3. QED
      BY <1>1, <1>5, <3>1, <3>2
  <2>2. OneAtATime' /\ (AllRest' <=> AllRest)
    <3>1. OneAtATime /\ InFlight' = InFlight /\ UNCHANGED <<polled, worker, fpc>>
      BY <1>2, <1>5 DEF FlowInv
    <3>2. QED
      BY <1>1, <2>1, <3>1, OneFrame
  <2>3. Heard'
    BY <1>2, <1>3, <1>5, <2>1, EventsAre, EventsStay DEF Heard, Rxd, Tells
  <2>4. /\ BlockJob' = BlockJob /\ ChipJob' = ChipJob /\ RegionJob' = RegionJob
    <3>1. \A w : Woken(w)' = Woken(w)
      BY <1>1, <1>5, <2>1 DEF Woken
    <3>2. QED
      BY <1>2, <3>1, EventsStay DEF BlockJob, ChipJob, RegionJob
  <2>5. /\ Tell("PROG_OK") # Rxd /\ Tell("PROG_ERR") # Rxd
        /\ Tell("PROG_OK") \in Tells /\ Tell("PROG_ERR") \in Tells
    BY EventsAre
  <2>6. OkTold' => OkTold
    BY <1>1, <1>2, <1>5, <2>1, <2>5, EventsStay DEF OkTold
  <2>7. JobsOK'
    BY <1>2, <1>4, <2>4, <2>6 DEF FlowInv, JobsOK
  <2>8. QuietOK'
    <3>1. Still => Still'
      BY <1>2, <1>4, <1>5, <2>1, <2>2, EventsStay DEF Still
    <3>2. QED
      BY <1>2, <1>4, <3>1 DEF FlowInv, QuietOK
  <2>9. ErrorsOK'
    <3>1. ErrorSomewhere' <=> ErrorSomewhere
      <4>1. Tell("PROG_ERR") \in ToTell <=> Tell("PROG_ERR") \in ToTell' \/ ev' = Tell("PROG_ERR")
        BY <1>5, <2>1, <2>5
      <4>2. QED
        BY <1>1, <1>2, <1>5, <2>1, <4>1, EventsStay DEF ErrorSomewhere
    <3>2. QED
      BY <1>2, <1>3, <3>1, EventsStay DEF FlowInv, ErrorsOK
  <2>10. QED
    BY <1>1, <2>2, <2>3, <2>7, <2>8, <2>9 DEF FlowInv
<1>6. CASE InFlight = {ev'} /\ ToTell = {} /\ InFlight' = {} /\ ToTell' = {}
  <2>1. \/ Asleep /\ ev' \in Wakes
        \/ Ordered /\ ev' = Order(Helper)
        \/ \E r \in {0, -1} : Answered(r) /\ ev' = Result(r)
    BY <1>1, <1>6 DEF FlowInv, OneAtATime, Asleep, Up, Ordered, AtWork, Answered
  <2>2. /\ ev' \in Wakes \cup Results => current' = "flash"
        /\ \A t \in Worker : ev' = Order(t) => current' = t
        /\ \A t \in Worker : t \notin {"none", "uart", "flash"}
        /\ Helper \in Worker /\ Helper' = Helper
    BY <1>1, <1>2, EventsAre DEF Helper, Worker
  <2>3. /\ current' # "uart"
        /\ (\A w : Woken(w)' => Woken(w))
        /\ OneAtATime'
    <3>1. CASE Asleep /\ ev' \in Wakes
      <4>1. current' = "flash" /\ fpc = "idle"
        BY <2>2, <3>1 DEF Asleep
      <4>2. AllRest'
        BY <1>2, <2>2, <3>1, <4>1 DEF Asleep, AllRest, Resting
      <4>3. Up'
        BY <1>2, <1>6, <3>1, <4>1, <4>2 DEF Up, Waits, Wakes, Rdy, Ask
      <4>4. \A w : Woken(w)' => Woken(w)
        BY <1>6 DEF Woken
      <4>5. QED
        BY <4>1, <4>3, <4>4 DEF OneAtATime
    <3>2. CASE Ordered /\ ev' = Order(Helper)
      <4>1. current' = Helper /\ Waiting /\ Resting(Helper)
        BY <2>2, <3>2 DEF Ordered
      <4>2. Waiting'
        BY <1>2, <2>2, <4>1 DEF Waiting, Resting
      <4>3. Handed'
        BY <1>2, <2>2, <3>2, <4>1 DEF Handed, Resting, Order
      <4>4. AtWork'
        BY <1>6, <4>2, <4>3 DEF AtWork
      <4>5. current' \notin {"uart", "flash"}
        BY <2>2, <4>1
      <4>6. \A w : Woken(w)' => Woken(w)
        BY <1>6, <4>5 DEF Woken
      <4>7. QED
        BY <4>4, <4>5, <4>6 DEF OneAtATime
    <3>3. CASE \E r \in {0, -1} : Answered(r) /\ ev' = Result(r)
      <4>1. ev' \in Results /\ Waiting /\ Resting(Helper)
        BY <3>3, EventsAre DEF Answered
      <4>2. current' = "flash" /\ fpc \in Waits
        BY <2>2, <4>1 DEF Waiting
      <4>3. AllRest'
        BY <1>2, <2>2, <4>1, <4>2 DEF Waiting, AllRest, Resting
      <4>4. Up'
        BY <1>2, <1>6, <4>1, <4>2, <4>3 DEF Up, Waits, Results, Result
      <4>5. \A w : Woken(w)' => Woken(w)
        BY <1>6 DEF Woken
      <4>6. QED
        BY <4>2, <4>4, <4>5 DEF OneAtATime
    <3>4. QED
      BY <2>1, <3>1, <3>2, <3>3
  <2>4. Heard'
    BY <1>2, <1>3, <2>3 DEF Heard
  <2>5. /\ BlockJob' => BlockJob
        /\ ChipJob' => ChipJob
        /\ RegionJob' => RegionJob
        /\ ~OkTold'
    BY <1>2, <1>6, <2>3, EventsStay DEF BlockJob, ChipJob, RegionJob, OkTold
  <2>6. JobsOK'
    BY <1>2, <1>4, <2>5 DEF FlowInv, JobsOK
  <2>7. QuietOK'
    <3>1. ~Still
      BY <1>6 DEF Still
    <3>2. QED
      BY <1>2, <1>4, <3>1 DEF FlowInv, QuietOK
  <2>8. ErrorsOK'
    <3>1. ErrorSomewhere' <=> error \/ ev' = Result(-1)
      <4>1. ErrorSomewhere' <=> error \/ (current' = "flash" /\ ev' = Result(-1) /\ fpc \in Waits)
        BY <1>2, <1>6, <2>3, EventsStay DEF ErrorSomewhere
      <4>2. ev' = Result(-1) => current' = "flash" /\ fpc \in Waits
        BY <2>1, <2>2, EventsAre DEF Answered, Waiting
      <4>3. QED
        BY <4>1, <4>2
    <3>2. ErrorSomewhere <=> error \/ ev' = Result(-1)
      <4>1. current = "none"
        BY <1>1
      <4>2. QED
        BY <1>6, <4>1 DEF ErrorSomewhere
    <3>3. QED
      BY <1>2, <2>3, <3>1, <3>2, EventsStay DEF FlowInv, ErrorsOK
  <2>9. QED
    BY <1>1, <2>3, <2>4, <2>6, <2>7, <2>8 DEF FlowInv
<1>7. QED
  BY <1>1, <1>5, <1>6 DEF Rxd

(* The kernel polls the worker that has asked for it.                       *)
LEMMA PollFlow ==
  ASSUME FlowInv, NEW p \in Worker, ServePoll(p)
  PROVE  FlowInv'
<1>1. /\ current = "none" /\ p \in polled /\ current' = p /\ polled' = polled \ {p}
      /\ UNCHANGED <<queue, upc, error, cmd, host, ring, fpc, chip_erase, worker, failed>>
      /\ p \notin {"none", "uart", "flash"}
  BY EventsAre DEF ServePoll, Polled, loader, pipeline, programmer, outside
<1>2. /\ p = Helper /\ Helper' = Helper /\ AtWork /\ Polling
  <2>1. ~AllRest /\ (Waiting => p = Helper) /\ ~Resting(p)
    BY <1>1 DEF AllRest, Waiting, Resting
  <2>2. AtWork
    BY <1>1, <2>1 DEF FlowInv, OneAtATime, Asleep, Up, Ordered, Answered
  <2>3. Polling
    BY <1>1, <2>1, <2>2 DEF AtWork, Handed
  <2>4. QED
    BY <1>1, <2>1, <2>2, <2>3 DEF AtWork, Helper
<1>3. Tidy(queue)' /\ InFlight' = {} /\ ToTell' = {} /\ InFlight = {} /\ ToTell = {}
  BY <1>1, <1>2 DEF FlowInv, Tidy, InFlight, ToTell, Contents, AtWork
<1>4. OneAtATime'
  <2>1. \A x \in Worker \ {Helper} : Resting(x)'
    BY <1>1, <1>2 DEF AtWork, Waiting, Resting
  <2>2. Waiting'
    BY <1>1, <1>2, <2>1 DEF AtWork, Waiting
  <2>3. Handed'
    BY <1>1, <1>2 DEF Handed, Polling
  <2>4. QED
    BY <1>3, <2>2, <2>3 DEF OneAtATime, AtWork
<1>5. Heard'
  BY <1>1 DEF FlowInv, Heard
<1>6. /\ BlockJob' = BlockJob /\ ChipJob' = ChipJob /\ RegionJob' = RegionJob /\ ~OkTold'
  <2>1. \A w : ~Woken(w)' /\ ~Woken(w)
    BY <1>1, <1>3 DEF Woken
  <2>2. QED
    BY <1>1, <1>3, <2>1 DEF BlockJob, ChipJob, RegionJob, OkTold
<1>7. JobsOK'
  BY <1>1, <1>6 DEF FlowInv, JobsOK, EraseDue, InProcess
<1>8. QuietOK'
  <2>1. ~Still
    BY <1>1, <1>2 DEF Still, AllRest, Resting, Polling
  <2>2. QED
    BY <1>1, <2>1 DEF FlowInv, QuietOK, InProcess
<1>9. ErrorsOK'
  <2>1. ErrorSomewhere' <=> ErrorSomewhere
    BY <1>1, <1>3 DEF ErrorSomewhere
  <2>2. QED
    BY <1>1, <2>1 DEF FlowInv, ErrorsOK
<1>10. QED
  BY <1>3, <1>4, <1>5, <1>7, <1>8, <1>9 DEF FlowInv

(* UART_RXD comes between, and nothing, changes nothing of it.              *)
LEMMA RxdFlow ==
  ASSUME Calm, FlowInv, RxInterrupt \/ UNCHANGED vars
  PROVE  FlowInv'
<1>1. UNCHANGED <<polled, current, ev, upc, error, cmd, ring, fpc, chip_erase, worker, failed>>
  BY DEF RxInterrupt, vars, kernel, loader, pipeline, programmer
<1>2. host' = host
  BY DEF RxInterrupt, vars, outside
<1>3. Tidy(queue)' /\ InFlight' = InFlight /\ ToTell' = ToTell
  <2>1. CASE RxInterrupt
    BY <2>1, RxdPosted DEF RxInterrupt, FlowInv
  <2>2. CASE UNCHANGED vars
    BY <2>2 DEF vars, kernel, FlowInv, Tidy, InFlight, ToTell, Contents
  <2>3. QED
    BY <2>1, <2>2
<1>4. UNCHANGED <<AllRest, Helper, OneAtATime, Still>>
  <2>1. UNCHANGED <<AllRest, Helper>>
    BY <1>1 DEF AllRest, Resting, Helper
  <2>2. UNCHANGED <<OneAtATime, Still>>
    BY <1>1, <1>3, <2>1 DEF OneAtATime, Asleep, Up, Ordered, AtWork, Answered, Handed, Polling, Waiting,
       Resting, Order, Result, Tell, Still, InProcess
  <2>3. QED
    BY <2>1, <2>2
<1>5. UNCHANGED <<BlockJob, ChipJob, RegionJob, OkTold, ErrorSomewhere>>
  BY <1>1, <1>3 DEF BlockJob, ChipJob, RegionJob, OkTold, ErrorSomewhere, Woken, Rdy, Ask, Tell, Result
<1>6. Heard' /\ JobsOK' /\ QuietOK' /\ ErrorsOK'
  BY <1>1, <1>2, <1>3, <1>4, <1>5 DEF FlowInv, Heard, JobsOK, QuietOK, ErrorsOK, EraseDue, InProcess, Tell
<1>7. QED
  BY <1>3, <1>4, <1>6 DEF FlowInv

(* No step of the program or of the host disturbs it.                       *)
LEMMA FlowKept ==
  ASSUME Calm, FlashInv, TalkInv, FlowInv, [Next]_vars
  PROVE  FlowInv'
<1>1. TalkInv'
  BY TalkKept
<1>2. CASE RxInterrupt \/ UNCHANGED vars
  BY <1>2, RxdFlow
<1>3. CASE \E p \in Worker : ServePoll(p)
  BY <1>3, PollFlow
<1>4. CASE ServeEvent
  BY <1>4, EventFlow
<1>5. CASE UartStep
  BY <1>1, <1>5, UartQuietFlow, CopyFlow, EraseFlow, ReplyFlow DEF UartStep
<1>6. CASE FlashStep
  BY <1>6, FlashFlow
<1>7. CASE WorkerStep
  BY <1>7, WorkerFlow
<1>8. CASE HostStep
  BY <1>8, HostFlow
<1>9. QED
  BY <1>2, <1>3, <1>4, <1>5, <1>6, <1>7, <1>8 DEF Next, MainStep

(* At first everything rests.                                               *)
LEMMA FlowAtFirst == Init => FlowInv
<1> SUFFICES ASSUME Init PROVE FlowInv
  OBVIOUS
<1>1. /\ queue = <<>> /\ polled = {} /\ current = "none" /\ upc = "rx" /\ error = FALSE
      /\ cmd = NoPacket /\ ring = EmptyRing /\ fpc = "idle" /\ failed = FALSE
      /\ \A t \in Worker : worker[t].pc = "idle"
      /\ host.phase = "none" /\ cmd.op = "none"
  BY DEF Init, NoPacket
<1>2. Contents(queue) = {} /\ Tidy(queue)
  BY <1>1, EmptySeq DEF Contents, Tidy
<1>3. InFlight = {} /\ ToTell = {}
  BY <1>2 DEF InFlight, ToTell
<1>4. AllRest
  BY <1>1, EventsAre DEF AllRest, Resting
<1>5. Asleep /\ Still /\ ~InProcess(ring)
  BY <1>1, <1>3, <1>4, RingProcess DEF Asleep, Still
<1>6. ~BlockJob /\ ~ChipJob /\ ~RegionJob /\ ~OkTold /\ ~ErrorSomewhere
  BY <1>1, <1>3 DEF BlockJob, ChipJob, RegionJob, OkTold, ErrorSomewhere, Woken
<1>7. QED
  BY <1>1, <1>2, <1>5, <1>6 DEF FlowInv, OneAtATime, Heard, UartWaits, JobsOK, QuietOK, ErrorsOK

(* The queue is tidy and the pipeline goes on, always.                      *)
LEMMA FlowAlways ==
  ASSUME Calm
  PROVE  Spec => [](FlashInv /\ TalkInv /\ FlowInv)
<1>1. Init => TalkInv /\ FlowInv
  BY TalkAtFirst, FlowAtFirst
<1>2. FlashInv /\ TalkInv /\ FlowInv /\ [Next]_vars => TalkInv' /\ FlowInv'
  BY TalkKept, FlowKept
<1>3. QED
  BY <1>1, <1>2, FlashInvHolds, PTL DEF Spec

(* As long as the host stops at an error, the event queue is never full:    *)
(* what is in it besides UART_RXD is at most one event for                  *)
(* uart_boot_process and one that drives the programming, and UART_RXD is   *)
(* posted only while the queue is less than half full.                      *)
THEOREM FlashQueueNeverFull ==
  ASSUME Calm
  PROVE  Spec => []QueueNeverFull
<1>1. FlashInv /\ TalkInv /\ FlowInv => QueueNeverFull
  BY TidyShort DEF FlowInv, QueueNeverFull
<1>2. QED
  BY <1>1, FlowAlways, PTL

(* An event that tells of an error is in the queue, as the property has it. *)
LEMMA QueuedIs ==
  ASSUME Tidy(queue)
  PROVE  /\ Tell("PROG_ERR") \in ToTell => Queued("uart", "PROG_ERR")
         /\ Result(-1) \in InFlight =>
              \E i \in 1 .. Len(queue) : queue[i].p = "flash" /\ queue[i].data = -1
  BY DEF ToTell, InFlight, Contents, Queued, Tell, Result

(* An error that has been seen is told: it is in the worker's result, in    *)
(* PROG_ERR or in the error flag until the reply takes it to the host.      *)
THEOREM FlashErrorOnItsWay ==
  ASSUME Calm
  PROVE  Spec => []ErrorOnItsWay
<1>1. FlowInv => ErrorOnItsWay
  <2>1. Tell("PROG_ERR").ev = "PROG_ERR" /\ Result(-1).data = -1
    BY DEF Tell, Result
  <2>2. QED
    BY <2>1, QueuedIs DEF FlowInv, ErrorsOK, ErrorSomewhere, ErrorOnItsWay
<1>2. QED
  BY <1>1, FlowAlways, PTL

(* The host is told of an error only when a flash operation has failed, or  *)
(* when it has sent a packet twice.                                         *)
THEOREM FlashOnlyRealErrors ==
  ASSUME Calm
  PROVE  Spec => []OnlyRealErrors
<1>1. FlowInv => OnlyRealErrors
  BY DEF FlowInv, ErrorsOK, OnlyRealErrors
<1>2. QED
  BY <1>1, FlowAlways, PTL
-----------------------------------------------------------------------------
(* Where the blocks are, and where the workers work.                        *)

ImageOf(gen) == [i \in Nat |-> Unit(gen, i)]

(* The image that is being programmed.                                      *)
Imaging ==
  \/ host.phase \in {"data", "resend", "done"}
  \/ host.phase = "begin" /\ cmd # NoPacket
  \/ host.phase = "stopped" /\ InProcess(ring)

(* The ring holds what has been taken, from block m on; cnt is behind m by  *)
(* the blocks that have failed.                                             *)
InRing(m) ==
  /\ flash_prog.cnt <= m /\ (~failed => m = flash_prog.cnt)
  /\ Lined(ring, Taken - m * LOAD_BLK_SIZE, Taken = host.size)
  /\ Holds(ring, buf, ImageOf(host.gen), m * LOAD_BLK_SIZE)

BlockOps ==
  [addr |-> flash_prog.offset + LOAD_BLK_SIZE * flash_prog.cnt,
   size |-> ring.ctrl[ring.head].size,
   buf  |-> ring.ctrl[ring.head].buf_idx]

ImageInv ==
  /\ flash_prog.offset = host.offset /\ flash_prog.total = host.size
  /\ flash_prog.cnt \in Nat /\ Taken \in 0 .. host.size
  /\ \E m \in Nat : InRing(m)
  /\ fpc \in {"sector_wait", "program_wait"} => flash_ops = BlockOps

(* The region that is being erased; cnt is what is left of it.              *)
RegionInv ==
  /\ flash_prog.offset = host.offset /\ flash_prog.total = host.size
  /\ flash_prog.erase_size \in Nat
  /\ fpc = "idle" =>
       flash_prog.erase_size = 0 /\ flash_prog.cnt = flash_prog.total /\ flash_prog.total > 0
  /\ fpc = "region" =>
       /\ flash_prog.erase_size < flash_prog.total
       /\ flash_prog.cnt = flash_prog.total - flash_prog.erase_size
       /\ flash_ops.addr = flash_prog.offset + flash_prog.erase_size
  /\ fpc = "region_wait" =>
       flash_ops.addr \in flash_prog.offset .. flash_prog.offset + flash_prog.total - 1
  /\ fpc = "region_done" => flash_prog.total <= flash_prog.erase_size

(* The workers work where they have been told to.                           *)
ErasePlace ==
  worker["erase"].pc # "idle" /\ fpc \in {"sector_wait", "region_wait"} =>
    worker["erase"].addr = flash_ops.addr /\ worker["erase"].addr % LOAD_BLK_SIZE = 0
ProgramPlace ==
  worker["program"].pc # "idle" =>
    /\ worker["program"].buf = flash_ops.buf
    /\ worker["program"].addr = flash_ops.addr + worker["program"].pos
    /\ worker["program"].pos + worker["program"].remain = flash_ops.size
    /\ worker["program"].remain > 0

(* What the host names is in the flash.                                     *)
InFlash == host.offset + host.size <= FlashSize

PlaceInv ==
  /\ InFlash
  /\ Imaging => ImageInv
  /\ RegionJob => RegionInv
  /\ ErasePlace /\ ProgramPlace

-----------------------------------------------------------------------------
(* What is in the flash, as long as no operation has failed.                *)

(* The device is where the worker believes it to be.                        *)
InTune ==
  /\ \A t \in Worker :
       /\ worker[t].pc \in {"read_latch", "latch_wait", "command", "read_chip", "chip_wait"} =>
            dev = "latched"
       /\ worker[t].pc \in {"read_busy", "busy_wait"} => dev = "busy"
       /\ worker[t].pc = "wren" => dev = "ready"
  /\ (\A t \in Worker : worker[t].pc = "idle") => dev = "ready"

(* The worker's answer is there; a worker has given its command.            *)
Replied == current = "flash" \/ Result(0) \in InFlight
Commanded(t) ==
  \/ worker[t].pc \in {"read_busy", "busy_wait"}
  \/ worker[t].pc = "idle" /\ Replied

(* How much of the block has been programmed.                               *)
Progress ==
  IF fpc # "program_wait" THEN 0
  ELSE IF worker["program"].pc = "idle"
         THEN IF Replied THEN flash_ops.size ELSE 0
         ELSE IF Commanded("program") THEN worker["program"].pos + 1 ELSE worker["program"].pos

Done == flash_prog.cnt * LOAD_BLK_SIZE + Progress

Fresh(from, to) == \A x \in Addr : from <= x /\ x < to => flash[x] = Blank

(* The image is on the flash as far as it has been programmed; from there   *)
(* to the end of the k sectors that have been erased it is blank.           *)
OnFlash(k) ==
  /\ flash_prog.erase_size = k * LOAD_BLK_SIZE
  /\ flash_prog.cnt <= k
  /\ fpc = "program_wait" => flash_prog.cnt < k
  /\ fpc = "sector_wait" => (Commanded("erase") <=> flash_prog.cnt < k)
  /\ \A i \in 0 .. host.size - 1 : i < Done => flash[host.offset + i] = Unit(host.gen, i)
  /\ Fresh(host.offset + Done, host.offset + flash_prog.erase_size)

RegionWiped ==
  /\ Fresh(host.offset, host.offset + flash_prog.erase_size)
  /\ fpc = "region_wait" /\ ~Commanded("erase") =>
       flash_ops.addr = flash_prog.offset + flash_prog.erase_size

(* The erasure of a region is over.                                         *)
RegionOver ==
  \/ host.phase = "erased"
  \/ host.phase = "erasing" /\ cmd # NoPacket /\ ~cmd.chip /\ (OkTold \/ (upc = "reply" /\ ~error))

CellsInv ==
  /\ InTune
  /\ host.phase # "none" => host.gen > 0
  /\ \A a \in Addr : flash[a] # Garbage
  /\ Imaging => \E k \in Nat : OnFlash(k)
  /\ RegionJob => RegionWiped
  /\ RegionOver => Fresh(host.offset, host.offset + host.size)

(* What the programming process and the workers are at, by the host's phase. *)
LEMMA PhaseIs ==
  ASSUME FlashInv, FlowInv
  PROVE  /\ InProcess(ring) => Imaging
         /\ RegionJob => ~Imaging /\ ~InProcess(ring) /\ host.phase \in {"erasing", "stopped"}
         /\ RegionOver => ~RegionJob /\ ~InProcess(ring)
<1>1. host.phase \in Phase
  BY DEF FlashInv, HostOK
<1>2. JobsOK /\ QuietOK
  BY DEF FlowInv
<1>3. InProcess(ring) => Imaging
  BY <1>1, <1>2 DEF Phase, JobsOK, QuietOK, Still, Imaging
<1>4. RegionJob => ~Imaging /\ ~InProcess(ring) /\ host.phase \in {"erasing", "stopped"}
  BY <1>2 DEF JobsOK, Imaging
<1>5. Still => ~RegionJob
  BY DEF Still, RegionJob, Woken
<1>6. RegionOver => ~RegionJob /\ ~InProcess(ring)
  BY <1>2, <1>4, <1>5 DEF JobsOK, QuietOK, Still, RegionOver
<1>7. QED
  BY <1>3, <1>4, <1>6

(* The helper at work: the programming process waits for it.                *)
LEMMA HelperIs ==
  ASSUME FlashInv, FlowInv, NEW t \in Worker, current = t
  PROVE  /\ t = Helper /\ fpc \in Waits /\ InFlight = {} /\ ToTell = {} /\ ~Replied
         /\ \A x \in Worker \ {t} : worker[x].pc = "idle"
         /\ t \notin polled
         /\ worker[t].pc = "idle" => ev = Order(t)
         /\ t = "program" <=> fpc = "program_wait"
         /\ t = "erase" <=> fpc \in {"chip_wait", "region_wait", "sector_wait"}
         /\ BlockJob \/ RegionJob \/ ChipJob
         /\ fpc \in {"sector_wait", "program_wait"} => InProcess(ring) /\ Imaging
         /\ fpc = "region_wait" => RegionJob
         /\ fpc = "chip_wait" <=> t = "erase" /\ chip_erase
<1>1. t \notin {"none", "uart", "flash"} /\ t \in {"erase", "program"}
  BY DEF Worker
<1>2. ~Resting(t)
  BY DEF Resting
<1>3. AtWork /\ t = Helper /\ Handed
  BY <1>1, <1>2 DEF FlowInv, OneAtATime, Asleep, Up, Ordered, AtWork, Answered, AllRest, Waiting,
     Polling
<1>4. /\ fpc \in Waits /\ InFlight = {} /\ ToTell = {} /\ ~Replied
      /\ \A x \in Worker \ {t} : worker[x].pc = "idle"
      /\ t \notin polled /\ (worker[t].pc = "idle" => ev = Order(t))
  BY <1>1, <1>3 DEF AtWork, Waiting, Handed, Resting, Replied
<1>5. /\ t = "program" <=> fpc = "program_wait"
      /\ t = "erase" <=> fpc \in {"chip_wait", "region_wait", "sector_wait"}
  BY <1>1, <1>3, <1>4 DEF Helper, Waits
<1>6. /\ BlockJob \/ RegionJob \/ ChipJob
      /\ fpc \in {"sector_wait", "program_wait"} => BlockJob
      /\ fpc = "region_wait" => RegionJob
  BY <1>4 DEF Waits, BlockJob, RegionJob, ChipJob
<1>7. /\ fpc \in {"sector_wait", "program_wait"} => InProcess(ring) /\ Imaging
      /\ fpc = "chip_wait" <=> t = "erase" /\ chip_erase
  BY <1>4, <1>5, <1>6, PhaseIs DEF FlowInv, JobsOK, Waits
<1>8. QED
  BY <1>3, <1>4, <1>5, <1>6, <1>7

(* Nobody moves the blocks, the erasure or the workers.                     *)
LEMMA PlaceFrame ==
  ASSUME PlaceInv, UNCHANGED <<flash_prog, ring, buf, fpc, flash_ops, worker>>,
         host'.offset = host.offset, host'.size = host.size, host'.gen = host.gen,
         failed => failed', Imaging' => Imaging /\ Taken' = Taken,
         RegionJob' => RegionJob
  PROVE  PlaceInv'
<1>1. ErasePlace' /\ ProgramPlace'
  BY DEF PlaceInv, ErasePlace, ProgramPlace
<1>2. ASSUME Imaging' PROVE ImageInv'
  <2>1. ImageInv /\ Taken' = Taken
    BY <1>2 DEF PlaceInv
  <2>2. \A m : InRing(m) => InRing(m)'
    BY <2>1 DEF InRing
  <2>3. BlockOps' = BlockOps
    BY DEF BlockOps
  <2>4. QED
    BY <2>1, <2>2, <2>3 DEF ImageInv
<1>3. ASSUME RegionJob' PROVE RegionInv'
  BY <1>3 DEF PlaceInv, RegionInv
<1>4. InFlash'
  BY DEF PlaceInv, InFlash
<1>5. QED
  BY <1>1, <1>2, <1>3, <1>4 DEF PlaceInv

(* Nobody touches the flash, or what is known of it.                        *)
LEMMA CellsFrame ==
  ASSUME CellsInv, UNCHANGED <<flash_prog, fpc, flash_ops, worker, dev, flash>>,
         fpc \in Waits => (Replied' <=> Replied),
         host'.offset = host.offset, host'.size = host.size, host'.gen = host.gen,
         host'.phase # "none" => host.phase # "none",
         Imaging' => Imaging, RegionJob' => RegionJob, RegionOver' => RegionOver
  PROVE  CellsInv'
<1>1. InTune'
  BY DEF CellsInv, InTune
<1>2. Progress' = Progress /\ Done' = Done
  BY DEF Progress, Done, Commanded, Waits
<1>3. fpc \in {"sector_wait", "region_wait"} => Commanded("erase")' = Commanded("erase")
  BY DEF Commanded, Waits
<1>4. \A a, b : Fresh(a, b)' = Fresh(a, b)
  BY DEF Fresh
<1>5. \A k \in Nat : OnFlash(k) => OnFlash(k)'
  BY <1>2, <1>3, <1>4 DEF OnFlash
<1>6. RegionWiped => RegionWiped'
  BY <1>3, <1>4 DEF RegionWiped
<1>7. QED
  BY <1>1, <1>4, <1>5, <1>6 DEF CellsInv

(* Where the blocks are, always; what is in the flash, until an operation   *)
(* fails.                                                                   *)
Kept == PlaceInv /\ (~failed => CellsInv)

(* Nothing of either changes.                                               *)
LEMMA KeptFrame ==
  ASSUME Kept, UNCHANGED <<flash_prog, ring, buf, fpc, flash_ops, worker, dev, flash, failed>>,
         ~failed /\ fpc \in Waits => (Replied' <=> Replied),
         host'.offset = host.offset, host'.size = host.size, host'.gen = host.gen,
         host'.phase # "none" => host.phase # "none",
         Imaging' => Imaging /\ Taken' = Taken, RegionJob' => RegionJob, RegionOver' => RegionOver
  PROVE  Kept'
<1>1. PlaceInv'
  BY PlaceFrame DEF Kept
<1>2. ~failed /\ CellsInv => CellsInv'
  BY CellsFrame
<1>3. QED
  BY <1>1, <1>2 DEF Kept

(* The kernel only passes events on.                                        *)
LEMMA KernelKept ==
  ASSUME Calm, FlowInv, Kept,
         \/ \E p \in Worker : ServePoll(p)
         \/ ServeEvent \/ RxInterrupt \/ UNCHANGED vars
  PROVE  Kept'
<1>1. /\ UNCHANGED <<flash_prog, ring, buf, fpc, flash_ops, worker, dev, flash, failed>>
      /\ UNCHANGED <<host, cmd, mem, upc, error>>
  BY DEF ServePoll, ServeEvent, RxInterrupt, vars, loader, pipeline, programmer, device, outside
<1>2. /\ Imaging' = Imaging /\ Taken' = Taken
  BY <1>1 DEF Imaging, Taken, Ending, InProcess
<1>3. /\ ~failed /\ fpc \in Waits => (Replied' <=> Replied)
      /\ RegionJob' => RegionJob
      /\ OkTold' => OkTold
  <2>1. CASE \E p \in Worker : ServePoll(p)
    <3>1. current = "none" /\ current' \in Worker /\ queue' = queue
      BY <2>1 DEF ServePoll
    <3>2. current' \notin {"uart", "flash"} /\ InFlight' = InFlight /\ ToTell' = ToTell
      BY <3>1 DEF Worker, InFlight, ToTell, Contents
    <3>3. QED
      BY <1>1, <3>1, <3>2, EventsStay DEF Replied, RegionJob, OkTold, Woken
  <2>2. CASE ServeEvent
    <3>1. /\ current = "none" /\ current' = ev'.p
          /\ \/ ev' = Rxd /\ UNCHANGED <<InFlight, ToTell>>
             \/ ev' \in Tells /\ ToTell = {ev'} /\ ToTell' = {} /\ UNCHANGED InFlight
             \/ InFlight = {ev'} /\ ToTell = {} /\ InFlight' = {} /\ ToTell' = {}
      BY <2>2, Delivered DEF FlowInv
    <3>2. ev' \in {Rxd} \cup Tells => /\ current' = "uart" /\ ev' \notin Tokens
                                      /\ Tell("PROG_OK") \in Tells /\ Rxd \notin Tells
      BY <3>1, EventsAre
    <3>3. CASE ev' \in {Rxd} \cup Tells
      <4>1. InFlight' = InFlight /\ current' = "uart" /\ ToTell' \subseteq ToTell
        BY <3>1, <3>2, <3>3 DEF InFlight
      <4>2. OkTold' => OkTold
        BY <1>1, <3>1, <3>2, <3>3, <4>1, EventsStay DEF OkTold
      <4>3. QED
        BY <1>1, <3>1, <4>1, <4>2, EventsStay DEF Replied, RegionJob, Woken
    <3>4. CASE InFlight = {ev'} /\ ToTell = {} /\ InFlight' = {} /\ ToTell' = {}
      <4>1. ev' \in Tokens
        BY <3>4 DEF InFlight
      <4>2. current' # "uart"
        BY <3>1, <4>1, EventsAre DEF Tokens, Orders
      <4>3. RegionJob' => RegionJob
        BY <1>1, <3>4, EventsStay DEF RegionJob, Woken
      <4>4. OkTold' => OkTold
        BY <3>4, <4>2 DEF OkTold
      <4>5. ~failed /\ fpc \in Waits => (Replied' <=> Replied)
        <5>1. SUFFICES ASSUME ~failed, fpc \in Waits PROVE (Replied' <=> Replied)
          OBVIOUS
        <5>2. \/ Ordered /\ ev' = Order(Helper)
              \/ \E r \in {0, -1} : Answered(r) /\ ev' = Result(r)
          BY <3>1, <3>4, <5>1
          DEF FlowInv, OneAtATime, Asleep, Up, Ordered, AtWork, Answered, Waits
        <5>3. CASE Ordered /\ ev' = Order(Helper)
          <6>1. Helper \in Worker /\ current' # "flash" /\ current # "flash"
            BY <3>1, <5>3, EventsAre DEF Helper, Worker
          <6>2. Order(Helper) \notin Results /\ Result(0) \in Results
            BY <6>1, EventsAre
          <6>3. ~Replied /\ ~Replied'
            BY <3>4, <5>3, <6>1, <6>2 DEF Replied
          <6>4. QED
            BY <6>3
        <5>4. CASE \E r \in {0, -1} : Answered(r) /\ ev' = Result(r)
          <6>1. Result(-1) \notin InFlight
            BY <5>1 DEF FlowInv, ErrorsOK, ErrorSomewhere
          <6>2. ev' = Result(0) /\ Result(0) \in InFlight
            BY <3>4, <5>4, <6>1
          <6>3. current' = "flash"
            BY <3>1, <6>2 DEF Result
          <6>4. Replied /\ Replied'
            BY <6>2, <6>3 DEF Replied
          <6>5. QED
            BY <6>4
        <5>5. QED
          BY <5>2, <5>3, <5>4
      <4>6. QED
        BY <4>3, <4>4, <4>5
    <3>5. QED
      BY <3>1, <3>3, <3>4
  <2>3. CASE RxInterrupt \/ UNCHANGED vars
    <3>1. InFlight' = InFlight /\ ToTell' = ToTell /\ UNCHANGED <<current, ev>>
      <4>1. CASE RxInterrupt
        BY <4>1, RxdPosted DEF FlowInv, RxInterrupt
      <4>2. CASE UNCHANGED vars
        BY <4>2 DEF vars, kernel, InFlight, ToTell, Contents
      <4>3. QED
        BY <2>3, <4>1, <4>2
    <3>2. QED
      BY <1>1, <3>1, EventsStay DEF Replied, RegionJob, OkTold, Woken
  <2>4. QED
    BY <2>1, <2>2, <2>3
<1>4. RegionOver' => RegionOver
  BY <1>1, <1>3 DEF RegionOver
<1>5. QED
  BY <1>1, <1>2, <1>3, <1>4, KeptFrame

(* The host sends what it has asked for, or asks for something new when the *)
(* pipeline is still.                                                       *)
LEMMA HostKept ==
  ASSUME Calm, FlashInv, TalkInv, FlowInv, FlowInv', Kept, HostStep
  PROVE  Kept'
<1>1. /\ host \in [phase : Phase, gen : Nat, offset : Nat, size : Nat, sent : Nat,
                   seq : Nat, last : {NoPacket} \cup DataPacket, resends : Nat]
  BY DEF FlashInv, HostOK
<1>2. ASSUME NEW c, Send(c)
      PROVE  /\ UNCHANGED <<flash_prog, ring, buf, fpc, flash_ops, worker, dev, flash, failed>>
             /\ UNCHANGED <<cmd, mem, upc, error>> /\ cmd = NoPacket
             /\ (Replied' <=> Replied) /\ RegionJob' = RegionJob /\ OkTold' = OkTold
  <2>1. /\ UNCHANGED <<flash_prog, ring, buf, fpc, flash_ops, worker, dev, flash, failed>>
        /\ UNCHANGED <<cmd, mem, upc, error, queue, current, ev>>
    BY <1>2 DEF Send, kernel, loader, pipeline, programmer, device
  <2>2. cmd = NoPacket
    BY <1>2, SentIs
  <2>3. InFlight' = InFlight /\ ToTell' = ToTell
    BY <2>1 DEF InFlight, ToTell, Contents
  <2>4. (Replied' <=> Replied) /\ RegionJob' = RegionJob /\ OkTold' = OkTold
    BY <2>1, <2>3, EventsStay DEF Replied, RegionJob, OkTold, Woken
  <2>5. QED
    BY <2>1, <2>2, <2>4
<1>3. ASSUME NEW c, Send(c), host'.phase \in {"begin", "erasing"}, host'.gen > 0, InFlash'
      PROVE  Kept'
  <2>1. /\ UNCHANGED <<fpc, flash_ops, worker, dev, flash, failed>> /\ cmd' = NoPacket
    BY <1>2, <1>3
  <2>2. Still' /\ ~Imaging' /\ ~RegionOver'
    BY <1>3, <2>1 DEF FlowInv, QuietOK, Imaging, RegionOver
  <2>3. ~RegionJob'
    BY <2>2 DEF Still, RegionJob, Woken
  <2>4. PlaceInv'
    <3>1. ErasePlace' /\ ProgramPlace'
      BY <2>1 DEF Kept, PlaceInv, ErasePlace, ProgramPlace
    <3>2. QED
      BY <1>3, <2>2, <2>3, <3>1 DEF PlaceInv
  <2>5. CellsInv => CellsInv'
    <3>1. InTune => InTune'
      BY <2>1 DEF InTune
    <3>2. QED
      BY <1>3, <2>1, <2>2, <2>3, <3>1 DEF CellsInv
  <2>6. QED
    BY <2>1, <2>4, <2>5 DEF Kept
<1>4. ASSUME NEW c, Send(c), host.phase \in {"data", "resend"}, host'.phase = "data",
             host'.offset = host.offset, host'.size = host.size, host'.gen = host.gen
      PROVE  Kept'
  <2>1. /\ UNCHANGED <<flash_prog, ring, buf, fpc, flash_ops, worker, dev, flash, failed>>
        /\ UNCHANGED <<cmd, mem, upc, error>> /\ cmd = NoPacket
        /\ (Replied' <=> Replied) /\ RegionJob' = RegionJob /\ OkTold' = OkTold
    BY <1>2, <1>4
  <2>2. Imaging /\ Taken' = Taken
    BY <1>4, <2>1 DEF Imaging, Taken, Ending
  <2>3. ~RegionOver'
    BY <1>4 DEF RegionOver
  <2>4. QED
    BY <1>4, <2>1, <2>2, <2>3, KeptFrame
<1>5. ASSUME NEW r \in Images, SendBegin(r) PROVE Kept'
  <2>1. Send([op |-> "BEGIN", offset |-> r.offset, size |-> r.size])
        /\ host'.phase = "begin" /\ host'.gen > 0 /\ InFlash'
    BY <1>1, <1>5, FlashAssumption DEF SendBegin, InFlash
  <2>2. QED
    BY <1>3, <2>1
<1>6. ASSUME NEW r \in Regions, SendErase(r) PROVE Kept'
  <2>1. Send([op |-> "ERASE", chip |-> FALSE, offset |-> r.offset, size |-> r.size])
        /\ host'.phase = "erasing" /\ host'.gen > 0 /\ InFlash'
    BY <1>1, <1>6, FlashAssumption DEF SendErase, InFlash
  <2>2. QED
    BY <1>3, <2>1
<1>7. CASE SendChipErase
  <2>1. Send([op |-> "ERASE", chip |-> TRUE]) /\ host'.phase = "erasing" /\ host'.gen > 0 /\ InFlash'
    BY <1>1, <1>7 DEF SendChipErase, Kept, PlaceInv, InFlash
  <2>2. QED
    BY <1>3, <2>1
<1>8. ASSUME NEW len \in Packets, SendData(len) PROVE Kept'
  <2>1. /\ host.phase = "data" /\ host' = host
        /\ Send([op |-> "DATA", seq |-> host.seq,
                 units |-> [i \in 1 .. len |-> Unit(host.gen, host.sent + i - 1)]])
    BY <1>8 DEF SendData
  <2>2. QED
    BY <1>4, <2>1
<1>9. CASE SendAgain
  <2>1. /\ host.phase = "resend" /\ Send(host.last) /\ host'.phase = "data"
        /\ host'.offset = host.offset /\ host'.size = host.size /\ host'.gen = host.gen
    BY <1>1, <1>9 DEF SendAgain
  <2>2. QED
    BY <1>4, <2>1
<1>10. CASE SendEnd
  <2>1. host.phase = "data" /\ host' = host /\ Send([op |-> "END"])
    BY <1>10 DEF SendEnd
  <2>2. QED
    BY <1>4, <2>1
<1>11. QED
  BY <1>5, <1>6, <1>7, <1>8, <1>9, <1>10 DEF HostStep

(* uart_boot_process, where it leaves ring and image alone.                 *)
LEMMA UartKept ==
  ASSUME FlashInv, TalkInv, TalkInv', FlowInv, Kept,
         \/ RxOther \/ FlashData \/ FlashEnd \/ CopyTest \/ EndTest \/ EraseResume \/ Reply
         \/ LoopAgain("copy_wait", "copy") \/ LoopAgain("end_wait", "end")
  PROVE  Kept'
<1> USE DEF UartUnchanged, Uart
<1>1. ASSUME current = "uart", current' \in {"uart", "none"},
             UNCHANGED <<queue, ev, pipeline, programmer, worker, device, failed>>
      PROVE  /\ UNCHANGED <<flash_prog, ring, buf, fpc, flash_ops, worker, dev, flash, failed>>
             /\ (Replied' <=> Replied) /\ (RegionJob' <=> RegionJob) /\ ToTell' = ToTell
             /\ InProcess(ring)' = InProcess(ring)
  <2>1. UNCHANGED <<flash_prog, ring, buf, fpc, flash_ops, worker, dev, flash, failed>>
    BY <1>1 DEF pipeline, programmer, device
  <2>2. InFlight' = InFlight /\ ToTell' = ToTell
    BY <1>1 DEF InFlight, ToTell, Contents
  <2>3. QED
    BY <1>1, <2>1, <2>2, EventsStay DEF Replied, RegionJob, Woken, InProcess
<1>2. ASSUME current = "uart", current' \in {"uart", "none"}, UNCHANGED <<cmd, mem, host>>,
             UNCHANGED <<queue, ev, pipeline, programmer, worker, device, failed>>,
             host.phase = "erasing" /\ cmd # NoPacket =>
               /\ upc' = "erase_wait" => upc = "erase_wait"
               /\ upc' = "reply" /\ ~error' => OkTold \/ (upc = "reply" /\ ~error)
      PROVE  Kept'
  <2>1. Imaging' = Imaging /\ Taken' = Taken
    BY <1>1, <1>2 DEF Imaging, Taken, Ending
  <2>2. RegionOver' => RegionOver
    <3>1. host.phase = "erasing" /\ cmd # NoPacket /\ OkTold' => OkTold
      BY <1>1, <1>2, EventsStay DEF OkTold
    <3>2. QED
      BY <1>2, <3>1 DEF RegionOver
  <2>3. QED
    BY <1>1, <1>2, <2>1, <2>2, KeptFrame
<1>3. CASE RxOther
  <2>1. cmd = NoPacket
    BY <1>3 DEF RxOther, TalkInv, InTurn
  <2>2. QED
    BY <1>2, <1>3, <2>1 DEF RxOther, Yield
<1>4. CASE CopyTest \/ EndTest \/ LoopAgain("copy_wait", "copy") \/ LoopAgain("end_wait", "end")
  <2>1. /\ upc \in {"copy", "copy_wait", "end", "end_wait"}
        /\ current = "uart" /\ current' \in {"uart", "none"} /\ UNCHANGED <<cmd, mem, host>>
        /\ UNCHANGED <<queue, ev, pipeline, programmer, worker, device, failed>>
    BY <1>4 DEF CopyTest, EndTest, LoopAgain, Run, Yield
  <2>2. host.phase = "data"
    BY <2>1, CopyingIs, EndingIs
  <2>3. QED
    BY <1>2, <2>1, <2>2
<1>5. CASE EraseResume
  <2>1. /\ upc = "erase_wait" /\ upc' \in {"erase_wait", "reply"} /\ error' = ErrorSeen
        /\ current = "uart" /\ current' \in {"uart", "none"} /\ UNCHANGED <<cmd, mem, host>>
        /\ UNCHANGED <<queue, ev, pipeline, programmer, worker, device, failed>>
        /\ upc' = "reply" => EraseOver
    BY <1>5 DEF EraseResume, Run, Yield
  <2>2. upc' = "reply" /\ ~error' => OkTold
    BY <2>1, ErrorSeenIs DEF FlowInv, OkTold
  <2>3. QED
    BY <1>2, <2>1, <2>2
<1>6. CASE FlashData \/ FlashEnd
  <2>1. PICK op \in {"DATA", "END"} : Receive(op) /\ (op = "END" => FlashEnd) /\ (op = "DATA" => FlashData)
    BY <1>6 DEF FlashData, FlashEnd
  <2>2. /\ current = "uart" /\ current' = "uart" /\ host' = host /\ cmd = NoPacket
        /\ UNCHANGED <<queue, ev, pipeline, programmer, worker, device, failed>>
        /\ host.phase = "data"
    <3>1. /\ current = "uart" /\ UNCHANGED <<programmer, worker, device, failed, host>>
          /\ packet.op = op /\ Asked(packet) /\ cmd = NoPacket
      BY <2>1, ReceivedIs
    <3>2. UNCHANGED <<queue, ev, pipeline, current>>
      BY <1>6 DEF FlashData, FlashEnd, Run
    <3>3. QED
      BY <2>1, <3>1, <3>2, AskedIs
  <2>3. Imaging /\ ~RegionOver'
    BY <2>2 DEF Imaging, RegionOver
  <2>4. Taken' = Taken
    <3>1. mem \in [remaining : Nat, seq : Nat \cup {-1}, mode : BOOLEAN, cpy : Seq(Nat)]
      BY DEF FlashInv, LoaderOK
    <3>2. CASE op = "DATA"
      <4>1. mem'.remaining = mem.remaining /\ cmd'.op = "DATA" /\ cmd.op # "END"
        BY <2>1, <2>2, <3>1, <3>2 DEF FlashData, Receive, NoPacket
      <4>2. QED
        BY <2>2, <4>1 DEF Taken, Ending
    <3>3. CASE op = "END"
      <4>1. packet = EndCmd /\ cmd' = EndCmd /\ Unsent = 0 /\ cmd.op # "END"
        BY <2>1, <2>2, <3>3, ReceivedIs, AskedIs DEF NoPacket
      <4>2. Taken' = host.size
        BY <2>2, <4>1 DEF Taken, Ending, EndCmd
      <4>3. packet.op = "END" /\ Followed
        BY <2>2, <4>1 DEF EndCmd, Followed, TalkInv, InTurn
      <4>4. Taken = host.sent
        BY <4>3 DEF TalkInv, InStep, NotYet
      <4>5. host.size \in Nat /\ host.sent \in Nat
        BY DEF FlashInv, HostOK
      <4>6. QED
        BY <4>1, <4>2, <4>4, <4>5 DEF Unsent
    <3>4. QED
      BY <3>2, <3>3
  <2>5. QED
    BY <1>1, <2>2, <2>3, <2>4, KeptFrame
<1>7. CASE Reply
  <2>1. /\ current = "uart" /\ current' = "none" /\ upc = "reply" /\ cmd' = NoPacket /\ upc' = "rx"
        /\ UNCHANGED <<queue, ev, mem, pipeline, programmer, worker, device, failed>>
    BY <1>7 DEF Reply, Yield
  <2>2. /\ cmd # NoPacket /\ Asked(cmd) /\ cmd.op \in {"BEGIN", "DATA", "END", "ERASE"}
    BY <2>1, AskedIs DEF TalkInv, InTurn
  <2>3. /\ cmd.op = "BEGIN" <=> host.phase = "begin"
        /\ cmd.op = "ERASE" <=> host.phase = "erasing"
        /\ host.phase \in {"begin", "data", "erasing"}
    BY <2>2, AskedIs
  <2>4. /\ host'.offset = host.offset /\ host'.size = host.size /\ host'.gen = host.gen
        /\ \/ host'.phase = "stopped"
           \/ /\ res = "OK" /\ ~error
              /\ host'.phase = CASE cmd.op = "BEGIN" -> "data"
                                 [] cmd.op = "DATA"  -> "data"
                                 [] cmd.op = "END"   -> "done"
                                 [] cmd.op = "ERASE" -> IF cmd.chip THEN "chip_erased" ELSE "erased"
           \/ cmd.op = "DATA" /\ host'.phase = "resend"
    <3>1. host \in [phase : Phase, gen : Nat, offset : Nat, size : Nat, sent : Nat,
                    seq : Nat, last : {NoPacket} \cup DataPacket, resends : Nat]
      BY DEF FlashInv, HostOK
    <3>2. QED
      BY <1>7, <3>1 DEF Reply, Accepted
  <2>5. RegionOver' => RegionOver
    <3>1. RegionOver' => host'.phase = "erased"
      BY <2>1 DEF RegionOver
    <3>2. host'.phase = "erased" => ~error /\ res = "OK" /\ cmd.op = "ERASE" /\ ~cmd.chip
      BY <2>2, <2>4
    <3>3. QED
      BY <2>1, <2>2, <2>3, <3>1, <3>2 DEF RegionOver
  <2>6. Imaging' => Imaging /\ Taken' = Taken
    <3>1. SUFFICES ASSUME Imaging' PROVE Imaging /\ Taken' = Taken
      OBVIOUS
    <3>2. InProcess(ring)' = InProcess(ring)
      BY <1>1, <2>1
    <3>3. CASE host'.phase = "stopped"
      <4>1. InProcess(ring)
        BY <3>1, <3>2, <3>3 DEF Imaging
      <4>2. Imaging /\ cmd.op # "END"
        BY <2>1, <4>1, PhaseIs DEF FlowInv, QuietOK
      <4>3. ~Ending /\ ~Ending'
        BY <2>1, <2>3, <3>3, <4>2 DEF Ending, NoPacket
      <4>4. QED
        BY <2>1, <2>4, <4>2, <4>3 DEF Taken
    <3>4. CASE host'.phase # "stopped"
      <4>1. /\ cmd.op # "ERASE"
            /\ host'.phase = "done" <=> cmd.op = "END"
        BY <2>1, <2>2, <2>4, <3>1, <3>4 DEF Imaging, NoPacket
      <4>2. Imaging
        BY <2>2, <2>3, <4>1 DEF Imaging
      <4>3. Ending' <=> Ending
        BY <2>1, <2>3, <4>1 DEF Ending, NoPacket
      <4>4. QED
        BY <2>1, <2>4, <4>2, <4>3 DEF Taken
    <3>5. QED
      BY <3>3, <3>4
  <2>7. QED
    BY <1>1, <2>1, <2>3, <2>4, <2>5, <2>6, KeptFrame
<1>8. QED
  BY <1>3, <1>4, <1>5, <1>6, <1>7

(* FLASH_BEGIN: a new image, of which nothing has come.                     *)
LEMMA BeginKept ==
  ASSUME FlashInv, TalkInv, FlowInv, FlowInv', Kept, FlashBegin
  PROVE  Kept'
<1>1. /\ Receive("BEGIN") /\ flash_prog' = NewImage(packet) /\ ring' = EmptyRing /\ cmd' = packet
      /\ mem' = [mem EXCEPT !.remaining = packet.size, !.seq = -1, !.mode = TRUE]
      /\ UNCHANGED <<queue, current, ev, buf>>
  BY DEF FlashBegin, Run, Receive
<1>2. /\ packet = BeginCmd /\ host.phase = "begin" /\ host' = host /\ cmd' # NoPacket
      /\ current = "uart"
      /\ UNCHANGED <<fpc, flash_ops, worker, dev, flash, failed>>
  BY <1>1, ReceivedIs, AskedIs DEF programmer, device
<1>3. host.size \in Nat /\ host.offset \in Nat /\ host.gen \in Nat
  BY DEF FlashInv, HostOK
<1>4. /\ flash_prog'.offset = host.offset /\ flash_prog'.total = host.size
      /\ flash_prog'.erase_size = 0 /\ flash_prog'.cnt = 0
  BY <1>1, <1>2 DEF NewImage, BeginCmd
<1>5. Taken' = 0
  <2>1. mem'.remaining = host.size /\ ~Ending'
    BY <1>1, <1>2 DEF BeginCmd, FlashInv, LoaderOK, Ending
  <2>2. QED
    BY <1>2, <1>3, <2>1 DEF Taken
<1>6. Still /\ fpc = "idle"
  BY <1>2 DEF FlowInv, QuietOK, Still
<1>7. ~RegionJob'
  <2>1. InFlight' = {}
    BY <1>1, <1>6 DEF Still, InFlight, Contents
  <2>2. QED
    BY <1>1, <1>2, <1>6, <2>1 DEF RegionJob, Woken
<1>8. PlaceInv'
  <2>1. ErasePlace' /\ ProgramPlace' /\ InFlash'
    BY <1>2 DEF Kept, PlaceInv, ErasePlace, ProgramPlace, InFlash
  <2>2. InRing(0)'
    <3>1. /\ 0 * LOAD_BLK_SIZE = 0 /\ 0 - 0 = 0
      BY RingAssumption
    <3>2. Lined(EmptyRing, 0, 0 = host.size) /\ Holds(EmptyRing, buf, ImageOf(host.gen), 0)
      BY EmptyLined
    <3>3. ImageOf(host.gen)' = ImageOf(host.gen)
      BY <1>2 DEF ImageOf
    <3>4. QED
      BY <1>1, <1>2, <1>4, <1>5, <3>1, <3>2, <3>3 DEF InRing
  <2>3. ImageInv'
    BY <1>2, <1>3, <1>4, <1>5, <1>6, <2>2 DEF ImageInv
  <2>4. QED
    BY <1>7, <2>1, <2>3 DEF PlaceInv
<1>9. CellsInv => CellsInv'
  <2>1. InTune => InTune'
    BY <1>2 DEF InTune
  <2>2. OnFlash(0)'
    <3>1. Progress' = 0
      BY <1>2, <1>6 DEF Progress
    <3>2. 0 * LOAD_BLK_SIZE = 0 /\ Done' = 0
      BY <1>4, <3>1, RingAssumption DEF Done
    <3>3. \A a, b \in Int : b <= a => Fresh(a, b)'
      BY DEF Fresh, Addr
    <3>4. QED
      BY <1>2, <1>3, <1>4, <1>6, <3>2, <3>3 DEF OnFlash
  <2>3. ~RegionOver'
    BY <1>2 DEF RegionOver
  <2>4. QED
    BY <1>2, <1>7, <2>1, <2>2, <2>3 DEF CellsInv
<1>10. QED
  BY <1>2, <1>8, <1>9 DEF Kept

(* ESP_ERASE_REGION and the erasure of the chip.                            *)
LEMMA EraseKept ==
  ASSUME Calm, FlashInv, TalkInv, FlowInv, FlowInv', Kept, FlashErase
  PROVE  Kept'
<1>1. /\ Receive("ERASE") /\ cmd' = packet /\ current' = "none" /\ upc' = "erase_wait"
      /\ ~packet.chip => flash_prog' = [offset |-> packet.offset, total |-> packet.size,
                                        erase_size |-> 0, cnt |-> packet.size]
      /\ UNCHANGED <<ev, ring, buf>>
      /\ \E d \in {0, Chip} : queue' = Post(queue, "flash", "ERASE", d)
  BY DEF FlashErase, Yield, Receive
<1>2. /\ packet \in {EraseCmd, ChipCmd} /\ host.phase = "erasing" /\ host' = host /\ cmd = NoPacket
      /\ UNCHANGED <<fpc, flash_ops, worker, dev, flash, failed>> /\ packet # NoPacket
  BY <1>1, ReceivedIs, AskedIs DEF programmer, device
<1>3. Still /\ ~Imaging'
  BY <1>2 DEF FlowInv, QuietOK, Imaging
<1>4. ToTell' = ToTell
  <2>1. PICK d \in {0, Chip} : queue' = Post(queue, "flash", "ERASE", d)
    BY <1>1
  <2>2. Ask(d) \in Wakes /\ Ask(d) = [p |-> "flash", ev |-> "ERASE", data |-> d]
    BY DEF Ask, Wakes
  <2>3. QED
    BY <1>3, <2>1, <2>2, WakePosted DEF FlowInv, Still
<1>5. ~RegionOver'
  BY <1>1, <1>2, <1>3, <1>4, EventsStay DEF RegionOver, OkTold, Still
<1>6. ASSUME RegionJob'
      PROVE  /\ flash_prog'.offset = host.offset /\ flash_prog'.total = host.size
             /\ flash_prog'.erase_size = 0 /\ flash_prog'.cnt = host.size
             /\ host.size \in Nat \ {0} /\ host.offset \in Nat /\ fpc' = "idle"
  <2>1. ~packet.chip
    BY <1>1, <1>2, <1>6 DEF FlowInv, JobsOK
  <2>2. packet = EraseCmd /\ packet \in Command
    BY <1>2, <2>1 DEF ChipCmd, FlashInv, HostOK
  <2>3. packet.size \in Nat \ {0} /\ packet.offset \in Nat
    BY <2>1, <2>2 DEF EraseCmd, Command, DataPacket
  <2>4. QED
    BY <1>1, <1>2, <1>3, <2>1, <2>2, <2>3 DEF EraseCmd, Still
<1>7. PlaceInv'
  <2>1. ErasePlace' /\ ProgramPlace' /\ InFlash'
    BY <1>2 DEF Kept, PlaceInv, ErasePlace, ProgramPlace, InFlash
  <2>2. RegionJob' => RegionInv'
    BY <1>2, <1>6 DEF RegionInv
  <2>3. QED
    BY <1>3, <2>1, <2>2 DEF PlaceInv
<1>8. CellsInv => CellsInv'
  <2>1. InTune => InTune'
    BY <1>2 DEF InTune
  <2>2. ASSUME RegionJob' PROVE RegionWiped'
    <3>1. \A a, b \in Int : b <= a => Fresh(a, b)'
      BY DEF Fresh, Addr
    <3>2. QED
      BY <1>2, <1>6, <2>2, <3>1 DEF RegionWiped
  <2>3. QED
    BY <1>2, <1>3, <1>5, <2>1, <2>2 DEF CellsInv
<1>9. QED
  BY <1>2, <1>7, <1>8 DEF Kept

(* A ring is lined in the same way by whatever says so.                     *)
LEMMA LinedIff ==
  ASSUME NEW r, NEW n, NEW c, NEW d, Lined(r, n, c), c <=> d
  PROVE  Lined(r, n, d)
  BY DEF Lined

(* A turn of the copy loop puts the next units behind those in the ring.    *)
LEMMA CopyInRing ==
  ASSUME FlashInv, TalkInv, CopyBlock, flash_prog' = flash_prog, failed' = failed,
         NEW m \in Nat, InRing(m)
  PROVE  InRing(m)' /\ Taken' \in 0 .. host.size
<1> DEFINE t == ring.ctrl[ring.tail].buf_idx
           at == ring.ctrl[ring.tail].size
           last == mem.remaining = CopyLen
<1>1. /\ upc = "copy" /\ mem.cpy # <<>> /\ HasFreeBuf(ring)
      /\ UNCHANGED <<upc, cmd, res, packet, waiting, host>>
      /\ ring' = Filled(ring, CopyLen, last)
      /\ buf' = [buf EXCEPT ![t] = [i \in DOMAIN @ |->
                   IF i \in at .. at + CopyLen - 1 THEN mem.cpy[i - at + 1] ELSE @[i]]]
  BY DEF CopyBlock, Uart, UartUnchanged
<1>2. /\ cmd.op = "DATA" /\ host.phase = "data" /\ packet = NoPacket
  BY <1>1, CopyingIs
<1>3. Sound(ring) /\ ring.tail \in CtrlIdx /\ t \in BufIdx
      /\ at \in Nat /\ at < LOAD_BLK_SIZE /\ Room(ring) = LOAD_BLK_SIZE - at
  <2>1. Sound(ring) /\ ring.tail \in CtrlIdx /\ ring.ctrl \in [CtrlIdx -> DataCtrl] /\ at < LOAD_BLK_SIZE
    BY DEF FlashInv, RingOK, Sound, Rings, RestEmpty
  <2>2. ring.ctrl[ring.tail] \in DataCtrl
    BY <2>1
  <2>3. QED
    BY <2>1, <2>2, RingAssumption DEF DataCtrl, Room
<1>4. PICK len \in Nat \ {0} : len = CopyLen
  BY CopiedIs
<1>5. /\ len <= Len(mem.cpy) /\ Len(mem.cpy) <= mem.remaining
      /\ Len(mem.cpy) \in Nat /\ mem.remaining \in Nat
      /\ mem'.remaining = mem.remaining - len
      /\ len \in 1 .. Room(ring)
  BY <1>4, CopiedIs, CopyFits
<1> HIDE DEF t, at, last
<1>6. /\ \A i \in BufIdx : i # t => buf'[i] = buf[i]
      /\ \A x \in 0 .. at - 1 : buf'[t][x] = buf[t][x]
      /\ \A x \in 0 .. len - 1 : buf'[t][at + x] = mem.cpy[x + 1]
  <2>1. DOMAIN buf[t] = 0 .. LOAD_BLK_SIZE - 1
    BY <1>3 DEF FlashInv, DeviceOK
  <2> DEFINE new == [i \in 0 .. LOAD_BLK_SIZE - 1 |->
                       IF i \in at .. at + len - 1 THEN mem.cpy[i - at + 1] ELSE buf[t][i]]
  <2>2. buf' = [buf EXCEPT ![t] = new]
    BY <1>1, <1>4, <2>1
  <2>3. /\ \A x \in 0 .. at - 1 : new[x] = buf[t][x]
        /\ \A x \in 0 .. len - 1 : new[at + x] = mem.cpy[x + 1]
    <3>1. PICK B \in Nat \ {0} : B = LOAD_BLK_SIZE
      BY RingAssumption
    <3>2. at + len <= B
      BY <1>3, <1>5, <3>1
    <3>3. ASSUME NEW x \in 0 .. at - 1 PROVE new[x] = buf[t][x]
      BY <1>3, <3>1
    <3>4. ASSUME NEW x \in 0 .. len - 1 PROVE new[at + x] = mem.cpy[x + 1]
      <4>1. PICK y \in 0 .. B - 1 : y = at + x /\ y \in at .. at + len - 1 /\ y - at + 1 = x + 1
        BY <1>3, <3>2
      <4>2. new[y] = mem.cpy[y - at + 1]
        BY <3>1, <4>1
      <4>3. QED
        BY <4>1, <4>2
    <3>5. QED
      BY <3>3, <3>4
  <2>4. t \in DOMAIN buf
    BY <1>3 DEF FlashInv, DeviceOK
  <2> HIDE DEF new
  <2>5. /\ buf'[t] = new
        /\ \A i \in BufIdx : i # t => buf'[i] = buf[i]
    BY <2>2, <2>4
  <2>6. QED
    BY <2>3, <2>5
<1>7. Followed /\ InStep /\ ~Ending /\ ~Ending'
  BY <1>1, <1>2 DEF TalkInv, Followed, Ending
<1>8. /\ Taken \in Nat /\ host.size \in Nat /\ Taken = host.size - mem.remaining
      /\ Taken' = Taken + len /\ Taken' \in 0 .. host.size
  <2>1. /\ Taken \in 0 .. host.size /\ host.size \in Nat /\ Taken = host.size - mem.remaining
        /\ Taken' = host.size - mem'.remaining
    BY <1>1, <1>7 DEF Taken, InStep, FlashInv, HostOK
  <2>2. QED
    BY <1>5, <2>1
<1>9. /\ ~(Taken = host.size)
      /\ Taken' = host'.size <=> last
  BY <1>1, <1>4, <1>5, <1>8 DEF last
<1>10. PICK P \in Nat : P = m * LOAD_BLK_SIZE
  BY BlockTimes
<1>11. PICK n \in Int : n = Taken - P /\ Taken' - P = n + len /\ P + n = Taken
  BY <1>8, <1>10
<1>12. Lined(ring, n, FALSE) /\ Holds(ring, buf, ImageOf(host.gen), P)
  <2>1. Lined(ring, n, Taken = host.size)
    BY <1>10, <1>11 DEF InRing
  <2>2. Lined(ring, n, FALSE)
    BY <1>9, <2>1, LinedIff
  <2>3. QED
    BY <1>10, <2>2 DEF InRing
<1>13. last \in BOOLEAN
  BY DEF last
<1>14. Lined(ring', Taken' - P, Taken' = host'.size)
  <2>1. Lined(ring', n + len, last)
    BY <1>1, <1>3, <1>4, <1>5, <1>12, <1>13, FilledLined
  <2>2. QED
    BY <1>9, <1>11, <2>1, LinedIff
<1>15. ASSUME NEW x \in 0 .. len - 1
       PROVE  buf'[t][at + x] = ImageOf(host.gen)[P + n + x]
  <2>1. x + 1 \in 1 .. Len(mem.cpy)
    BY <1>5
  <2>2. mem.cpy[x + 1] = Unit(host.gen, Taken + (x + 1) - 1)
    BY <1>2, <1>7, <2>1 DEF InStep
  <2>3. P + n + x \in Nat /\ Taken + (x + 1) - 1 = P + n + x
    BY <1>8, <1>11
  <2>4. QED
    BY <1>6, <2>2, <2>3 DEF ImageOf
<1>16. Holds(ring', buf', ImageOf(host.gen), P)
  <2>1. Appended(ring, buf, buf', len, ImageOf(host.gen), P + n)
    BY <1>6, <1>15 DEF Appended, t, at
  <2>2. QED
    BY <1>1, <1>3, <1>4, <1>5, <1>12, <1>13, <2>1, FilledHolds
<1>17. /\ (m * LOAD_BLK_SIZE)' = P /\ ImageOf(host.gen)' = ImageOf(host.gen)
  BY <1>1, <1>10 DEF ImageOf
<1>18. InRing(m)'
  BY <1>1, <1>14, <1>16, <1>17 DEF InRing
<1>19. QED
  BY <1>8, <1>18

(* ... and disturbs nothing else.                                           *)
LEMMA CopyKept ==
  ASSUME FlashInv, TalkInv, FlowInv, FlowInv', Kept, CopyBlock
  PROVE  Kept'
<1>1. /\ upc = "copy" /\ HasFreeBuf(ring) /\ current = "uart"
      /\ UNCHANGED <<flash_prog, fpc, flash_ops, worker, dev, flash, failed, host, current, ev>>
      /\ ring' = Filled(ring, CopyLen, mem.remaining = CopyLen)
      /\ queue' = Wake(queue)
  BY DEF CopyBlock, Uart, UartUnchanged, Run, programmer, device
<1>2. host.phase = "data" /\ Imaging /\ Imaging' /\ ~RegionOver'
  BY <1>1, CopyingIs DEF Imaging, RegionOver
<1>3. ~RegionJob'
  BY <1>1, <1>2 DEF FlowInv, JobsOK
<1>4. fpc \in Waits => InProcess(ring)
  <2>1. ~RegionJob /\ ~ChipJob /\ (BlockJob => InProcess(ring))
    BY <1>2 DEF FlowInv, JobsOK
  <2>2. QED
    BY <2>1 DEF Waits, RegionJob, ChipJob, BlockJob
<1>5. fpc \in Waits => (Replied' <=> Replied)
  <2>1. ASSUME fpc \in Waits PROVE (Replied' <=> Replied)
    <3>1. queue' = queue
      BY <1>1, <1>4, <2>1 DEF Wake
    <3>2. QED
      BY <1>1, <3>1, EventsStay DEF Replied, InFlight, Contents
  <2>2. QED
    BY <2>1
<1>6. ImageInv /\ ErasePlace /\ ProgramPlace /\ InFlash
  BY <1>2 DEF Kept, PlaceInv
<1>7. InProcess(ring) => BlockOps' = BlockOps
  <2>1. SUFFICES ASSUME InProcess(ring) PROVE BlockOps' = BlockOps
    OBVIOUS
  <2>2. /\ ring \in Rings /\ CopyLen \in 1 .. Room(ring) /\ (mem.remaining = CopyLen) \in BOOLEAN
        /\ ring.head \in CtrlIdx /\ ring.head # ring.tail /\ ring.head # Succ(ring.tail)
    BY <1>1, <2>1, CopyFits DEF FlashInv, RingOK, Sound, Rings, InProcess, HasFreeBuf
  <2>3. /\ ring'.head = ring.head
        /\ ring'.ctrl[ring.head].size = ring.ctrl[ring.head].size
        /\ ring'.ctrl[ring.head].buf_idx = ring.ctrl[ring.head].buf_idx
    <3> DEFINE last == mem.remaining = CopyLen
               q == Filled(ring, CopyLen, last)
    <3>1. ring \in Rings /\ HasFreeBuf(ring) /\ CopyLen \in 1 .. Room(ring) /\ last \in BOOLEAN
      BY <1>1, <2>2
    <3> HIDE DEF last
    <3>2. /\ q.head = ring.head
          /\ \A i \in CtrlIdx : q.ctrl[i].size =
               IF i = ring.tail THEN ring.ctrl[i].size + CopyLen ELSE ring.ctrl[i].size
          /\ \A i \in CtrlIdx : i # Succ(ring.tail) => q.ctrl[i].buf_idx = ring.ctrl[i].buf_idx
      BY <3>1, FilledIs
    <3>3. ring' = q
      BY <1>1 DEF last
    <3> HIDE DEF q
    <3>4. QED
      BY <2>2, <3>2, <3>3
  <2>4. QED
    BY <1>1, <2>3 DEF BlockOps
<1>8. ImageInv'
  <2>1. PICK m \in Nat : InRing(m)
    BY <1>6 DEF ImageInv
  <2>2. InRing(m)' /\ Taken' \in 0 .. host.size
    BY <1>1, <2>1, CopyInRing
  <2>3. fpc \in {"sector_wait", "program_wait"} => flash_ops = BlockOps'
    BY <1>4, <1>6, <1>7 DEF ImageInv, Waits
  <2>4. QED
    BY <1>1, <1>6, <2>2, <2>3 DEF ImageInv
<1>9. PlaceInv'
  BY <1>1, <1>3, <1>6, <1>8 DEF PlaceInv, ErasePlace, ProgramPlace, InFlash
<1>10. CellsInv => CellsInv'
  BY <1>1, <1>2, <1>3, <1>5, CellsFrame
<1>11. QED
  BY <1>1, <1>9, <1>10 DEF Kept

(* What a step of flash_prog_process leaves alone: the workers rest.        *)
LEMMA FlashSame ==
  ASSUME FlowInv, current = "flash", FlashUnchanged
  PROVE  /\ UNCHANGED <<buf, worker, dev, flash, host, cmd, mem, upc, error, failed>>
         /\ Taken' = Taken /\ Replied /\ InFlight = {}
         /\ \A t \in Worker : worker[t].pc = "idle" /\ Commanded(t)
         /\ \A t \in Worker : ~Replied' => ~Commanded(t)'
         /\ (InProcess(ring)' => InProcess(ring)) => (Imaging' => Imaging)
         /\ \A a, b : Fresh(a, b)' = Fresh(a, b)
<1>1. UNCHANGED <<buf, worker, dev, flash, host, cmd, mem, upc, error, failed>>
  BY DEF FlashUnchanged, loader, device, outside
<1>2. InFlight = {} /\ \A t \in Worker : worker[t].pc = "idle"
  BY UpIs DEF AllRest, Resting
<1>3. Replied
  BY DEF Replied
<1>4. Taken' = Taken
  BY <1>1 DEF Taken, Ending
<1>5. (InProcess(ring)' => InProcess(ring)) => (Imaging' => Imaging)
  BY <1>1 DEF Imaging
<1>6. \A t \in Worker : Commanded(t) /\ (~Replied' => ~Commanded(t)')
  BY <1>1, <1>2, <1>3 DEF Commanded
<1>7. \A a, b : Fresh(a, b)' = Fresh(a, b)
  BY <1>1 DEF Fresh
<1>8. QED
  BY <1>1, <1>2, <1>3, <1>4, <1>5, <1>6, <1>7

(* What such a step has to keep.                                            *)
LEMMA FlashKeep ==
  ASSUME FlowInv, Kept, current = "flash", FlashUnchanged,
         Imaging' => ImageInv', RegionJob' => RegionInv',
         ~failed /\ Imaging' => \E k \in Nat : OnFlash(k)',
         ~failed /\ RegionJob' => RegionWiped',
         ~failed /\ RegionOver' => RegionOver \/ Fresh(host.offset, host.offset + host.size)
  PROVE  Kept'
<1>1. /\ UNCHANGED <<worker, dev, flash, host, failed>>
      /\ \A t \in Worker : worker[t].pc = "idle"
      /\ \A a, b : Fresh(a, b)' = Fresh(a, b)
  BY FlashSame
<1>2. ErasePlace' /\ ProgramPlace' /\ InFlash'
  BY <1>1 DEF ErasePlace, ProgramPlace, Worker, Kept, PlaceInv, InFlash
<1>3. ASSUME ~failed PROVE CellsInv'
  <2>1. CellsInv
    BY <1>3 DEF Kept
  <2>2. InTune'
    BY <1>1, <2>1 DEF CellsInv, InTune
  <2>3. RegionOver' => Fresh(host.offset, host.offset + host.size)'
    BY <1>1, <1>3, <2>1 DEF CellsInv
  <2>4. QED
    BY <1>1, <1>3, <2>1, <2>2, <2>3 DEF CellsInv
<1>4. QED
  BY <1>1, <1>2, <1>3 DEF Kept, PlaceInv

(* An order to a worker: its answer is not there.                           *)
LEMMA OrderGiven ==
  ASSUME Calm, FlowInv, current = "flash", NEW t \in Worker,
         queue' = Post(queue, t, "CONTINUE", 0), current' = "none"
  PROVE  ~Replied' /\ InFlight' = {Order(t)} /\ ToTell' = ToTell
<1>1. InFlight' = {Order(t)} /\ ToTell' = ToTell
  BY UpIs, OrderPosted DEF FlowInv
<1>2. Result(0)' = Result(0) /\ Result(0) # Order(t)
  BY EventsAre, EventsStay
<1>3. QED
  BY <1>1, <1>2 DEF Replied

(* A region is being erased when flash_prog_process says so.                *)
LEMMA RegionUp ==
  ASSUME FlashInv, FlowInv, current = "flash"
  PROVE  /\ RegionJob <=> (fpc = "idle" /\ ev = Ask(0)) \/ fpc \in {"region", "region_wait", "region_done"}
         /\ RegionJob \/ fpc \in {"chip", "chip_wait"} => ~Imaging /\ ~InProcess(ring) /\ host.phase \in {"erasing", "stopped"}
         /\ fpc \in {"chip", "chip_wait"} /\ host.phase = "erasing" => cmd.chip
<1>1. InFlight = {}
  BY UpIs
<1>2. RegionJob <=> (fpc = "idle" /\ ev = Ask(0)) \/ fpc \in {"region", "region_wait", "region_done"}
  BY <1>1 DEF RegionJob, Woken
<1>3. fpc \in {"chip", "chip_wait"} => ChipJob
  BY DEF ChipJob
<1>4. RegionJob => ~Imaging /\ ~InProcess(ring) /\ host.phase \in {"erasing", "stopped"}
  BY PhaseIs
<1>5. ChipJob => ~Imaging /\ ~InProcess(ring) /\ host.phase \in {"erasing", "stopped"}
  BY DEF FlowInv, JobsOK, Imaging
<1>6. ChipJob /\ host.phase = "erasing" => cmd.chip
  BY DEF FlowInv, JobsOK
<1>7. QED
  BY <1>2, <1>3, <1>4, <1>5, <1>6

(* What the loader hears is the same when nothing is told.                  *)
LEMMA OverStays ==
  ASSUME FlowInv, current = "flash", current' \in {"flash", "none"}, FlashUnchanged,
         Tell("PROG_OK") \in ToTell' => Tell("PROG_OK") \in ToTell
  PROVE  RegionOver' => RegionOver
<1>1. UNCHANGED <<host, cmd, upc, error>>
  BY FlashSame
<1>2. OkTold' => OkTold
  BY EventsStay DEF OkTold
<1>3. QED
  BY <1>1, <1>2 DEF RegionOver

(* The wait at the top of the loop is over.                                 *)
LEMMA IdleKept ==
  ASSUME FlashInv, FlowInv, Kept, FlashIdle
  PROVE  Kept'
<1>1. /\ current = "flash" /\ fpc = "idle" /\ current' = "flash" /\ FlashUnchanged
      /\ UNCHANGED <<queue, flash_prog, ring, ev>>
      /\ fpc' = IF ev.ev # "ERASE" THEN "drain" ELSE IF ev.data = Chip THEN "chip" ELSE "region"
      /\ fpc' # "region" => flash_ops' = flash_ops
      /\ fpc' = "region" => flash_ops' = [flash_ops EXCEPT !.addr = flash_prog.offset]
  BY DEF FlashIdle, Flash, Run
<1>2. InFlight' = InFlight /\ ToTell' = ToTell /\ InFlight = {}
  BY <1>1, UpIs DEF InFlight, ToTell, Contents
<1>3. UNCHANGED <<buf, worker, flash, host, failed>> /\ Taken' = Taken /\ (Imaging' => Imaging)
      /\ \A a, b : Fresh(a, b)' = Fresh(a, b)
  BY <1>1, FlashSame DEF InProcess
<1>4. RegionJob' => fpc' = "region"
  BY <1>1, <1>2 DEF RegionJob, Woken
<1>5. fpc' = "region" => RegionJob
  <2>1. ev \in Wakes
    BY <1>1, UpIs
  <2>2. ev.ev = "ERASE" /\ ev.data # Chip => ev = Ask(0)
    BY <2>1 DEF Wakes, Rdy, Ask
  <2>3. QED
    BY <1>1, <2>2, RegionUp
<1>6. Imaging' => ImageInv'
  <2>1. SUFFICES ASSUME Imaging' PROVE ImageInv'
    OBVIOUS
  <2>2. ImageInv /\ \A m : InRing(m) => InRing(m)'
    BY <1>1, <1>3, <2>1 DEF Kept, PlaceInv, InRing, ImageOf
  <2>3. QED
    BY <1>1, <1>3, <2>2 DEF ImageInv
<1>7. RegionJob' => RegionInv'
  <2>1. SUFFICES ASSUME RegionJob' PROVE RegionInv'
    OBVIOUS
  <2>2. /\ flash_prog.offset = host.offset /\ flash_prog.total = host.size
        /\ flash_prog.erase_size = 0 /\ flash_prog.cnt = flash_prog.total /\ flash_prog.total > 0
        /\ flash_prog.offset \in Int /\ flash_prog.total \in Int
    BY <1>1, <1>4, <1>5, <2>1 DEF Kept, PlaceInv, RegionInv, FlashInv, ImageOK
  <2>3. flash_ops'.addr = flash_prog.offset
    BY <1>1, <1>4, <2>1 DEF FlashInv, ProgrammerOK
  <2>4. QED
    BY <1>1, <1>3, <1>4, <2>1, <2>2, <2>3 DEF RegionInv
<1>8. ~failed /\ Imaging' => \E k \in Nat : OnFlash(k)'
  <2>1. SUFFICES ASSUME ~failed, Imaging' PROVE \E k \in Nat : OnFlash(k)'
    OBVIOUS
  <2>2. PICK k \in Nat : OnFlash(k)
    BY <1>3, <2>1 DEF Kept, CellsInv
  <2>3. Done' = Done
    BY <1>1 DEF Done, Progress
  <2>4. OnFlash(k)'
    BY <1>1, <1>3, <2>2, <2>3 DEF OnFlash
  <2>5. QED
    BY <2>4
<1>9. ~failed /\ RegionJob' => RegionWiped'
  BY <1>1, <1>3, <1>4, <1>5 DEF Kept, CellsInv, RegionWiped
<1>10. RegionOver' => RegionOver
  BY <1>1, <1>2, OverStays
<1>11. QED
  BY <1>1, <1>6, <1>7, <1>8, <1>9, <1>10, FlashKeep

(* The erasure of the chip, which is none, touches nothing.                 *)
LEMMA ChipKept ==
  ASSUME Calm, FlashInv, FlowInv, Kept, ChipErase \/ ChipErased
  PROVE  Kept'
<1>1. /\ current = "flash" /\ fpc \in {"chip", "chip_wait"} /\ fpc' \in {"drain", "chip_wait"}
      /\ FlashUnchanged /\ ring' = ring
  BY DEF ChipErase, ChipErased, Flash
<1>2. ~Imaging /\ ~InProcess(ring) /\ host.phase \in {"erasing", "stopped"}
      /\ (host.phase = "erasing" => cmd.chip)
  BY <1>1, RegionUp
<1>3. UNCHANGED <<host, cmd>> /\ ~Imaging'
  BY <1>1, <1>2, FlashSame DEF InProcess
<1>4. InFlight' \in {{}, {Order("erase")}}
  <2>1. "erase" \in Worker /\ "PROG_OK" \in {"BUF_FREE", "PROG_OK", "PROG_ERR"}
        /\ "PROG_ERR" \in {"BUF_FREE", "PROG_OK", "PROG_ERR"}
    BY DEF Worker
  <2>2. Tidy(queue) /\ InFlight = {} /\ ToTell = {}
    BY <1>1, UpIs DEF FlowInv
  <2>3. \/ queue' = Post(queue, "uart", "PROG_OK", 0)
        \/ queue' = Post(queue, "uart", "PROG_ERR", 0)
        \/ queue' = Post(queue, "erase", "CONTINUE", 0)
    BY DEF ChipErase, ChipErased
  <2>4. QED
    BY <2>1, <2>2, <2>3, TellPosted, OrderPosted
<1>5. ~RegionJob'
  BY <1>1, <1>4, EventsAre, EventsStay DEF RegionJob, Woken, Ask, Order
<1>6. ~RegionOver'
  BY <1>2, <1>3 DEF RegionOver
<1>7. QED
  BY <1>1, <1>3, <1>5, <1>6, FlashKeep

(* The next erasure of a region.                                            *)
LEMMA RegionEraseKept ==
  ASSUME Calm, FlashInv, FlowInv, Kept, RegionErase
  PROVE  Kept'
<1>1. /\ current = "flash" /\ fpc = "region" /\ FlashUnchanged
      /\ UNCHANGED <<flash_prog, ring, flash_ops, ev>>
  BY DEF RegionErase, Flash, Run, Yield
<1>2. RegionJob /\ ~Imaging /\ ~InProcess(ring)
  BY <1>1, RegionUp
<1>3. /\ flash_prog.offset = host.offset /\ flash_prog.total = host.size
      /\ flash_prog.erase_size \in Nat /\ flash_prog.erase_size < flash_prog.total
      /\ flash_ops.addr = flash_prog.offset + flash_prog.erase_size
      /\ flash_prog.offset \in Int /\ flash_prog.total \in Int
  BY <1>1, <1>2 DEF Kept, PlaceInv, RegionInv, FlashInv, ImageOK
<1>4. /\ fpc' = "region_wait" /\ current' = "none" /\ queue' = Post(queue, "erase", "CONTINUE", 0)
  <2>1. ~ErasedAlready(flash_ops.addr)
    BY <1>3 DEF ErasedAlready
  <2>2. QED
    BY <2>1 DEF RegionErase, Yield
<1>5. "erase" \in Worker
  BY DEF Worker
<1>6. ~Replied' /\ ToTell' = ToTell
  BY <1>1, <1>4, <1>5, OrderGiven
<1>7. UNCHANGED <<flash, host, failed>> /\ ~Commanded("erase")' /\ ~Imaging'
      /\ \A a, b : Fresh(a, b)' = Fresh(a, b)
  BY <1>1, <1>2, <1>5, <1>6, FlashSame DEF InProcess
<1>8. RegionInv'
  BY <1>1, <1>3, <1>4, <1>7 DEF RegionInv
<1>9. ~failed => RegionWiped'
  BY <1>1, <1>2, <1>3, <1>7 DEF RegionWiped, Kept, CellsInv
<1>10. RegionOver' => RegionOver
  BY <1>1, <1>4, <1>6, OverStays
<1>11. QED
  BY <1>1, <1>7, <1>8, <1>9, <1>10, FlashKeep

(* One erasure of a region is done, or has failed.                          *)
LEMMA RegionErasedKept ==
  ASSUME Calm, FlashInv, FlowInv, Kept, RegionErased
  PROVE  Kept'
<1>1. /\ current = "flash" /\ fpc = "region_wait" /\ FlashUnchanged
      /\ UNCHANGED <<ring, ev>>
  BY DEF RegionErased, Flash, Run, Yield
<1>2. RegionJob /\ ~Imaging /\ ~InProcess(ring) /\ ev \in Results /\ ToTell = {} /\ InFlight = {}
      /\ Tidy(queue)
  BY <1>1, RegionUp, UpIs DEF Waits, FlowInv
<1>3. UNCHANGED <<flash, host, failed>> /\ ~Imaging'
      /\ \A a, b : Fresh(a, b)' = Fresh(a, b)
  BY <1>1, <1>2, FlashSame DEF InProcess
<1>4. CASE ev.data # 0
  <2>1. queue' = Post(queue, "uart", "PROG_ERR", 0) /\ fpc' = "idle" /\ current' = "none"
    BY <1>4 DEF RegionErased, Yield
  <2>2. InFlight' = {}
    BY <1>2, <2>1, TellPosted
  <2>3. ~RegionJob'
    BY <2>1, <2>2 DEF RegionJob, Woken
  <2>4. failed
    <3>1. ev = Result(-1)
      BY <1>2, <1>4, EventsAre
    <3>2. QED
      BY <1>1, <3>1 DEF FlowInv, ErrorsOK, ErrorSomewhere, Waits
  <2>5. QED
    BY <1>1, <1>3, <2>3, <2>4, FlashKeep
<1>5. CASE ev.data = 0
  <2>1. /\ flash_ops' = [flash_ops EXCEPT !.addr = flash_prog.offset + flash_prog.erase_size]
        /\ flash_prog' = [flash_prog EXCEPT !.cnt = flash_prog.total - flash_prog.erase_size]
        /\ fpc' = RegionLabel(flash_prog'.cnt)
        /\ current' = current /\ queue' = queue
    BY <1>5 DEF RegionErased, Run
  <2>2. /\ flash_prog.offset = host.offset /\ flash_prog.total = host.size
        /\ flash_prog.erase_size \in Nat
        /\ flash_prog.offset \in Int /\ flash_prog.total \in Int
    BY <1>1, <1>2 DEF Kept, PlaceInv, RegionInv, FlashInv, ImageOK
  <2>3. /\ flash_ops'.addr = flash_prog.offset + flash_prog.erase_size
        /\ flash_prog'.cnt = flash_prog.total - flash_prog.erase_size
        /\ flash_prog'.offset = flash_prog.offset /\ flash_prog'.total = flash_prog.total
        /\ flash_prog'.erase_size = flash_prog.erase_size
    BY <2>1 DEF FlashInv, ImageOK, ProgrammerOK
  <2>4. /\ fpc' \in {"region", "region_done"}
        /\ fpc' = "region" => flash_prog'.cnt > 0
        /\ fpc' = "region_done" => ~(flash_prog'.cnt > 0)
    BY <2>1 DEF RegionLabel
  <2>5. RegionInv'
    BY <1>3, <2>2, <2>3, <2>4 DEF RegionInv
  <2>6. ~failed => RegionWiped'
    BY <1>2, <1>3, <2>3, <2>4 DEF RegionWiped, Kept, CellsInv
  <2>7. RegionOver' => RegionOver
    <3>1. ToTell' = ToTell
      BY <2>1 DEF ToTell, Contents
    <3>2. QED
      BY <1>1, <2>1, <3>1, OverStays
  <2>8. QED
    BY <1>1, <1>3, <2>5, <2>6, <2>7, FlashKeep
<1>6. QED
  BY <1>4, <1>5

(* A region has been erased to its end.                                     *)
LEMMA RegionDoneKept ==
  ASSUME Calm, FlashInv, FlowInv, Kept, RegionDone
  PROVE  Kept'
<1>1. /\ current = "flash" /\ fpc = "region_done" /\ FlashUnchanged
      /\ UNCHANGED <<flash_prog, ring, flash_ops, ev>>
      /\ queue' = Post(queue, "uart", "PROG_OK", 0) /\ fpc' = "idle" /\ current' = "none"
  BY DEF RegionDone, Flash, Yield
<1>2. RegionJob /\ ~Imaging /\ ~InProcess(ring) /\ ToTell = {} /\ InFlight = {} /\ Tidy(queue)
  BY <1>1, RegionUp, UpIs DEF FlowInv
<1>3. InFlight' = {}
  BY <1>1, <1>2, TellPosted
<1>4. ~RegionJob'
  BY <1>1, <1>3 DEF RegionJob, Woken
<1>5. ~Imaging'
  BY <1>1, <1>2, FlashSame DEF InProcess
<1>6. /\ flash_prog.total = host.size /\ flash_prog.total <= flash_prog.erase_size
      /\ flash_prog.erase_size \in Nat /\ host.offset \in Nat /\ host.size \in Nat
  BY <1>1, <1>2 DEF Kept, PlaceInv, RegionInv, FlashInv, HostOK
<1>7. ~failed => Fresh(host.offset, host.offset + host.size)
  <2>1. ~failed => Fresh(host.offset, host.offset + flash_prog.erase_size)
    BY <1>2 DEF Kept, CellsInv, RegionWiped
  <2>2. \A x \in Addr : x < host.offset + host.size => x < host.offset + flash_prog.erase_size
    BY <1>6 DEF Addr
  <2>3. QED
    BY <2>1, <2>2 DEF Fresh
<1>8. QED
  BY <1>1, <1>4, <1>5, <1>7, FlashKeep

(* Nothing happens to the blocks.                                           *)
LEMMA BlocksStay ==
  ASSUME FlowInv, Kept, current = "flash", FlashUnchanged, UNCHANGED <<flash_prog, ring>>,
         Imaging', fpc' \in {"sector_wait", "program_wait"} => flash_ops' = BlockOps
  PROVE  ImageInv'
<1>1. UNCHANGED <<buf, host, failed>> /\ Taken' = Taken /\ ImageInv
  BY FlashSame DEF InProcess, Kept, PlaceInv
<1>2. BlockOps' = BlockOps
  BY DEF BlockOps
<1>3. \A m : InRing(m) => InRing(m)'
  BY <1>1 DEF InRing, ImageOf
<1>4. QED
  BY <1>1, <1>2, <1>3 DEF ImageInv

(* The next block: its sector has to be erased, or has been.                *)
LEMMA NextBlockKept ==
  ASSUME Calm, FlashInv, FlowInv, Kept, NextBlock
  PROVE  Kept'
<1>1. /\ current = "flash" /\ fpc = "drain" /\ InProcess(ring) /\ current' = "none"
      /\ FlashUnchanged /\ UNCHANGED <<flash_prog, ring, ev>>
      /\ flash_ops' = BlockOps
      /\ \/ /\ ErasedAlready(flash_ops'.addr)
            /\ fpc' = "program_wait" /\ queue' = Post(queue, "program", "CONTINUE", 0)
         \/ /\ ~ErasedAlready(flash_ops'.addr)
            /\ fpc' = "sector_wait" /\ queue' = Post(queue, "erase", "CONTINUE", 0)
  BY DEF NextBlock, Flash, Yield, BlockOps
<1>2. Imaging
  BY <1>1, PhaseIs
<1>3. PICK t \in Worker : queue' = Post(queue, t, "CONTINUE", 0)
  BY <1>1 DEF Worker
<1>4. ~Replied' /\ ToTell' = ToTell
  BY <1>1, <1>3, OrderGiven
<1>5. /\ UNCHANGED <<buf, worker, flash, host, failed>> /\ Imaging'
      /\ \A x \in Worker : worker[x].pc = "idle" /\ ~Commanded(x)'
      /\ \A a, b : Fresh(a, b)' = Fresh(a, b)
  <2>1. UNCHANGED <<buf, worker, flash, host, failed, cmd>>
        /\ \A x \in Worker : worker[x].pc = "idle" /\ ~Commanded(x)'
        /\ \A a, b : Fresh(a, b)' = Fresh(a, b)
    BY <1>1, <1>4, FlashSame
  <2>2. Imaging'
    BY <1>1, <1>2, <2>1 DEF Imaging
  <2>3. QED
    BY <2>1, <2>2
<1>6. ImageInv'
  BY <1>1, <1>5, BlocksStay
<1>7. ~RegionJob'
  <2>1. InFlight' = {Order(t)} /\ Order(t) # Ask(0) /\ Ask(0)' = Ask(0)
    BY <1>1, <1>3, OrderGiven, EventsAre, EventsStay DEF Wakes
  <2>2. QED
    BY <1>1, <2>1 DEF RegionJob, Woken
<1>8. ASSUME ~failed PROVE \E k \in Nat : OnFlash(k)'
  <2>1. PICK k \in Nat : OnFlash(k)
    BY <1>2, <1>8 DEF Kept, CellsInv
  <2>2. ErasedAlready(flash_ops'.addr) <=> flash_prog.cnt < k
    <3>1. PICK o \in Nat : o = flash_prog.offset
      BY <1>2 DEF Kept, PlaceInv, ImageInv, FlashInv, HostOK
    <3>2. PICK c \in Nat : c = flash_prog.cnt
      BY <1>2 DEF Kept, PlaceInv, ImageInv
    <3>3. PICK B \in Nat \ {0} : B = LOAD_BLK_SIZE
      BY RingAssumption
    <3>4. PICK x \in Nat, y \in Nat : x = c * B /\ y = k * B /\ B * c = x
      BY <3>2, <3>3
    <3>5. (c < k => x + B <= y) /\ (k < c => y + B <= x) /\ (k = c => x = y)
      BY <3>3, <3>4, BlockTimes
    <3>6. c < k <=> x < y
      BY <3>3, <3>5
    <3>7. ErasedAlready(flash_ops'.addr) <=> o + y > o + x
      BY <1>1, <2>1, <3>1, <3>2, <3>3, <3>4 DEF ErasedAlready, BlockOps, OnFlash
    <3>8. QED
      BY <3>2, <3>6, <3>7
  <2>3. Progress' = 0 /\ Progress = 0
    <3>1. "program" \in Worker
      BY DEF Worker
    <3>2. worker'["program"].pc = "idle" /\ ~Replied'
      BY <1>4, <1>5, <3>1
    <3>3. QED
      BY <1>1, <3>2 DEF Progress
  <2>4. Done' = Done
    BY <1>1, <2>3 DEF Done
  <2>5. "erase" \in Worker
    BY DEF Worker
  <2>6. /\ fpc' = "program_wait" => flash_prog.cnt < k
        /\ fpc' = "sector_wait" => ~(flash_prog.cnt < k) /\ ~Commanded("erase")'
    BY <1>1, <1>5, <2>2, <2>5
  <2>7. OnFlash(k)'
    BY <1>1, <1>5, <2>1, <2>4, <2>6 DEF OnFlash
  <2>8. QED
    BY <2>7
<1>9. RegionOver' => RegionOver
  BY <1>1, <1>4, OverStays
<1>10. QED
  BY <1>1, <1>6, <1>7, <1>8, <1>9, FlashKeep

(* No block is ready.                                                       *)
LEMMA DrainedKept ==
  ASSUME FlashInv, FlowInv, Kept, Drained
  PROVE  Kept'
<1>1. /\ current = "flash" /\ fpc = "drain" /\ current' = "none" /\ fpc' = "idle"
      /\ FlashUnchanged /\ UNCHANGED <<queue, flash_prog, ring, flash_ops, ev>>
  BY DEF Drained, Flash, Yield
<1>2. InFlight' = InFlight /\ ToTell' = ToTell /\ InFlight = {}
  BY <1>1, UpIs DEF InFlight, ToTell, Contents
<1>3. /\ UNCHANGED <<flash, host, failed>> /\ (Imaging' => Imaging)
      /\ \A a, b : Fresh(a, b)' = Fresh(a, b)
  BY <1>1, FlashSame DEF InProcess
<1>4. ~RegionJob'
  BY <1>1, <1>2 DEF RegionJob, Woken
<1>5. Imaging' => ImageInv'
  BY <1>1, BlocksStay
<1>6. ~failed /\ Imaging' => \E k \in Nat : OnFlash(k)'
  <2>1. SUFFICES ASSUME ~failed, Imaging' PROVE \E k \in Nat : OnFlash(k)'
    OBVIOUS
  <2>2. PICK k \in Nat : OnFlash(k)
    BY <1>3, <2>1 DEF Kept, CellsInv
  <2>3. Done' = Done
    BY <1>1 DEF Done, Progress
  <2>4. OnFlash(k)'
    BY <1>1, <1>3, <2>2, <2>3 DEF OnFlash
  <2>5. QED
    BY <2>4
<1>7. RegionOver' => RegionOver
  BY <1>1, <1>2, OverStays
<1>8. QED
  BY <1>1, <1>4, <1>5, <1>6, <1>7, FlashKeep

(* The oldest block is done with: the ring holds what follows.              *)
LEMMA FreedInRing ==
  ASSUME FlashInv, InProcess(ring), ring' = SetBufFree(ring),
         UNCHANGED <<buf, host, failed>>, Taken' = Taken, Taken \in Nat,
         NEW m \in Nat, InRing(m),
         flash_prog'.cnt <= m + 1, ~failed => m + 1 = flash_prog'.cnt
  PROVE  InRing(m + 1)'
<1>1. PICK B \in Nat \ {0} : B = LOAD_BLK_SIZE
  BY RingAssumption
<1>2. PICK P \in Nat : P = m * LOAD_BLK_SIZE /\ (m + 1) * LOAD_BLK_SIZE = P + B
  BY <1>1, BlockTimes
<1>3. PICK n \in Int : n = Taken - P /\ Taken - (P + B) = n - B
  BY <1>1, <1>2
<1>4. Sound(ring)
  BY DEF FlashInv, RingOK
<1>5. PICK c \in BOOLEAN : c <=> (Taken = host.size)
  OBVIOUS
<1>6. Lined(ring, n, c) /\ Holds(ring, buf, ImageOf(host.gen), P)
  <2>1. Lined(ring, n, Taken = host.size) /\ Holds(ring, buf, ImageOf(host.gen), P)
    BY <1>2, <1>3 DEF InRing
  <2>2. QED
    BY <1>5, <2>1, LinedIff
<1>7. B \in 0 .. LOAD_BLK_SIZE
  BY <1>1
<1>8. Lined(ring', n - B, c)
  BY <1>1, <1>4, <1>6, <1>7, FreedLined
<1>9. Holds(ring', buf', ImageOf(host.gen), P + B)
  BY <1>1, <1>4, <1>6, <1>7, FreedHolds
<1>10. Lined(ring', n - B, Taken' = host'.size)
  BY <1>5, <1>8, LinedIff
<1>11. ((m + 1) * LOAD_BLK_SIZE)' = P + B /\ ImageOf(host.gen)' = ImageOf(host.gen)
  BY <1>2 DEF ImageOf
<1>12. QED
  BY <1>3, <1>9, <1>10, <1>11 DEF InRing

(* A block is over, programmed or not.                                      *)
LEMMA BlockOverKept ==
  ASSUME Calm, FlashInv, FlowInv, Kept, current = "flash", FlashUnchanged,
         fpc \in {"sector_wait", "program_wait"}, InProcess(ring),
         UNCHANGED <<flash_ops, ev>>, NEW e \in {"BUF_FREE", "PROG_ERR"}, BlockOver(e),
         NEW d \in {0, 1}, flash_prog' = [flash_prog EXCEPT !.cnt = @ + d],
         ~failed => d = 1 /\ fpc = "program_wait"
  PROVE  Kept'
<1>1. /\ ring' = SetBufFree(ring) /\ queue' = Post(queue, "uart", e, 0)
      /\ fpc' = "drain" /\ current' = current
  BY DEF BlockOver, Run
<1>2. ToTell = {} /\ InFlight = {} /\ Tidy(queue)
  BY UpIs DEF FlowInv
<1>3. InFlight' = {} /\ ToTell' = {Tell(e)}
  BY <1>1, <1>2, TellPosted
<1>4. Tell("PROG_OK") # Tell(e) /\ Tell("PROG_OK")' = Tell("PROG_OK")
  BY DEF Tell
<1>5. Imaging
  BY PhaseIs
<1>6. /\ UNCHANGED <<buf, worker, flash, host, failed>> /\ Taken' = Taken
      /\ \A x \in Worker : worker[x].pc = "idle" /\ Commanded(x)
      /\ \A a, b : Fresh(a, b)' = Fresh(a, b)
      /\ Replied
  BY FlashSame
<1>7. /\ ImageInv /\ ErasePlace /\ ProgramPlace
      /\ flash_prog.cnt \in Nat /\ Taken \in Nat /\ Taken \in 0 .. host.size
      /\ host.size \in Nat /\ host.offset \in Nat
  BY <1>5 DEF Kept, PlaceInv, ImageInv, FlashInv, HostOK
<1>8. /\ flash_prog'.offset = flash_prog.offset /\ flash_prog'.total = flash_prog.total
      /\ flash_prog'.erase_size = flash_prog.erase_size /\ flash_prog'.cnt = flash_prog.cnt + d
  BY DEF FlashInv, ImageOK
<1>9. PICK m \in Nat : InRing(m)
  BY <1>7 DEF ImageInv
<1>10. InRing(m + 1)'
  <2>1. flash_prog'.cnt <= m + 1 /\ (~failed => m + 1 = flash_prog'.cnt)
    BY <1>7, <1>8, <1>9 DEF InRing
  <2>2. QED
    BY <1>1, <1>6, <1>7, <1>9, <2>1, FreedInRing
<1>11. ImageInv'
  <2>1. m + 1 \in Nat /\ flash_prog'.cnt \in Nat
    BY <1>7, <1>8
  <2>2. QED
    BY <1>1, <1>6, <1>7, <1>8, <1>10, <2>1 DEF ImageInv
<1>12. ~RegionJob'
  BY <1>1, <1>3 DEF RegionJob, Woken
<1>13. RegionOver' => RegionOver
  BY <1>1, <1>3, <1>4, OverStays
<1>14. ASSUME ~failed PROVE \E k \in Nat : OnFlash(k)'
  <2>1. PICK k \in Nat : OnFlash(k)
    BY <1>5, <1>14 DEF Kept, CellsInv
  <2>2. d = 1 /\ fpc = "program_wait" /\ m = flash_prog.cnt
    BY <1>9, <1>14 DEF InRing
  <2>3. PICK B \in Nat \ {0} : B = LOAD_BLK_SIZE
    BY RingAssumption
  <2>4. PICK c \in Nat : c = flash_prog.cnt
    BY <1>7
  <2>5. PICK P \in Nat : P = c * LOAD_BLK_SIZE /\ (c + 1) * LOAD_BLK_SIZE = P + B
    BY <2>3, BlockTimes
  <2>6. PICK n \in Int : n = Taken - P
    BY <1>7, <2>5
  <2>7. /\ ring.ctrl[ring.head].size = (IF n < B THEN n ELSE B)
        /\ n < B => Taken = host.size
    <3>1. PICK z \in BOOLEAN : z <=> (Taken = host.size)
      OBVIOUS
    <3>2. Lined(ring, n, z)
      <4>1. Lined(ring, n, Taken = host.size)
        BY <1>9, <2>2, <2>4, <2>5, <2>6 DEF InRing
      <4>2. QED
        BY <3>1, <4>1, LinedIff
    <3>3. Sound(ring)
      BY DEF FlashInv, RingOK
    <3>4. QED
      BY <2>3, <3>1, <3>2, <3>3, HeadShare
  <2>8. Progress = flash_ops.size /\ flash_ops.size = ring.ctrl[ring.head].size
    <3>1. "program" \in Worker
      BY DEF Worker
    <3>2. worker["program"].pc = "idle"
      BY <1>6, <3>1
    <3>3. flash_ops.size = ring.ctrl[ring.head].size
      BY <1>7, <2>2 DEF ImageInv, BlockOps
    <3>4. QED
      BY <1>6, <2>2, <3>2, <3>3 DEF Progress
  <2>9. Done = P + (IF n < B THEN n ELSE B)
    BY <2>4, <2>5, <2>7, <2>8 DEF Done
  <2>10. Done' = P + B
    <3>1. Progress' = 0
      BY <1>1 DEF Progress
    <3>2. flash_prog'.cnt = c + 1 /\ LOAD_BLK_SIZE' = LOAD_BLK_SIZE
      BY <1>8, <2>2, <2>4
    <3>3. Done' = (c + 1) * LOAD_BLK_SIZE + 0
      BY <3>1, <3>2 DEF Done
    <3>4. QED
      BY <2>3, <2>5, <3>3
  <2>11. \A i \in 0 .. host.size - 1 : i < Done' => i < Done
    BY <1>7, <2>3, <2>5, <2>6, <2>7, <2>9, <2>10
  <2>12. \A x \in Addr : host.offset + Done' <= x => host.offset + Done <= x
    BY <1>7, <2>3, <2>5, <2>6, <2>9, <2>10 DEF Addr
  <2>13. flash_prog'.cnt <= k
    BY <1>7, <1>8, <2>1, <2>2 DEF OnFlash
  <2>14. Fresh(host.offset + Done', host.offset + flash_prog.erase_size)
    BY <2>1, <2>12 DEF OnFlash, Fresh
  <2>15. Fresh(host.offset + Done, host.offset + flash_prog.erase_size)'
    BY <1>6, <1>8, <2>14 DEF Fresh
  <2>16. \A i \in 0 .. host'.size - 1 : i < Done' => flash'[host'.offset + i] = Unit(host'.gen, i)
    BY <1>6, <2>1, <2>11 DEF OnFlash
  <2>17. OnFlash(k)'
    BY <1>1, <1>8, <2>1, <2>13, <2>15, <2>16 DEF OnFlash
  <2>18. QED
    BY <2>17
<1>15. QED
  BY <1>11, <1>12, <1>13, <1>14, FlashKeep

(* The sector of a block has been erased: the block can be programmed.      *)
LEMMA SectorErasedKept ==
  ASSUME Calm, FlashInv, FlowInv, Kept, SectorErased
  PROVE  Kept'
<1>1. /\ current = "flash" /\ fpc = "sector_wait" /\ FlashUnchanged
      /\ UNCHANGED <<flash_prog, flash_ops, ev>>
  BY DEF SectorErased, Flash, Run, Yield, WaitOn, BlockOver
<1>2. ev \in Results /\ InProcess(ring)
  <2>1. BlockJob
    BY <1>1 DEF BlockJob
  <2>2. QED
    BY <1>1, <2>1, UpIs DEF Waits, FlowInv, JobsOK
<1>3. ev.ev = "CONTINUE"
  BY <1>2, EventsAre
<1>4. CASE ev.data # 0
  <2>1. BlockOver("PROG_ERR")
    BY <1>3, <1>4 DEF SectorErased
  <2>2. failed
    <3>1. ev = Result(-1)
      BY <1>2, <1>4, EventsAre
    <3>2. QED
      BY <1>1, <3>1 DEF FlowInv, ErrorsOK, ErrorSomewhere, Waits
  <2>3. flash_prog' = [flash_prog EXCEPT !.cnt = @ + 0]
    BY <1>1 DEF FlashInv, ImageOK
  <2>4. QED
    BY <1>1, <1>2, <2>1, <2>2, <2>3, BlockOverKept
<1>5. CASE ev.data = 0
  <2>1. /\ queue' = Post(queue, "program", "CONTINUE", 0) /\ fpc' = "program_wait"
        /\ current' = "none" /\ ring' = ring
    BY <1>3, <1>5 DEF SectorErased, Yield
  <2>2. Imaging
    BY <1>2, PhaseIs
  <2>3. "program" \in Worker /\ "erase" \in Worker
    BY DEF Worker
  <2>4. ~Replied' /\ InFlight' = {Order("program")} /\ ToTell' = ToTell
    BY <1>1, <2>1, <2>3, OrderGiven
  <2>5. /\ UNCHANGED <<buf, worker, flash, host, failed, cmd>>
        /\ worker["program"].pc = "idle" /\ Commanded("erase")
        /\ \A a, b : Fresh(a, b)' = Fresh(a, b)
    BY <1>1, <2>3, FlashSame
  <2>6. ImageInv'
    <3>1. flash_ops = BlockOps
      BY <1>1, <2>2 DEF Kept, PlaceInv, ImageInv
    <3>2. Imaging'
      BY <2>1, <2>2, <2>5 DEF Imaging
    <3>3. QED
      BY <1>1, <2>1, <3>1, <3>2, BlocksStay
  <2>7. ~RegionJob'
    <3>1. Order("program") # Ask(0) /\ Ask(0)' = Ask(0)
      BY <2>3, EventsAre, EventsStay DEF Wakes
    <3>2. QED
      BY <2>1, <2>4, <3>1 DEF RegionJob, Woken
  <2>8. ASSUME ~failed PROVE \E k \in Nat : OnFlash(k)'
    <3>1. PICK k \in Nat : OnFlash(k)
      BY <2>2, <2>8 DEF Kept, CellsInv
    <3>2. flash_prog.cnt < k
      BY <1>1, <2>5, <3>1 DEF OnFlash
    <3>3. Progress' = 0 /\ Progress = 0
      BY <1>1, <2>1, <2>4, <2>5 DEF Progress
    <3>4. Done' = Done
      BY <1>1, <3>3 DEF Done
    <3>5. OnFlash(k)'
      BY <1>1, <2>1, <2>5, <3>1, <3>2, <3>4 DEF OnFlash
    <3>6. QED
      BY <3>5
  <2>9. RegionOver' => RegionOver
    BY <1>1, <2>1, <2>4, OverStays
  <2>10. QED
    BY <1>1, <2>6, <2>7, <2>8, <2>9, FlashKeep
<1>6. QED
  BY <1>4, <1>5

(* A block has been programmed, or has not.                                 *)
LEMMA BlockProgrammedKept ==
  ASSUME Calm, FlashInv, FlowInv, Kept, BlockProgrammed
  PROVE  Kept'
<1>1. /\ current = "flash" /\ fpc = "program_wait" /\ FlashUnchanged
      /\ UNCHANGED <<flash_ops, ev>>
  BY DEF BlockProgrammed, Flash, Run, Yield, WaitOn, BlockOver
<1>2. ev \in Results /\ InProcess(ring)
  <2>1. BlockJob
    BY <1>1 DEF BlockJob
  <2>2. QED
    BY <1>1, <2>1, UpIs DEF Waits, FlowInv, JobsOK
<1>3. ev.ev = "CONTINUE"
  BY <1>2, EventsAre
<1>4. /\ BlockOver(BlockEvent) /\ BlockEvent \in {"BUF_FREE", "PROG_ERR"}
      /\ flash_prog' = [flash_prog EXCEPT !.cnt = IF ev.data # 0 THEN @ ELSE @ + 1]
  BY <1>3 DEF BlockProgrammed, BlockEvent
<1>5. PICK d \in {0, 1} : /\ d = (IF ev.data # 0 THEN 0 ELSE 1)
                          /\ flash_prog' = [flash_prog EXCEPT !.cnt = @ + d]
  <2>1. CASE ev.data # 0
    BY <1>4, <2>1 DEF FlashInv, ImageOK
  <2>2. CASE ev.data = 0
    BY <1>4, <2>2
  <2>3. QED
    BY <2>1, <2>2
<1>6. ~failed => d = 1
  <2>1. ev.data # 0 => ev = Result(-1)
    BY <1>2, EventsAre
  <2>2. ev = Result(-1) => failed
    BY <1>1 DEF FlowInv, ErrorsOK, ErrorSomewhere, Waits
  <2>3. QED
    BY <1>5, <2>1, <2>2
<1>7. QED
  BY <1>1, <1>2, <1>4, <1>5, <1>6, BlockOverKept

(* flash_prog_process.                                                      *)
LEMMA FlashKept ==
  ASSUME Calm, FlashInv, FlowInv, Kept, FlashStep
  PROVE  Kept'
  BY IdleKept, ChipKept, RegionEraseKept, RegionErasedKept, RegionDoneKept, NextBlockKept,
     DrainedKept, SectorErasedKept, BlockProgrammedKept DEF FlashStep

-----------------------------------------------------------------------------
(* Addresses and sectors.                                                   *)

(* Division and remainder.                                                  *)
LEMMA DivIs ==
  ASSUME NEW B \in Nat \ {0}, NEW a \in Nat
  PROVE  a \div B \in Nat /\ a % B \in 0 .. B - 1 /\ a = (a \div B) * B + (a % B)
  OBVIOUS

(* A higher address is not in a lower sector.                               *)
LEMMA DivMonotonic ==
  ASSUME NEW B \in Nat \ {0}, NEW a \in Nat, NEW b \in Nat, a <= b
  PROVE  a \div B <= b \div B
<1>1. PICK p \in Nat, q \in Nat : p = a \div B /\ q = b \div B
  BY DivIs
<1>2. PICK r \in 0 .. B - 1, s \in 0 .. B - 1 : a = p * B + r /\ b = q * B + s
  BY <1>1, DivIs
<1>3. ASSUME q < p PROVE FALSE
  <2>1. PICK d \in Nat : p = q + 1 + d
    BY <1>3
  <2>2. p * B = q * B + B + d * B /\ d * B \in Nat /\ q * B \in Nat
    BY <2>1
  <2>3. QED
    BY <1>2, <2>2
<1>4. QED
  BY <1>1, <1>3

(* From an aligned address on, less than a sector is one sector.            *)
LEMMA DivSame ==
  ASSUME NEW B \in Nat \ {0}, NEW a \in Nat, NEW x \in Nat, a % B = 0, a <= x, x < a + B
  PROVE  x \div B = a \div B
<1>1. PICK p \in Nat, q \in Nat : p = a \div B /\ q = x \div B
  BY DivIs
<1>2. PICK s \in 0 .. B - 1 : s = x % B
  BY DivIs
<1>3. a = p * B /\ x = q * B + s
  <2>1. a = p * B + 0 /\ p * B \in Nat
    BY <1>1, DivIs
  <2>2. QED
    BY <1>1, <1>2, <2>1, DivIs
<1>4. p <= q
  BY <1>1, DivMonotonic
<1>5. ASSUME p < q PROVE FALSE
  <2>1. PICK d \in Nat : q = p + 1 + d
    BY <1>5
  <2>2. q * B = p * B + B + d * B /\ d * B \in Nat /\ p * B \in Nat
    BY <2>1
  <2>3. QED
    BY <1>3, <2>2
<1>6. QED
  BY <1>1, <1>4, <1>5

(* A size that is a multiple of a sector.                                   *)
LEMMA WholeSectors ==
  ASSUME NEW s \in Nat \ {0}, s % LOAD_BLK_SIZE = 0
  PROVE  \E j \in Nat \ {0} : s = j * LOAD_BLK_SIZE
<1>1. PICK B \in Nat \ {0} : B = LOAD_BLK_SIZE
  BY RingAssumption
<1>2. PICK j \in Nat : j = s \div B
  BY DivIs
<1>3. s = j * B + 0 /\ j * B \in Nat
  BY <1>1, <1>2, DivIs
<1>4. j # 0
  BY <1>3
<1>5. QED
  BY <1>1, <1>3, <1>4

(* An erasure is of whole sectors, and of one only if more would not fit.   *)
LEMMA EraseSizeFits ==
  ASSUME NEW a \in Nat, NEW r \in Int
  PROVE  /\ \E j \in Nat \ {0} : EraseSize(a, r) = j * LOAD_BLK_SIZE
         /\ r > 0 => EraseSize(a, r) = LOAD_BLK_SIZE \/ EraseSize(a, r) <= r
<1>1. PICK B \in Nat \ {0} : B = LOAD_BLK_SIZE
  BY RingAssumption
<1>2. PICK m \in Nat \ {0}, l \in Nat \ {0} : m = SPIROM_BLK32_SIZE /\ l = SPIROM_BLK64_SIZE
  BY FlashAssumption
<1>3. /\ \E j \in Nat \ {0} : m = j * LOAD_BLK_SIZE
      /\ \E j \in Nat \ {0} : l = j * LOAD_BLK_SIZE
  BY <1>2, WholeSectors, FlashAssumption
<1>4. \E j \in Nat \ {0} : B = j * LOAD_BLK_SIZE
  <2>1. B = 1 * B
    OBVIOUS
  <2>2. QED
    BY <1>1, <2>1
<1>5. /\ EraseSize(a, r) \in {B, m, l}
      /\ EraseSize(a, r) # B => r >= EraseSize(a, r) \/ r < 0
  BY <1>1, <1>2 DEF EraseSize, SPIROM_SECTOR_SIZE
<1>6. \E j \in Nat \ {0} : EraseSize(a, r) = j * LOAD_BLK_SIZE
  BY <1>3, <1>4, <1>5
<1>7. r > 0 => EraseSize(a, r) = LOAD_BLK_SIZE \/ EraseSize(a, r) <= r
  BY <1>1, <1>2, <1>5
<1>8. QED
  BY <1>6, <1>7

-----------------------------------------------------------------------------
(* The workers.                                                             *)

(* What a step of a worker leaves alone.                                    *)
LEMMA WorkerSame ==
  ASSUME Calm, FlashInv, FlowInv, NEW t \in Worker, current = t, Worked(t), WorkerUnchanged
  PROVE  /\ UNCHANGED <<upc, error, cmd, mem, ring, buf, fpc, flash_ops, chip_erase, host>>
         /\ Taken' = Taken /\ (Imaging' <=> Imaging) /\ (RegionJob' => RegionJob)
         /\ ~RegionOver'
         /\ t = Helper /\ fpc \in Waits /\ ~Replied
         /\ \A x \in Worker \ {t} : worker[x].pc = "idle" /\ worker'[x] = worker[x]
         /\ Replied' => worker'[t].pc = "idle"
         /\ worker'[t].pc = "idle" /\ ~failed' => Replied'
         /\ failed => failed'
<1>1. UNCHANGED <<upc, error, cmd, mem, ring, buf, fpc, flash_ops, chip_erase, host>>
  BY DEF WorkerUnchanged, loader, programmer, outside
<1>2. Taken' = Taken /\ (Imaging' <=> Imaging)
  BY <1>1 DEF Taken, Ending, Imaging, InProcess
<1>3. /\ t = Helper /\ fpc \in Waits /\ ~Replied /\ InFlight = {} /\ ToTell = {}
      /\ \A x \in Worker \ {t} : worker[x].pc = "idle"
  BY HelperIs
<1>4. \A x \in Worker \ {t} : worker'[x] = worker[x]
  BY DEF Worked, OtherWorker
<1>5. /\ t \notin {"none", "uart", "flash"} /\ Result(0)' = Result(0)
      /\ Result(0) \notin Tells /\ Result(0) \notin Wakes /\ Result(-1) \notin Wakes
      /\ Tell("PROG_OK")' = Tell("PROG_OK") /\ Ask(0)' = Ask(0) /\ Ask(0) \in Wakes
  BY EventsAre, EventsStay DEF Wakes
<1>6. current' \in {t, "none"} /\ (failed => failed')
  <2>1. current' \in {t, "none"}
    BY DEF Worked, Onward, Again, Over
  <2>2. \A r : Over(t, r) => (failed => failed')
    BY DEF Over
  <2>3. failed => failed'
    BY <2>2 DEF Worked, Onward, Again
  <2>4. QED
    BY <2>1, <2>3
<1>7. ~OkTold' /\ Ask(0) \notin InFlight' /\ (Replied' => worker'[t].pc = "idle")
      /\ (worker'[t].pc = "idle" /\ ~failed' => Replied')
  <2>1. CASE queue' = queue /\ worker'[t].pc # "idle"
    <3>1. InFlight' = {} /\ ToTell' = {}
      BY <1>3, <2>1 DEF InFlight, ToTell, Contents
    <3>2. ~Replied'
      BY <1>5, <1>6, <3>1 DEF Replied
    <3>3. QED
      BY <1>5, <1>6, <2>1, <3>1, <3>2 DEF OkTold
  <2>2. ASSUME NEW r \in {0, -1}, Over(t, r)
        PROVE  ~OkTold' /\ Ask(0) \notin InFlight' /\ worker'[t].pc = "idle"
               /\ (~failed' => Replied')
    <3>1. /\ queue' = Post(queue, "flash", "CONTINUE", r) /\ worker'[t].pc = "idle"
          /\ failed' = (failed \/ r # 0)
      BY <2>2 DEF Over
    <3>2. InFlight' = {Result(r)} /\ ToTell' = {}
      BY <1>3, <3>1, ResultPosted DEF FlowInv
    <3>3. ~failed' => r = 0
      BY <3>1
    <3>4. QED
      BY <1>5, <1>6, <3>1, <3>2, <3>3 DEF OkTold, Replied
  <2>3. QED
    BY <2>1, <2>2 DEF Worked, Onward, Again
<1>8. RegionJob' => RegionJob
  BY <1>1, <1>3, <1>5, <1>6, <1>7 DEF RegionJob, Woken
<1>9. ~RegionOver'
  <2>1. ~Still
    BY <1>5 DEF Still, AllRest, Resting
  <2>2. host.phase \notin {"erased"} /\ ~(host.phase = "erasing" /\ upc = "reply" /\ ~error)
    BY <2>1 DEF FlowInv, QuietOK
  <2>3. QED
    BY <1>1, <1>7, <2>2 DEF RegionOver
<1>10. QED
  BY <1>1, <1>2, <1>3, <1>4, <1>6, <1>7, <1>8, <1>9

(* Where the device is while a worker is at a label.                        *)
DevAt(l) ==
  CASE l \in {"read_latch", "latch_wait", "command", "read_chip", "chip_wait"} -> "latched"
    [] l \in {"read_busy", "busy_wait"} -> "busy"
    [] OTHER -> "ready"

(* The device is in tune with the worker that is at work.                   *)
LEMMA Tuned ==
  ASSUME NEW t \in Worker, \A x \in Worker \ {t} : worker[x].pc = "idle",
         worker[t].pc \in WorkerLabel
  PROVE  InTune <=> dev = DevAt(worker[t].pc)
<1>1. ASSUME InTune PROVE dev = DevAt(worker[t].pc)
  BY <1>1 DEF InTune, DevAt, WorkerLabel
<1>2. ASSUME dev = DevAt(worker[t].pc) PROVE InTune
  BY <1>2 DEF InTune, DevAt, WorkerLabel
<1>3. QED
  BY <1>1, <1>2

(* How far the worker has come.                                             *)
LEMMA Reach ==
  ASSUME Calm, FlashInv, FlowInv, NEW t \in Worker, current = t, Worked(t), WorkerUnchanged
  PROVE  /\ Commanded(t) <=> worker[t].pc \in {"read_busy", "busy_wait"}
         /\ ~failed' => (Commanded(t)' <=> worker'[t].pc \in {"read_busy", "busy_wait", "idle"})
         /\ t = "erase" => fpc # "program_wait" /\ Progress = 0 /\ Progress' = 0
         /\ t = "program" =>
              /\ fpc = "program_wait"
              /\ Progress = (IF worker[t].pc = "idle" THEN 0
                             ELSE IF Commanded(t) THEN worker[t].pos + 1 ELSE worker[t].pos)
              /\ ~failed' =>
                   Progress' = (IF worker'[t].pc = "idle" THEN flash_ops.size
                                ELSE IF Commanded(t)' THEN worker'[t].pos + 1 ELSE worker'[t].pos)
<1>1. /\ UNCHANGED <<fpc, flash_ops>> /\ ~Replied
      /\ Replied' => worker'[t].pc = "idle"
      /\ worker'[t].pc = "idle" /\ ~failed' => Replied'
  BY WorkerSame
<1>2. /\ t = "program" <=> fpc = "program_wait"
      /\ t \in {"erase", "program"} /\ t \notin {"none", "uart", "flash"}
  BY HelperIs DEF Worker
<1>3. Commanded(t) <=> worker[t].pc \in {"read_busy", "busy_wait"}
  BY <1>1 DEF Commanded
<1>4. ~failed' => (Commanded(t)' <=> worker'[t].pc \in {"read_busy", "busy_wait", "idle"})
  BY <1>1 DEF Commanded
<1>5. t = "erase" => fpc # "program_wait" /\ Progress = 0 /\ Progress' = 0
  BY <1>1, <1>2 DEF Progress
<1>6. ASSUME t = "program"
      PROVE  /\ fpc = "program_wait"
             /\ Progress = (IF worker[t].pc = "idle" THEN 0
                            ELSE IF Commanded(t) THEN worker[t].pos + 1 ELSE worker[t].pos)
             /\ ~failed' =>
                  Progress' = (IF worker'[t].pc = "idle" THEN flash_ops.size
                               ELSE IF Commanded(t)' THEN worker'[t].pos + 1 ELSE worker'[t].pos)
  BY <1>1, <1>2, <1>6 DEF Progress
<1>7. QED
  BY <1>3, <1>4, <1>5, <1>6

(* The blocks and the region are where they were.                           *)
LEMMA WorkerPlace ==
  ASSUME Calm, FlashInv, FlowInv, PlaceInv,
         NEW t \in Worker, current = t, Worked(t), WorkerUnchanged,
         flash_prog'.offset = flash_prog.offset, flash_prog'.total = flash_prog.total,
         flash_prog'.cnt = flash_prog.cnt, RegionJob => flash_prog'.erase_size \in Nat,
         ErasePlace', ProgramPlace'
  PROVE  PlaceInv'
<1>1. /\ UNCHANGED <<ring, buf, fpc, flash_ops, host>>
      /\ Taken' = Taken /\ (Imaging' => Imaging) /\ (RegionJob' => RegionJob)
      /\ fpc \in Waits /\ (failed => failed')
  BY WorkerSame
<1>2. ASSUME Imaging' PROVE ImageInv'
  <2>1. ImageInv
    BY <1>1, <1>2 DEF PlaceInv
  <2>2. \A m : InRing(m) => InRing(m)'
    BY <1>1 DEF InRing, ImageOf
  <2>3. BlockOps' = BlockOps
    BY <1>1 DEF BlockOps
  <2>4. QED
    BY <1>1, <2>1, <2>2, <2>3 DEF ImageInv
<1>3. ASSUME RegionJob' PROVE RegionInv'
  <2>1. fpc \notin {"idle", "region", "region_done"}
    BY <1>1 DEF Waits
  <2>2. QED
    BY <1>1, <1>3, <2>1 DEF PlaceInv, RegionInv
<1>4. InFlash'
  BY <1>1 DEF PlaceInv, InFlash
<1>5. QED
  BY <1>2, <1>3, <1>4 DEF PlaceInv

(* A worker does something to the flash, or gives its answer.               *)
LEMMA WorkerCells ==
  ASSUME Calm, FlashInv, FlowInv, Kept, PlaceInv',
         NEW t \in Worker, current = t, Worked(t), WorkerUnchanged,
         ~failed' => /\ dev = DevAt(worker[t].pc) => dev' = DevAt(worker'[t].pc)
                     /\ worker'[t].pc \in WorkerLabel
                     /\ \A a \in Addr : flash'[a] # Garbage
                     /\ Imaging => \E k \in Nat : OnFlash(k)'
                     /\ RegionJob => RegionWiped'
  PROVE  Kept'
<1>1. /\ UNCHANGED host /\ (Imaging' => Imaging) /\ (RegionJob' => RegionJob) /\ ~RegionOver'
      /\ \A x \in Worker \ {t} : worker[x].pc = "idle" /\ worker'[x] = worker[x]
      /\ (failed => failed')
  BY WorkerSame
<1>2. ASSUME ~failed' PROVE CellsInv'
  <2>1. CellsInv
    BY <1>1, <1>2 DEF Kept
  <2>2. worker[t].pc \in WorkerLabel
    BY DEF FlashInv, WorkerOK
  <2>3. dev = DevAt(worker[t].pc)
    BY <1>1, <2>1, <2>2, Tuned DEF CellsInv
  <2>4. dev' = DevAt(worker'[t].pc)
    BY <1>2, <2>3
  <2>5. InTune'
    <3>1. \A x \in Worker \ {t} : worker'[x].pc = "idle"
      BY <1>1
    <3>2. worker'[t].pc \in WorkerLabel
      BY <1>2
    <3>3. QED
      BY <2>4, <3>1, <3>2 DEF InTune, DevAt, WorkerLabel
  <2>6. QED
    BY <1>1, <1>2, <2>1, <2>5 DEF CellsInv
<1>3. QED
  BY <1>2 DEF Kept

(* A worker only waits for the device or looks at it.                       *)
LEMMA WorkerLooks ==
  ASSUME Calm, FlashInv, FlowInv, Kept, PlaceInv',
         NEW t \in Worker, current = t, Worked(t), WorkerUnchanged,
         UNCHANGED <<flash_prog, flash>>,
         ~failed' => /\ dev = DevAt(worker[t].pc) => dev' = DevAt(worker'[t].pc)
                     /\ worker'[t].pc \in WorkerLabel
                     /\ t = "erase" => (Commanded(t)' <=> Commanded(t))
                     /\ t = "program" => Progress' = Progress
  PROVE  Kept'
<1>1. /\ UNCHANGED <<host, fpc, flash_ops>> /\ (failed => failed')
  BY WorkerSame
<1>2. /\ t = "program" <=> fpc = "program_wait"
      /\ t \in {"erase", "program"}
  BY HelperIs DEF Worker
<1>3. ASSUME ~failed'
      PROVE  /\ Imaging => \E k \in Nat : OnFlash(k)'
             /\ RegionJob => RegionWiped'
  <2>1. CellsInv
    BY <1>1, <1>3 DEF Kept
  <2>2. Progress' = Progress
    BY <1>2, <1>3, Reach
  <2>3. Done' = Done
    BY <2>2 DEF Done
  <2>4. fpc \in {"sector_wait", "region_wait"} => (Commanded("erase")' <=> Commanded("erase"))
    BY <1>2, <1>3
  <2>5. \A a, b : Fresh(a, b)' = Fresh(a, b)
    BY DEF Fresh
  <2>6. \A k \in Nat : OnFlash(k) => OnFlash(k)'
    BY <1>1, <2>3, <2>4, <2>5 DEF OnFlash
  <2>7. RegionWiped => RegionWiped'
    BY <1>1, <2>4, <2>5 DEF RegionWiped
  <2>8. QED
    BY <2>1, <2>6, <2>7 DEF CellsInv
<1>4. ~failed' => \A a \in Addr : flash'[a] # Garbage
  BY <1>1 DEF Kept, CellsInv
<1>5. QED
  BY <1>3, <1>4, WorkerCells

(* A worker goes on to another label, and nowhere else.                     *)
LEMMA LabelKept ==
  ASSUME Calm, FlashInv, FlowInv, Kept,
         NEW t \in Worker, current = t, Worked(t), WorkerUnchanged,
         UNCHANGED <<flash_prog, flash>>, worker[t].pc # "idle",
         worker'[t].addr = worker[t].addr, worker'[t].remain = worker[t].remain,
         worker'[t].buf = worker[t].buf, worker'[t].pos = worker[t].pos,
         worker'[t].pc \in WorkerLabel,
         ~failed' => /\ dev = DevAt(worker[t].pc) => dev' = DevAt(worker'[t].pc)
                     /\ worker'[t].pc \in {"read_busy", "busy_wait", "idle"} <=>
                          worker[t].pc \in {"read_busy", "busy_wait"}
                     /\ worker'[t].pc = "idle" /\ t = "program" => worker[t].remain = 1
  PROVE  Kept'
<1>1. /\ UNCHANGED <<fpc, flash_ops>> /\ t \in {"erase", "program"}
      /\ \A x \in Worker \ {t} : worker'[x] = worker[x]
      /\ "erase" \in Worker /\ "program" \in Worker
  BY WorkerSame DEF Worker
<1>2. ErasePlace' /\ ProgramPlace'
  <2>1. /\ worker'["erase"].pc # "idle" => worker["erase"].pc # "idle"
        /\ worker'["program"].pc # "idle" => worker["program"].pc # "idle"
        /\ worker'["erase"].addr = worker["erase"].addr
        /\ worker'["program"].addr = worker["program"].addr
        /\ worker'["program"].remain = worker["program"].remain
        /\ worker'["program"].buf = worker["program"].buf
        /\ worker'["program"].pos = worker["program"].pos
    BY <1>1
  <2>2. QED
    BY <1>1, <2>1 DEF Kept, PlaceInv, ErasePlace, ProgramPlace
<1>3. PlaceInv'
  <2>1. RegionJob => flash_prog'.erase_size \in Nat
    BY DEF Kept, PlaceInv, RegionInv
  <2>2. QED
    BY <1>2, <2>1, WorkerPlace DEF Kept
<1>4. ASSUME ~failed', t = "erase" PROVE Commanded(t)' <=> Commanded(t)
  BY <1>4, Reach
<1>5. ASSUME ~failed', t = "program" PROVE Progress' = Progress
  <2>1. Commanded(t)' <=> Commanded(t)
    BY <1>5, Reach
  <2>2. /\ worker["program"].pos + worker["program"].remain = flash_ops.size
        /\ worker["program"].pos \in Nat
    BY <1>5 DEF Kept, PlaceInv, ProgramPlace, FlashInv, WorkerOK
  <2>3. worker'[t].pc = "idle" => Commanded(t) /\ worker[t].remain = 1
    BY <1>5, Reach
  <2>4. Progress = (IF Commanded(t) THEN worker[t].pos + 1 ELSE worker[t].pos)
    BY <1>5, Reach
  <2>5. Progress' = (IF worker'[t].pc = "idle" THEN flash_ops.size
                     ELSE IF Commanded(t)' THEN worker'[t].pos + 1 ELSE worker'[t].pos)
    BY <1>5, Reach
  <2>6. CASE worker'[t].pc = "idle"
    BY <1>5, <2>2, <2>3, <2>4, <2>5, <2>6
  <2>7. CASE worker'[t].pc # "idle"
    BY <2>1, <2>4, <2>5, <2>7
  <2>8. QED
    BY <2>6, <2>7
<1>6. QED
  BY <1>3, <1>4, <1>5, WorkerLooks

(* Who does what: the worker of a step, and how it ends.                    *)
LEMMA StepWorker ==
  ASSUME FlashInv, WorkerStep, NEW t \in Worker, current = t
  PROVE  Worked(t) /\ WorkerUnchanged
<1>1. PICK x \in Worker : current = x /\ Worked(x)
  BY WorkIs
<1>2. QED
  BY <1>1, WorkIs

(* A worker's record, when only its label and its counter change.           *)
LEMMA LabelOnly ==
  ASSUME FlashInv, NEW t \in Worker, NEW l, NEW j,
         \/ worker' = [worker EXCEPT ![t].pc = l, ![t].j = j]
         \/ worker' = [worker EXCEPT ![t].pc = l]
  PROVE  /\ worker'[t].pc = l
         /\ worker'[t].addr = worker[t].addr /\ worker'[t].remain = worker[t].remain
         /\ worker'[t].buf = worker[t].buf /\ worker'[t].pos = worker[t].pos
  BY DEF FlashInv, WorkerOK

(* Finish, seen from the worker,                                            *)
LEMMA FinishOnly ==
  ASSUME FlashInv, NEW t \in Worker, NEW r \in {0, -1}, Finish(t, r)
  PROVE  /\ worker'[t].pc = "idle" /\ (r = -1 => failed')
         /\ worker'[t].addr = worker[t].addr /\ worker'[t].remain = worker[t].remain
         /\ worker'[t].buf = worker[t].buf /\ worker'[t].pos = worker[t].pos
<1>1. worker' = [worker EXCEPT ![t].pc = "idle"] /\ failed' = (failed \/ r # 0)
  BY DEF Finish, Goto
<1>2. r = -1 => r # 0
  OBVIOUS
<1>3. r # 0 => failed'
  BY <1>1
<1>4. QED
  BY <1>1, <1>2, <1>3, LabelOnly

(* ... and PollAgain.                                                       *)
LEMMA PollOnly ==
  ASSUME FlashInv, NEW t \in Worker, NEW l, PollAgain(t, l)
  PROVE  /\ worker'[t].pc = l
         /\ worker'[t].addr = worker[t].addr /\ worker'[t].remain = worker[t].remain
         /\ worker'[t].buf = worker[t].buf /\ worker'[t].pos = worker[t].pos
<1>1. worker' = [worker EXCEPT ![t].pc = l]
  BY DEF PollAgain, Goto
<1>2. QED
  BY <1>1, LabelOnly

(* Enabling and looking at the latch.                                       *)
LEMMA LatchKept ==
  ASSUME Calm, FlashInv, FlowInv, Kept, WorkerStep, NEW t \in Worker,
         WriteEnable(t) \/ ReadLatch(t)
  PROVE  Kept'
<1>1. /\ current = t /\ UNCHANGED <<flash_prog, flash>>
      /\ worker[t].pc \in {"wren", "read_latch"}
  BY DEF WriteEnable, ReadLatch, Working
<1>2. Worked(t) /\ WorkerUnchanged
  BY <1>1, StepWorker
<1> DEFINE Same == /\ worker'[t].addr = worker[t].addr /\ worker'[t].remain = worker[t].remain
                   /\ worker'[t].buf = worker[t].buf /\ worker'[t].pos = worker[t].pos
<1>3. CASE WriteEnable(t)
  <2>1. \/ /\ worker' = [worker EXCEPT ![t].pc = "read_latch", ![t].j = 1]
           /\ dev = "ready" => dev' = "latched"
        \/ Finish(t, -1)
    BY <1>3 DEF WriteEnable
  <2>2. /\ Same
        /\ \/ worker'[t].pc = "read_latch" /\ (dev = "ready" => dev' = "latched")
           \/ worker'[t].pc = "idle" /\ failed'
    BY <2>1, LabelOnly, FinishOnly
  <2>3. worker[t].pc = "wren"
    BY <1>3 DEF WriteEnable, Working
  <2> HIDE DEF Same
  <2>4. worker'[t].pc \in WorkerLabel
    BY <2>2 DEF WorkerLabel
  <2>5. ~failed' => /\ dev = DevAt(worker[t].pc) => dev' = DevAt(worker'[t].pc)
                    /\ worker'[t].pc \in {"read_busy", "busy_wait", "idle"} <=>
                         worker[t].pc \in {"read_busy", "busy_wait"}
                    /\ worker'[t].pc # "idle"
    BY <2>2, <2>3 DEF DevAt
  <2>6. QED
    BY <1>1, <1>2, <2>2, <2>3, <2>4, <2>5, LabelKept DEF Same
<1>4. CASE ReadLatch(t)
  <2>1. /\ dev' = dev /\ worker[t].pc = "read_latch"
        /\ \/ worker' = [worker EXCEPT ![t].pc = "command"]
           \/ PollAgain(t, "latch_wait")
           \/ Finish(t, -1)
    BY <1>4 DEF ReadLatch, Working, GoOn, Goto
  <2>2. /\ Same
        /\ \/ worker'[t].pc \in {"command", "latch_wait"}
           \/ worker'[t].pc = "idle" /\ failed'
    <3>1. CASE worker' = [worker EXCEPT ![t].pc = "command"]
      BY <3>1, LabelOnly
    <3>2. CASE PollAgain(t, "latch_wait")
      BY <3>2, PollOnly
    <3>3. CASE Finish(t, -1)
      BY <3>3, FinishOnly
    <3>4. QED
      BY <2>1, <3>1, <3>2, <3>3
  <2> HIDE DEF Same
  <2>3. worker'[t].pc \in WorkerLabel
    BY <2>2 DEF WorkerLabel
  <2>4. ~failed' => /\ dev = DevAt(worker[t].pc) => dev' = DevAt(worker'[t].pc)
                    /\ worker'[t].pc \in {"read_busy", "busy_wait", "idle"} <=>
                         worker[t].pc \in {"read_busy", "busy_wait"}
                    /\ worker'[t].pc # "idle"
    BY <2>1, <2>2 DEF DevAt
  <2>5. QED
    BY <1>1, <1>2, <2>1, <2>2, <2>3, <2>4, LabelKept DEF Same
<1>5. QED
  BY <1>3, <1>4

(* Back from the wait for a poll.                                           *)
LEMMA ResumeKept ==
  ASSUME Calm, FlashInv, FlowInv, Kept, WorkerStep, NEW t \in Worker, NEW wait, NEW read,
         Resume(t, wait, read),
         <<wait, read>> \in {<<"latch_wait", "read_latch">>, <<"busy_wait", "read_busy">>,
                             <<"chip_wait", "read_chip">>}
  PROVE  Kept'
<1>1. /\ current = t /\ UNCHANGED <<flash_prog, flash, dev>> /\ worker[t].pc = wait
      /\ \/ worker' = [worker EXCEPT ![t].pc = read, ![t].j = @ + 1]
         \/ Finish(t, -1)
  BY DEF Resume, Working, device
<1>2. Worked(t) /\ WorkerUnchanged
  BY <1>1, StepWorker
<1>3. /\ worker'[t].addr = worker[t].addr /\ worker'[t].remain = worker[t].remain
      /\ worker'[t].buf = worker[t].buf /\ worker'[t].pos = worker[t].pos
      /\ worker'[t].pc = read \/ (worker'[t].pc = "idle" /\ failed')
  <2>1. CASE worker' = [worker EXCEPT ![t].pc = read, ![t].j = @ + 1]
    <3>1. PICK j : worker' = [worker EXCEPT ![t].pc = read, ![t].j = j]
      BY <2>1
    <3>2. QED
      BY <3>1, LabelOnly
  <2>2. CASE Finish(t, -1)
    BY <2>2, FinishOnly
  <2>3. QED
    BY <1>1, <2>1, <2>2
<1>4. /\ wait # "idle" /\ read # "idle" /\ read \in WorkerLabel
      /\ DevAt(wait) = DevAt(read)
      /\ read \in {"read_busy", "busy_wait", "idle"} <=> wait \in {"read_busy", "busy_wait"}
  BY DEF DevAt, WorkerLabel
<1>5. worker'[t].pc \in WorkerLabel
  BY <1>3, <1>4 DEF WorkerLabel
<1>6. ~failed' => /\ dev = DevAt(worker[t].pc) => dev' = DevAt(worker'[t].pc)
                  /\ worker'[t].pc \in {"read_busy", "busy_wait", "idle"} <=>
                       worker[t].pc \in {"read_busy", "busy_wait"}
                  /\ worker'[t].pc # "idle"
  BY <1>1, <1>3, <1>4
<1>7. QED
  BY <1>1, <1>2, <1>3, <1>4, <1>5, <1>6, LabelKept

(* The chip's erasure, which is no command.                                 *)
LEMMA ChipCommandKept ==
  ASSUME Calm, FlashInv, FlowInv, Kept, WorkerStep, ChipCommand
  PROVE  Kept'
<1>1. /\ current = "erase" /\ UNCHANGED <<flash_prog, flash, dev>> /\ worker["erase"].pc = "command"
      /\ worker' = [worker EXCEPT !["erase"].pc = "read_chip", !["erase"].j = 1]
      /\ "erase" \in Worker
  BY DEF ChipCommand, Working, device, Worker
<1>2. Worked("erase") /\ WorkerUnchanged
  BY <1>1, StepWorker
<1>3. /\ worker'["erase"].addr = worker["erase"].addr
      /\ worker'["erase"].remain = worker["erase"].remain
      /\ worker'["erase"].buf = worker["erase"].buf /\ worker'["erase"].pos = worker["erase"].pos
      /\ worker'["erase"].pc = "read_chip"
  BY <1>1, LabelOnly
<1>4. DevAt("command") = DevAt("read_chip") /\ "read_chip" \in WorkerLabel
  BY DEF DevAt, WorkerLabel
<1>5. QED
  BY <1>1, <1>2, <1>3, <1>4, LabelKept

(* The status of the erasure of a sector or region.                         *)
LEMMA EraseReadKept ==
  ASSUME Calm, FlashInv, FlowInv, Kept, WorkerStep, EraseRead
  PROVE  Kept'
<1>1. /\ current = "erase" /\ UNCHANGED <<flash_prog, flash>> /\ worker["erase"].pc = "read_busy"
      /\ \/ PollAgain("erase", "busy_wait") /\ dev' = dev
         \/ Finish("erase", 0) /\ dev' = "ready"
         \/ Finish("erase", -1)
      /\ "erase" \in Worker
  BY DEF EraseRead, Working, StillBusy, NowReady, Worker
<1>2. Worked("erase") /\ WorkerUnchanged
  BY <1>1, StepWorker
<1>3. /\ worker'["erase"].addr = worker["erase"].addr
      /\ worker'["erase"].remain = worker["erase"].remain
      /\ worker'["erase"].buf = worker["erase"].buf /\ worker'["erase"].pos = worker["erase"].pos
      /\ \/ worker'["erase"].pc = "busy_wait" /\ dev' = dev
         \/ worker'["erase"].pc = "idle" /\ dev' = "ready"
         \/ worker'["erase"].pc = "idle" /\ failed'
  BY <1>1, FinishOnly, PollOnly
<1>4. /\ DevAt("read_busy") = "busy" /\ DevAt("busy_wait") = "busy" /\ DevAt("idle") = "ready"
      /\ "busy_wait" \in WorkerLabel /\ "idle" \in WorkerLabel
  BY DEF DevAt, WorkerLabel
<1>5. QED
  BY <1>1, <1>2, <1>3, <1>4, LabelKept

(* The start of an erasure: where flash_ops says.                           *)
LEMMA EraseStartKept ==
  ASSUME Calm, FlashInv, FlowInv, Kept, WorkerStep, EraseStart
  PROVE  Kept'
<1>1. /\ current = "erase" /\ worker["erase"].pc = "idle" /\ UNCHANGED <<flash_prog, flash, dev>>
      /\ "erase" \in Worker /\ "program" \in Worker
  BY DEF EraseStart, Working, device, Worker
<1>2. Worked("erase") /\ WorkerUnchanged
  BY <1>1, StepWorker
<1>3. /\ ev = Order("erase") /\ ev.ev = "CONTINUE"
      /\ UNCHANGED <<fpc, flash_ops>> /\ worker'["program"] = worker["program"]
      /\ (failed => failed')
  BY <1>1, <1>2, HelperIs, WorkerSame, EventsAre DEF Worker
<1>4. \/ Finish("erase", -1)
      \/ /\ flash_ops.addr % LOAD_BLK_SIZE = 0
         /\ worker' = [worker EXCEPT !["erase"].addr = flash_ops.addr, !["erase"].pc = "wren"]
  BY <1>3 DEF EraseStart, SPIROM_SECTOR_SIZE
<1>5. \/ worker'["erase"].pc = "idle" /\ failed'
      \/ /\ flash_ops.addr % LOAD_BLK_SIZE = 0
         /\ worker'["erase"].pc = "wren" /\ worker'["erase"].addr = flash_ops.addr
  <2>1. CASE Finish("erase", -1)
    BY <1>1, <2>1, FinishOnly
  <2>2. CASE /\ flash_ops.addr % LOAD_BLK_SIZE = 0
             /\ worker' = [worker EXCEPT !["erase"].addr = flash_ops.addr, !["erase"].pc = "wren"]
    BY <1>1, <2>2 DEF FlashInv, WorkerOK
  <2>3. QED
    BY <1>4, <2>1, <2>2
<1>6. ErasePlace' /\ ProgramPlace'
  BY <1>3, <1>5 DEF Kept, PlaceInv, ErasePlace, ProgramPlace
<1>7. RegionJob => flash_prog'.erase_size \in Nat
  BY <1>1 DEF Kept, PlaceInv, RegionInv
<1>8. PlaceInv'
  BY <1>1, <1>2, <1>6, <1>7, WorkerPlace DEF Kept
<1>9. CASE failed'
  BY <1>8, <1>9 DEF Kept
<1>10. CASE ~failed'
  <2>1. worker'["erase"].pc = "wren"
    BY <1>5, <1>10
  <2>2. DevAt("idle") = DevAt("wren") /\ "wren" \in WorkerLabel
    BY DEF DevAt, WorkerLabel
  <2>3. Commanded("erase")' <=> Commanded("erase")
    BY <1>1, <1>2, <1>10, <2>1, Reach
  <2>4. QED
    BY <1>1, <1>2, <1>8, <2>1, <2>2, <2>3, WorkerLooks
<1>11. QED
  BY <1>9, <1>10

(* The start of the programming of a block: the one flash_ops names.        *)
LEMMA ProgramStartKept ==
  ASSUME Calm, FlashInv, FlowInv, Kept, WorkerStep, ProgramStart
  PROVE  Kept'
<1>1. /\ current = "program" /\ worker["program"].pc = "idle" /\ UNCHANGED <<flash_prog, flash, dev>>
      /\ "erase" \in Worker /\ "program" \in Worker
  BY DEF ProgramStart, Working, device, Worker
<1>2. Worked("program") /\ WorkerUnchanged
  BY <1>1, StepWorker
<1>3. /\ ev = Order("program") /\ ev.ev = "CONTINUE"
      /\ UNCHANGED <<fpc, flash_ops>> /\ worker'["erase"] = worker["erase"]
      /\ (failed => failed')
  BY <1>1, <1>2, HelperIs, WorkerSame, EventsAre DEF Worker
<1>4. worker'["program"] = [pc |-> "wren", addr |-> flash_ops.addr, remain |-> flash_ops.size,
                            buf |-> flash_ops.buf, pos |-> 0, j |-> 0]
  BY <1>1, <1>3 DEF ProgramStart, FlashInv, WorkerOK
<1>5. flash_ops.size > 0 /\ flash_ops.size \in Nat /\ flash_ops.addr \in Int
  BY <1>1, <1>3 DEF FlashInv, ProgrammerOK
<1>6. ErasePlace' /\ ProgramPlace'
  BY <1>3, <1>4, <1>5 DEF Kept, PlaceInv, ErasePlace, ProgramPlace
<1>7. RegionJob => flash_prog'.erase_size \in Nat
  BY <1>1 DEF Kept, PlaceInv, RegionInv
<1>8. PlaceInv'
  BY <1>1, <1>2, <1>6, <1>7, WorkerPlace DEF Kept
<1>9. worker'["program"].pc = "wren" /\ worker'["program"].pos = 0
  BY <1>4
<1>10. DevAt("idle") = DevAt("wren") /\ "wren" \in WorkerLabel
  BY DEF DevAt, WorkerLabel
<1>11. ASSUME ~failed' PROVE Progress' = Progress
  <2>1. Progress = 0
    BY <1>1, <1>2, Reach
  <2>2. ~Commanded("program")'
    BY <1>1, <1>2, <1>9, <1>11, Reach
  <2>3. Progress' = 0
    BY <1>1, <1>2, <1>9, <1>11, <2>2, Reach
  <2>4. QED
    BY <2>1, <2>3
<1>12. QED
  BY <1>1, <1>2, <1>8, <1>9, <1>10, <1>11, WorkerLooks

(* The status of the programming of a page: after it the next page.         *)
LEMMA ProgramReadKept ==
  ASSUME Calm, FlashInv, FlowInv, Kept, WorkerStep, ProgramRead
  PROVE  Kept'
<1>1. /\ current = "program" /\ worker["program"].pc = "read_busy" /\ UNCHANGED <<flash_prog, flash>>
      /\ "erase" \in Worker /\ "program" \in Worker
  BY DEF ProgramRead, Working, Worker
<1>2. Worked("program") /\ WorkerUnchanged
  BY <1>1, StepWorker
<1>3. /\ DevAt("read_busy") = "busy" /\ DevAt("busy_wait") = "busy" /\ DevAt("idle") = "ready"
      /\ DevAt("wren") = "ready"
      /\ "busy_wait" \in WorkerLabel /\ "idle" \in WorkerLabel /\ "wren" \in WorkerLabel
  BY DEF DevAt, WorkerLabel
<1>4. CASE StillBusy("program") /\ PollAgain("program", "busy_wait")
  <2>1. dev' = dev
    BY <1>4 DEF StillBusy
  <2>2. QED
    BY <1>1, <1>2, <1>3, <1>4, <2>1, PollOnly, LabelKept
<1>5. CASE Finish("program", -1)
  BY <1>1, <1>2, <1>3, <1>5, FinishOnly, LabelKept
<1>6. CASE NowReady /\ worker["program"].remain = 1 /\ Finish("program", 0)
  <2>1. dev' = "ready"
    BY <1>6 DEF NowReady
  <2>2. QED
    BY <1>1, <1>2, <1>3, <1>6, <2>1, FinishOnly, LabelKept
<1>7. CASE /\ NowReady /\ worker["program"].remain # 1
           /\ worker' = [worker EXCEPT
                !["program"].pc = "wren", !["program"].addr = @ + 1,
                !["program"].pos = @ + 1, !["program"].remain = @ - 1]
  <2>1. PICK w : w = worker["program"]
    OBVIOUS
  <2>2. /\ w.pc = "read_busy" /\ w.addr \in Int /\ w.pos \in Nat /\ w.remain \in Nat
        /\ worker'["program"].pc = "wren" /\ worker'["program"].addr = w.addr + 1
        /\ worker'["program"].pos = w.pos + 1 /\ worker'["program"].remain = w.remain - 1
        /\ worker'["program"].buf = w.buf
    BY <1>1, <1>7, <2>1 DEF FlashInv, WorkerOK
  <2>3. UNCHANGED <<fpc, flash_ops>> /\ worker'["erase"] = worker["erase"]
    BY <1>1, <1>2, WorkerSame DEF Worker
  <2>4. /\ w.buf = flash_ops.buf /\ w.addr = flash_ops.addr + w.pos
        /\ w.pos + w.remain = flash_ops.size /\ w.remain > 0 /\ w.remain # 1
        /\ flash_ops.addr \in Int
    BY <1>7, <2>1, <2>2 DEF Kept, PlaceInv, ProgramPlace, FlashInv, ProgrammerOK
  <2>5. ErasePlace'
    BY <2>3 DEF Kept, PlaceInv, ErasePlace
  <2>6. ProgramPlace'
    BY <2>2, <2>3, <2>4 DEF ProgramPlace
  <2>7. RegionJob => flash_prog'.erase_size \in Nat
    BY <1>1 DEF Kept, PlaceInv, RegionInv
  <2>8. PlaceInv'
    BY <1>1, <1>2, <2>5, <2>6, <2>7, WorkerPlace DEF Kept
  <2>9. ASSUME ~failed' PROVE Progress' = Progress
    <3>1. Commanded("program") /\ ~Commanded("program")'
      BY <1>1, <1>2, <2>1, <2>2, <2>9, Reach
    <3>2. Progress = w.pos + 1
      BY <1>1, <1>2, <2>1, <3>1, Reach
    <3>3. Progress' = w.pos + 1
      BY <1>1, <1>2, <2>2, <2>9, <3>1, Reach
    <3>4. QED
      BY <3>2, <3>3
  <2>10. dev' = "ready"
    BY <1>7 DEF NowReady
  <2>11. QED
    BY <1>1, <1>2, <1>3, <2>1, <2>2, <2>8, <2>9, <2>10, WorkerLooks
<1>8. QED
  BY <1>4, <1>5, <1>6, <1>7 DEF ProgramRead

(* Where the erase process is when it gives its command.                    *)
LEMMA EraseAt ==
  ASSUME FlashInv, FlowInv, PlaceInv, current = "erase",
         worker["erase"].pc # "idle", fpc # "chip_wait"
  PROVE  /\ worker["erase"].addr = flash_ops.addr
         /\ worker["erase"].addr \in host.offset .. host.offset + host.size - 1
         /\ worker["erase"].addr \in Nat
         /\ worker["erase"].addr % LOAD_BLK_SIZE = 0
         /\ host.offset \in Nat /\ host.size \in Nat
         /\ Remain(worker["erase"].addr) = host.offset + host.size - worker["erase"].addr
         /\ \/ fpc = "sector_wait" /\ Imaging /\ ~RegionJob /\ flash_ops = BlockOps
               /\ flash_prog.cnt \in Nat
            \/ fpc = "region_wait" /\ RegionJob /\ ~Imaging
<1>1. "erase" \in Worker
  BY DEF Worker
<1>2. host.offset \in Nat /\ host.size \in Nat
  BY DEF FlashInv, HostOK
<1>3. /\ fpc \in {"sector_wait", "region_wait"}
      /\ fpc = "sector_wait" => InProcess(ring) /\ Imaging
      /\ fpc = "region_wait" => RegionJob
      /\ RegionJob => ~Imaging
  BY <1>1, HelperIs, PhaseIs
<1>4. worker["erase"].addr = flash_ops.addr /\ worker["erase"].addr % LOAD_BLK_SIZE = 0
  BY <1>3 DEF PlaceInv, ErasePlace
<1>5. /\ flash_prog.offset = host.offset /\ flash_prog.total = host.size
      /\ flash_ops.addr \in host.offset .. host.offset + host.size - 1
      /\ fpc = "sector_wait" => flash_ops = BlockOps /\ flash_prog.cnt \in Nat
  <2>1. CASE fpc = "region_wait"
    BY <1>3, <2>1 DEF PlaceInv, RegionInv
  <2>2. CASE fpc = "sector_wait"
    <3>1. ImageInv
      BY <1>3, <2>2 DEF PlaceInv
    <3>2. /\ flash_prog.offset = host.offset /\ flash_prog.total = host.size
          /\ flash_prog.cnt \in Nat /\ Taken \in 0 .. host.size /\ flash_ops = BlockOps
      BY <2>2, <3>1 DEF ImageInv
    <3>3. PICK m \in Nat : InRing(m)
      BY <3>1 DEF ImageInv
    <3>4. PICK B \in Nat \ {0} : B = LOAD_BLK_SIZE
      BY RingAssumption
    <3>5. PICK c \in Nat : c = flash_prog.cnt
      BY <3>2
    <3>6. PICK P \in Nat, x \in Nat : P = m * B /\ x = c * B /\ B * c = x /\ x <= P
      <4>1. c <= m
        BY <3>3, <3>5 DEF InRing
      <4>2. m * B \in Nat /\ c * B \in Nat /\ B * c = c * B
        BY <3>4, <3>5
      <4>3. PICK d \in Nat : m = c + d
        <5>1. m - c \in Nat /\ m = c + (m - c)
          BY <4>1
        <5>2. QED
          BY <5>1
      <4>4. m * B = c * B + d * B /\ d * B \in Nat
        BY <3>4, <4>3
      <4>5. QED
        BY <4>2, <4>4
    <3>7. PICK n \in Int : n = Taken - P
      BY <3>2
    <3>8. n > 0
      <4>1. PICK z \in BOOLEAN : z <=> (Taken = host.size)
        OBVIOUS
      <4>2. Lined(ring, n, Taken = host.size)
        BY <3>3, <3>4, <3>6, <3>7 DEF InRing
      <4>3. Lined(ring, n, z)
        BY <4>1, <4>2, LinedIff
      <4>4. Sound(ring) /\ InProcess(ring)
        BY <1>3, <2>2 DEF FlashInv, RingOK
      <4>5. QED
        BY <4>1, <4>3, <4>4, HeadShare
    <3>9. flash_ops.addr = host.offset + x
      BY <3>2, <3>4, <3>5, <3>6 DEF BlockOps
    <3>10. QED
      BY <1>2, <3>2, <3>6, <3>7, <3>8, <3>9
  <2>3. QED
    BY <1>3, <2>1, <2>2
<1>6. Remain(worker["erase"].addr) = host.offset + host.size - worker["erase"].addr
  BY <1>5 DEF Remain
<1>7. worker["erase"].addr \in Nat
  BY <1>2, <1>4, <1>5
<1>8. QED
  BY <1>2, <1>3, <1>4, <1>5, <1>6, <1>7

(* The status of the chip's erasure: while a region or a sector is erased   *)
(* it is not looked at, but the code would end it in the same way.          *)
LEMMA ReadChipKept ==
  ASSUME Calm, FlashInv, FlowInv, Kept, WorkerStep, ReadChip
  PROVE  Kept'
<1>1. /\ current = "erase" /\ worker["erase"].pc = "read_chip" /\ UNCHANGED flash
      /\ "erase" \in Worker /\ "program" \in Worker
  BY DEF ReadChip, Working, Worker
<1>2. Worked("erase") /\ WorkerUnchanged
  BY <1>1, StepWorker
<1>3. /\ DevAt("read_chip") = "latched" /\ DevAt("chip_wait") = "latched"
      /\ "chip_wait" \in WorkerLabel /\ "idle" \in WorkerLabel
  BY DEF DevAt, WorkerLabel
<1>4. CASE StillBusy("erase") /\ PollAgain("erase", "chip_wait") /\ UNCHANGED flash_prog
  <2>1. dev' = dev
    BY <1>4 DEF StillBusy
  <2>2. QED
    BY <1>1, <1>2, <1>3, <1>4, <2>1, PollOnly, LabelKept
<1>5. CASE Finish("erase", -1) /\ UNCHANGED flash_prog
  BY <1>1, <1>2, <1>3, <1>5, FinishOnly, LabelKept
<1>6. CASE /\ NowReady
           /\ worker' = [worker EXCEPT !["erase"].pc = "read_busy", !["erase"].j = 1]
           /\ flash_prog' = [flash_prog EXCEPT !.erase_size =
                IF worker["erase"].j = 1 THEN @ + Remain(worker["erase"].addr) ELSE @]
  <2>1. /\ UNCHANGED <<fpc, flash_ops>> /\ worker'["program"] = worker["program"]
        /\ (failed => failed')
        /\ \A x \in Worker \ {"erase"} : worker[x].pc = "idle"
    BY <1>1, <1>2, WorkerSame DEF Worker
  <2>2. /\ worker'["erase"].pc = "read_busy" /\ worker'["erase"].addr = worker["erase"].addr
    BY <1>1, <1>6, LabelOnly
  <2>3. ErasePlace' /\ ProgramPlace'
    BY <1>1, <2>1, <2>2 DEF Kept, PlaceInv, ErasePlace, ProgramPlace
  <2>4. /\ flash_prog'.offset = flash_prog.offset /\ flash_prog'.total = flash_prog.total
        /\ flash_prog'.cnt = flash_prog.cnt
        /\ \/ flash_prog'.erase_size = flash_prog.erase_size
           \/ flash_prog'.erase_size = flash_prog.erase_size + Remain(worker["erase"].addr)
    BY <1>6 DEF FlashInv, ImageOK
  <2>5. ASSUME RegionJob PROVE flash_prog'.erase_size \in Nat
    <3>1. flash_prog.erase_size \in Nat
      BY <2>5 DEF Kept, PlaceInv, RegionInv
    <3>2. fpc # "chip_wait"
      <4>1. fpc \in Waits /\ InFlight = {}
        BY <1>1, HelperIs
      <4>2. QED
        BY <1>1, <2>5, <4>1 DEF RegionJob, Woken, Waits
    <3>3. Remain(worker["erase"].addr) \in Nat
      BY <1>1, <3>2, EraseAt DEF Kept
    <3>4. QED
      BY <2>4, <3>1, <3>3
  <2>6. PlaceInv'
    BY <1>1, <1>2, <2>3, <2>4, <2>5, WorkerPlace DEF Kept
  <2>7. failed
    <3>1. worker["erase"].pc \in WorkerLabel
      BY <1>1 DEF FlashInv, WorkerOK
    <3>2. InTune => dev = "latched"
      BY <1>1, <1>3, <2>1, <3>1, Tuned
    <3>3. dev # "latched"
      BY <1>6 DEF NowReady
    <3>4. QED
      BY <3>2, <3>3 DEF Kept, CellsInv
  <2>8. QED
    BY <2>1, <2>6, <2>7 DEF Kept
<1>7. QED
  BY <1>4, <1>5, <1>6 DEF ReadChip

(* What an erasure leaves, and what it does not touch.                      *)
LEMMA WipedIs ==
  ASSUME DOMAIN flash = Addr, NEW a \in Nat, NEW s \in Nat, flash' = Wiped(a, s)
  PROVE  /\ \A x \in Addr : a <= x /\ x < a + s => flash'[x] = Blank
         /\ \A x \in Addr : x < a \/ a + s <= x => flash'[x] = flash[x]
         /\ \A x \in Addr : flash'[x] = Blank \/ flash'[x] = flash[x]
<1>1. \A x \in Addr : x \in Nat
  BY FlashAssumption DEF Addr
<1>2. \A x \in Addr : flash'[x] = IF x \in a .. a + s - 1 THEN Blank ELSE flash[x]
  BY DEF Wiped
<1>3. QED
  BY <1>1, <1>2

(* A command is given to a device that is latched.                          *)
LEMMA EraseCommandKept ==
  ASSUME Calm, FlashInv, FlowInv, Kept, WorkerStep, EraseCommand
  PROVE  Kept'
<1>1. /\ current = "erase" /\ worker["erase"].pc = "command" /\ ~chip_erase
      /\ "erase" \in Worker /\ "program" \in Worker
  BY DEF EraseCommand, Working, Worker
<1>2. Worked("erase") /\ WorkerUnchanged
  BY <1>1, StepWorker
<1>3. PICK a \in Nat, s \in Nat : a = worker["erase"].addr /\ s = EraseSize(a, Remain(a))
      /\ \E j \in Nat \ {0} : s = j * LOAD_BLK_SIZE
  <2>1. worker["erase"].addr \in Nat /\ Remain(worker["erase"].addr) \in Int
    <3>1. fpc # "chip_wait"
      BY <1>1, HelperIs
    <3>2. QED
      BY <1>1, <3>1, EraseAt DEF Kept
  <2>2. PICK j \in Nat \ {0} :
          EraseSize(worker["erase"].addr, Remain(worker["erase"].addr)) = j * LOAD_BLK_SIZE
    BY <2>1, EraseSizeFits
  <2>3. j * LOAD_BLK_SIZE \in Nat
    BY RingAssumption
  <2>4. QED
    BY <2>1, <2>2, <2>3
<1>4. /\ a = flash_ops.addr /\ host.offset \in Nat /\ host.size \in Nat
      /\ \/ fpc = "sector_wait" /\ Imaging /\ ~RegionJob /\ flash_ops = BlockOps
            /\ flash_prog.cnt \in Nat
         \/ fpc = "region_wait" /\ RegionJob /\ ~Imaging
  <2>1. fpc # "chip_wait"
    BY <1>1, HelperIs
  <2>2. QED
    BY <1>1, <1>3, <2>1, EraseAt DEF Kept
<1>5. /\ flash_prog' = [flash_prog EXCEPT !.erase_size = @ + s]
      /\ \/ /\ Obey(Wiped(a, s))
            /\ worker' = [worker EXCEPT !["erase"].pc = "read_busy", !["erase"].j = 1]
         \/ Finish("erase", -1)
  BY <1>3 DEF EraseCommand
<1>6. /\ flash_prog'.offset = flash_prog.offset /\ flash_prog'.total = flash_prog.total
      /\ flash_prog'.cnt = flash_prog.cnt
      /\ flash_prog'.erase_size = flash_prog.erase_size + s
  BY <1>5 DEF FlashInv, ImageOK
<1>7. /\ UNCHANGED <<fpc, flash_ops, host>> /\ worker'["program"] = worker["program"]
      /\ (failed => failed') /\ ~Replied
      /\ \A x \in Worker \ {"erase"} : worker[x].pc = "idle"
  BY <1>1, <1>2, WorkerSame DEF Worker
<1>8. /\ worker'["erase"].addr = worker["erase"].addr
      /\ worker'["erase"].pc \in {"read_busy", "idle"}
      /\ ~failed' => worker'["erase"].pc = "read_busy" /\ Obey(Wiped(a, s))
  <2>1. CASE Obey(Wiped(a, s)) /\ worker' = [worker EXCEPT !["erase"].pc = "read_busy", !["erase"].j = 1]
    BY <1>1, <2>1, LabelOnly
  <2>2. CASE Finish("erase", -1)
    BY <1>1, <2>2, FinishOnly
  <2>3. QED
    BY <1>5, <2>1, <2>2
<1>9. ErasePlace' /\ ProgramPlace'
  BY <1>1, <1>7, <1>8 DEF Kept, PlaceInv, ErasePlace, ProgramPlace
<1>10. RegionJob => flash_prog'.erase_size \in Nat
  BY <1>6 DEF Kept, PlaceInv, RegionInv
<1>11. PlaceInv'
  BY <1>1, <1>2, <1>6, <1>9, <1>10, WorkerPlace DEF Kept
<1>12. ASSUME ~failed'
       PROVE  /\ dev' = "busy" /\ CellsInv /\ flash' = Wiped(a, s)
              /\ ~Commanded("erase") /\ Commanded("erase")' /\ Progress = 0 /\ Progress' = 0
  <2>1. CellsInv
    BY <1>7, <1>12 DEF Kept
  <2>2. dev = "latched"
    <3>1. worker["erase"].pc \in WorkerLabel
      BY <1>1 DEF FlashInv, WorkerOK
    <3>2. DevAt("command") = "latched"
      BY DEF DevAt
    <3>3. QED
      BY <1>1, <1>7, <2>1, <3>1, <3>2, Tuned DEF CellsInv
  <2>3. dev' = "busy" /\ flash' = Wiped(a, s)
    BY <1>8, <1>12, <2>2 DEF Obey
  <2>4. ~Commanded("erase") /\ Commanded("erase")' /\ Progress = 0 /\ Progress' = 0
    BY <1>1, <1>2, <1>8, <1>12, Reach
  <2>5. QED
    BY <2>1, <2>3, <2>4
<1>13. ASSUME ~failed'
       PROVE  /\ \A x \in Addr : a <= x /\ x < a + s => flash'[x] = Blank
              /\ \A x \in Addr : x < a \/ a + s <= x => flash'[x] = flash[x]
              /\ \A x \in Addr : flash'[x] = Blank \/ flash'[x] = flash[x]
  BY <1>12, <1>13, WipedIs DEF FlashInv, DeviceOK
<1>14. \A x \in Addr : x \in Nat
  BY FlashAssumption DEF Addr
<1>15. ASSUME ~failed' PROVE \A x \in Addr : flash'[x] # Garbage
  BY <1>12, <1>13, <1>15 DEF CellsInv, Blank, Garbage
<1>16. ASSUME ~failed', Imaging PROVE \E k \in Nat : OnFlash(k)'
  <2>1. PICK k \in Nat : OnFlash(k)
    BY <1>12, <1>16 DEF CellsInv
  <2>2. fpc = "sector_wait" /\ flash_ops = BlockOps /\ flash_prog.cnt \in Nat
    BY <1>4, <1>16
  <2>3. flash_prog.cnt <= k /\ (fpc = "sector_wait" => (Commanded("erase") <=> flash_prog.cnt < k))
    BY <2>1 DEF OnFlash
  <2>4. flash_prog.cnt = k
    BY <1>12, <1>16, <2>2, <2>3
  <2>5. PICK B \in Nat \ {0} : B = LOAD_BLK_SIZE
    BY RingAssumption
  <2>6. PICK j \in Nat \ {0} : s = j * B
    BY <1>3, <2>5
  <2>7. PICK P \in Nat : P = k * B /\ B * k = P /\ (k + j) * B = P + s
    BY <2>5, <2>6
  <2>8. flash_prog.offset = host.offset
    BY <1>16 DEF Kept, PlaceInv, ImageInv
  <2>9. a = host.offset + P
    BY <1>4, <2>2, <2>4, <2>5, <2>7, <2>8 DEF BlockOps
  <2>10. flash_prog.erase_size = P /\ flash_prog'.erase_size = P + s
    BY <1>6, <2>1, <2>5, <2>7 DEF OnFlash
  <2>11. Done = P /\ Done' = P
    <3>1. Done = P
      BY <1>12, <1>16, <2>4, <2>5, <2>7 DEF Done
    <3>2. Done' = P
      BY <1>6, <1>12, <1>16, <2>4, <2>5, <2>7 DEF Done
    <3>3. QED
      BY <3>1, <3>2
  <2>12. \A i \in 0 .. host'.size - 1 : i < Done' => flash'[host'.offset + i] = Unit(host'.gen, i)
    <3>1. ASSUME NEW i \in 0 .. host.size - 1, i < P PROVE flash'[host.offset + i] = Unit(host.gen, i)
      <4>1. flash[host.offset + i] = Unit(host.gen, i)
        BY <2>1, <2>11, <3>1 DEF OnFlash
      <4>2. host.offset + i < a /\ host.offset + i \in Addr
        BY <1>4, <2>9, <3>1, FlashAssumption DEF Addr, Kept, PlaceInv, InFlash
      <4>3. QED
        BY <1>13, <1>16, <4>1, <4>2
    <3>2. QED
      BY <1>7, <2>11, <3>1
  <2>13. Fresh(host.offset + Done, host.offset + flash_prog.erase_size)'
    <3>1. \A x \in Addr : a <= x /\ x < a + s => flash'[x] = Blank
      BY <1>13, <1>16
    <3>2. /\ host'.offset + Done' = a
          /\ host'.offset + flash_prog'.erase_size = a + s
      BY <1>4, <1>7, <2>9, <2>10, <2>11
    <3>3. QED
      BY <3>1, <3>2 DEF Fresh
  <2>14. k + j \in Nat /\ flash_prog'.cnt < k + j /\ flash_prog'.cnt <= k + j
    BY <1>6, <2>4
  <2>15. flash_prog'.erase_size = (k + j) * LOAD_BLK_SIZE
    BY <2>5, <2>7, <2>10
  <2>16. OnFlash(k + j)'
    BY <1>7, <1>12, <1>16, <2>2, <2>12, <2>13, <2>14, <2>15 DEF OnFlash
  <2>17. QED
    BY <2>14, <2>16
<1>17. ASSUME ~failed', RegionJob PROVE RegionWiped'
  <2>1. RegionWiped /\ fpc = "region_wait"
    BY <1>4, <1>12, <1>17 DEF CellsInv
  <2>2. /\ flash_prog.erase_size \in Nat /\ flash_prog.offset = host.offset
    BY <1>17 DEF Kept, PlaceInv, RegionInv
  <2>3. a = host.offset + flash_prog.erase_size
    BY <1>4, <1>12, <1>17, <2>1, <2>2 DEF RegionWiped
  <2>4. \A x \in Addr : host.offset <= x /\ x < a => flash[x] = Blank
    BY <2>1, <2>3 DEF RegionWiped, Fresh
  <2>5. ASSUME NEW x \in Addr, host.offset <= x, x < a + s PROVE flash'[x] = Blank
    <3>1. CASE x < a
      BY <1>13, <1>17, <2>4, <2>5, <3>1
    <3>2. CASE a <= x
      BY <1>13, <1>17, <2>5, <3>2
    <3>3. QED
      BY <1>14, <3>1, <3>2
  <2>6. host.offset + flash_prog'.erase_size = a + s
    BY <1>4, <1>6, <2>2, <2>3
  <2>7. Fresh(host.offset, host.offset + flash_prog.erase_size)'
    BY <1>7, <2>5, <2>6 DEF Fresh
  <2>8. QED
    BY <1>12, <1>17, <2>7 DEF RegionWiped
<1>18. ~failed' => dev' = DevAt(worker'["erase"].pc) /\ worker'["erase"].pc \in WorkerLabel
  <2>1. DevAt("read_busy") = "busy" /\ "read_busy" \in WorkerLabel
    BY DEF DevAt, WorkerLabel
  <2>2. QED
    BY <1>8, <1>12, <2>1
<1>19. QED
  BY <1>1, <1>2, <1>11, <1>15, <1>16, <1>17, <1>18, WorkerCells

(* Where the program process is when it gives its command, and what it      *)
(* writes: a unit of the block at the head of the ring.                     *)
LEMMA ProgramAt ==
  ASSUME FlashInv, FlowInv, PlaceInv, current = "program", worker["program"].pc # "idle",
         NEW w, w = worker["program"]
  PROVE  /\ host.offset \in Nat /\ host.size \in Nat /\ w.pos \in Nat
         /\ w.addr \in host.offset .. host.offset + host.size - 1 /\ w.addr \in Addr
         /\ fpc = "program_wait" /\ Imaging /\ ~RegionJob
         /\ flash_prog.cnt \in Nat /\ w.pos < LOAD_BLK_SIZE
         /\ w.addr = host.offset + (flash_prog.cnt * LOAD_BLK_SIZE + w.pos)
         /\ flash_prog.cnt * LOAD_BLK_SIZE + w.pos \in 0 .. host.size - 1
         /\ ~failed => buf[w.buf][w.pos] = Unit(host.gen, flash_prog.cnt * LOAD_BLK_SIZE + w.pos)
<1>1. "program" \in Worker
  BY DEF Worker
<1>2. host.offset \in Nat /\ host.size \in Nat
  BY DEF FlashInv, HostOK
<1>3. /\ fpc = "program_wait" /\ InProcess(ring) /\ Imaging
      /\ RegionJob => ~Imaging
  BY <1>1, HelperIs, PhaseIs
<1>4. /\ w.buf = flash_ops.buf /\ w.addr = flash_ops.addr + w.pos
      /\ w.pos + w.remain = flash_ops.size /\ w.remain > 0
      /\ w.pos \in 0 .. LOAD_BLK_SIZE - 1 /\ w.remain \in Nat
  BY <1>1 DEF PlaceInv, ProgramPlace, FlashInv, WorkerOK
<1>5. /\ flash_prog.offset = host.offset /\ flash_ops = BlockOps
      /\ flash_prog.cnt \in Nat /\ Taken \in 0 .. host.size
  BY <1>3 DEF PlaceInv, ImageInv
<1>6. PICK m \in Nat : InRing(m)
  BY <1>3 DEF PlaceInv, ImageInv
<1>7. PICK B \in Nat \ {0} : B = LOAD_BLK_SIZE
  BY RingAssumption
<1>8. PICK c \in Nat : c = flash_prog.cnt
  BY <1>5
<1>9. PICK P \in Nat, x \in Nat : P = m * B /\ x = c * B /\ B * c = x /\ x <= P
  <2>1. c <= m
    BY <1>6, <1>8 DEF InRing
  <2>2. m * B \in Nat /\ c * B \in Nat /\ B * c = c * B
    BY <1>7, <1>8
  <2>3. PICK d \in Nat : m = c + d
    <3>1. m - c \in Nat /\ m = c + (m - c)
      BY <2>1
    <3>2. QED
      BY <3>1
  <2>4. m * B = c * B + d * B /\ d * B \in Nat
    BY <1>7, <2>3
  <2>5. QED
    BY <2>2, <2>4
<1>10. PICK n \in Int : n = Taken - P
  BY <1>5
<1>11. Sound(ring) /\ ring.head \in CtrlIdx
  BY DEF FlashInv, RingOK, Sound, Rings
<1>12. /\ n > 0 /\ ring.ctrl[ring.head].size = (IF n < B THEN n ELSE B)
  <2>1. PICK z \in BOOLEAN : z <=> (Taken = host.size)
    OBVIOUS
  <2>2. Lined(ring, n, Taken = host.size)
    BY <1>6, <1>7, <1>9, <1>10 DEF InRing
  <2>3. Lined(ring, n, z)
    BY <2>1, <2>2, LinedIff
  <2>4. QED
    BY <1>3, <1>7, <1>11, <2>1, <2>3, HeadShare
<1>13. /\ flash_ops.addr = host.offset + x
       /\ flash_ops.size = ring.ctrl[ring.head].size
       /\ flash_ops.buf = ring.ctrl[ring.head].buf_idx
  BY <1>5, <1>7, <1>8, <1>9 DEF BlockOps
<1>14. w.pos \in Nat /\ w.pos < B /\ w.pos < n /\ w.pos < flash_ops.size
  BY <1>4, <1>7, <1>10, <1>12, <1>13
<1>15. /\ w.addr = host.offset + (x + w.pos)
       /\ x + w.pos \in 0 .. host.size - 1
  BY <1>2, <1>4, <1>5, <1>9, <1>10, <1>13, <1>14
<1>16. /\ w.addr \in host.offset .. host.offset + host.size - 1 /\ w.addr \in Addr
  BY <1>2, <1>15, FlashAssumption DEF Addr, PlaceInv, InFlash
<1>17. ASSUME ~failed PROVE buf[w.buf][w.pos] = Unit(host.gen, x + w.pos)
  <2>1. m = c /\ Holds(ring, buf, ImageOf(host.gen), P)
    BY <1>6, <1>7, <1>8, <1>9, <1>17 DEF InRing
  <2>2. P = x
    BY <1>9, <2>1
  <2>3. Pos(ring, ring.head) = 0
    <3>1. ring.head \in Int
      BY <1>11, RingAssumption DEF CtrlIdx
    <3>2. QED
      BY <3>1 DEF Pos
  <2>4. w.pos \in 0 .. ring.ctrl[ring.head].size - 1
    BY <1>7, <1>10, <1>12, <1>13, <1>14
  <2>5. buf[ring.ctrl[ring.head].buf_idx][w.pos]
          = ImageOf(host.gen)[P + Pos(ring, ring.head) * LOAD_BLK_SIZE + w.pos]
    BY <1>11, <2>1, <2>4 DEF Holds
  <2>6. P + Pos(ring, ring.head) * LOAD_BLK_SIZE + w.pos = x + w.pos /\ x + w.pos \in Nat
    BY <1>7, <1>9, <1>14, <2>2, <2>3
  <2>7. buf[w.buf][w.pos] = ImageOf(host.gen)[x + w.pos]
    BY <1>4, <1>13, <2>5, <2>6
  <2>8. QED
    BY <2>6, <2>7 DEF ImageOf
<1>18. flash_prog.cnt * LOAD_BLK_SIZE = x
  BY <1>7, <1>8, <1>9
<1>19. QED
  BY <1>2, <1>3, <1>5, <1>7, <1>14, <1>15, <1>16, <1>17, <1>18

(* The command to program a page finds it blank, and puts its unit there.   *)
LEMMA ProgramCommandKept ==
  ASSUME Calm, FlashInv, FlowInv, Kept, WorkerStep, ProgramCommand
  PROVE  Kept'
<1>1. /\ current = "program" /\ worker["program"].pc = "command" /\ flash_prog' = flash_prog
      /\ "erase" \in Worker /\ "program" \in Worker
  BY DEF ProgramCommand, Working, Worker
<1>2. Worked("program") /\ WorkerUnchanged
  BY <1>1, StepWorker
<1>3. PICK w : w = worker["program"]
  OBVIOUS
<1>4. /\ host.offset \in Nat /\ host.size \in Nat /\ w.pos \in Nat
      /\ w.addr \in Addr /\ fpc = "program_wait" /\ Imaging /\ ~RegionJob
      /\ flash_prog.cnt \in Nat /\ w.pos < LOAD_BLK_SIZE
      /\ w.addr = host.offset + (flash_prog.cnt * LOAD_BLK_SIZE + w.pos)
      /\ flash_prog.cnt * LOAD_BLK_SIZE + w.pos \in 0 .. host.size - 1
      /\ ~failed => buf[w.buf][w.pos] = Unit(host.gen, flash_prog.cnt * LOAD_BLK_SIZE + w.pos)
  BY <1>1, <1>3, ProgramAt DEF Kept
<1>5. \/ /\ Obey(Written(w.addr, buf[w.buf][w.pos]))
         /\ worker' = [worker EXCEPT !["program"].pc = "read_busy", !["program"].j = 1]
      \/ Finish("program", -1)
  BY <1>3 DEF ProgramCommand
<1>6. /\ UNCHANGED <<fpc, flash_ops, host>> /\ worker'["erase"] = worker["erase"]
      /\ (failed => failed') /\ ~Replied
      /\ \A x \in Worker \ {"program"} : worker[x].pc = "idle"
  BY <1>1, <1>2, WorkerSame DEF Worker
<1>7. /\ worker'["program"].addr = w.addr /\ worker'["program"].remain = w.remain
      /\ worker'["program"].buf = w.buf /\ worker'["program"].pos = w.pos
      /\ ~failed' => /\ worker'["program"].pc = "read_busy"
                     /\ Obey(Written(w.addr, buf[w.buf][w.pos]))
  <2>1. CASE /\ Obey(Written(w.addr, buf[w.buf][w.pos]))
             /\ worker' = [worker EXCEPT !["program"].pc = "read_busy", !["program"].j = 1]
    BY <1>1, <1>3, <2>1, LabelOnly
  <2>2. CASE Finish("program", -1)
    BY <1>1, <1>3, <2>2, FinishOnly
  <2>3. QED
    BY <1>5, <2>1, <2>2
<1>8. ErasePlace' /\ ProgramPlace'
  BY <1>1, <1>3, <1>6, <1>7 DEF Kept, PlaceInv, ErasePlace, ProgramPlace
<1>9. PlaceInv'
  BY <1>1, <1>2, <1>4, <1>8, WorkerPlace DEF Kept
<1>10. PICK B \in Nat \ {0} : B = LOAD_BLK_SIZE
  BY RingAssumption
<1>11. PICK c \in Nat : c = flash_prog.cnt
  BY <1>4
<1>12. PICK u \in Nat : u = c * LOAD_BLK_SIZE + w.pos /\ u < host.size /\ u \in 0 .. host.size - 1
  BY <1>4, <1>11
<1>13. w.addr = host.offset + u
  BY <1>4, <1>11, <1>12
<1>14. ASSUME ~failed' PROVE \E k \in Nat : OnFlash(k)' /\ \A x \in Addr : flash'[x] # Garbage
  <2>1. CellsInv
    BY <1>6, <1>14 DEF Kept
  <2>2. dev = "latched"
    <3>1. worker["program"].pc \in WorkerLabel
      BY <1>1 DEF FlashInv, WorkerOK
    <3>2. DevAt("command") = "latched"
      BY DEF DevAt
    <3>3. QED
      BY <1>1, <1>6, <2>1, <3>1, <3>2, Tuned DEF CellsInv
  <2>3. buf[w.buf][w.pos] = Unit(host.gen, u)
    BY <1>4, <1>6, <1>11, <1>12, <1>14
  <2>4. flash' = Written(w.addr, Unit(host.gen, u))
    BY <1>7, <1>14, <2>2, <2>3 DEF Obey
  <2>5. PICK k \in Nat : OnFlash(k)
    BY <1>4, <2>1 DEF CellsInv
  <2>6. ~Commanded("program") /\ Commanded("program")' /\ Progress = w.pos
    <3>1. ~Commanded("program") /\ Commanded("program")'
      BY <1>1, <1>2, <1>7, <1>14, Reach
    <3>2. Progress = w.pos
      BY <1>1, <1>2, <1>3, <3>1, Reach
    <3>3. QED
      BY <3>1, <3>2
  <2>7. Progress' = w.pos + 1
    BY <1>1, <1>2, <1>7, <1>14, <2>6, Reach
  <2>8. Done = u
    BY <1>11, <1>12, <2>6 DEF Done
  <2>9. Done' = u + 1
    <3>1. Done' = c * LOAD_BLK_SIZE + (w.pos + 1)
      BY <1>1, <1>11, <2>7 DEF Done
    <3>2. c * LOAD_BLK_SIZE \in Nat
      BY <1>10
    <3>3. QED
      BY <1>4, <1>12, <3>1, <3>2
  <2>10. PICK E \in Nat : E = flash_prog.erase_size /\ u < E
    <3>1. c < k /\ flash_prog.erase_size = k * B
      BY <1>4, <1>10, <1>11, <2>5 DEF OnFlash
    <3>2. c * B + B <= k * B /\ c * B \in Nat /\ k * B \in Nat
      BY <1>10, <3>1, BlockTimes
    <3>3. u = c * B + w.pos /\ w.pos < B
      BY <1>4, <1>10, <1>12
    <3>4. QED
      BY <1>4, <1>10, <3>1, <3>2, <3>3
  <2>11. flash[w.addr] = Blank
    <3>1. host.offset + Done <= w.addr /\ w.addr < host.offset + flash_prog.erase_size
      BY <1>4, <1>13, <2>8, <2>10
    <3>2. QED
      BY <1>4, <2>5, <3>1 DEF OnFlash, Fresh
  <2>12. /\ flash'[w.addr] = Unit(host.gen, u)
         /\ \A x \in Addr : x # w.addr => flash'[x] = flash[x]
    BY <1>4, <2>4, <2>11 DEF Written, FlashInv, DeviceOK
  <2>13. Unit(host.gen, u) # Garbage
    <3>1. host.gen > 0 /\ host.gen \in Nat
      BY <1>4, <2>1 DEF CellsInv, Imaging, FlashInv, HostOK
    <3>2. QED
      BY <3>1 DEF Unit, Garbage
  <2>14. \A x \in Addr : flash'[x] # Garbage
    BY <2>1, <2>12, <2>13 DEF CellsInv
  <2>15. ASSUME NEW i \in 0 .. host.size - 1, i < u + 1
         PROVE  flash'[host.offset + i] = Unit(host.gen, i)
    <3>1. CASE i = u
      BY <1>13, <2>12, <3>1
    <3>2. CASE i < u
      <4>1. flash[host.offset + i] = Unit(host.gen, i)
        BY <2>5, <2>8, <2>15, <3>2 DEF OnFlash
      <4>2. host.offset + i # w.addr /\ host.offset + i \in Addr
        BY <1>4, <1>13, <2>15, <3>2, FlashAssumption DEF Addr, Kept, PlaceInv, InFlash
      <4>3. QED
        BY <2>12, <4>1, <4>2
    <3>3. QED
      BY <2>15, <3>1, <3>2
  <2>16. \A i \in 0 .. host'.size - 1 : i < Done' => flash'[host'.offset + i] = Unit(host'.gen, i)
    BY <1>6, <2>9, <2>15
  <2>17. ASSUME NEW x \in Addr, host.offset + (u + 1) <= x, x < host.offset + E
         PROVE  flash'[x] = Blank
    <3>1. x \in Nat
      BY FlashAssumption DEF Addr
    <3>2. x # w.addr /\ host.offset + u <= x
      BY <1>4, <1>13, <2>17, <3>1
    <3>3. flash[x] = Blank
      BY <2>5, <2>8, <2>10, <2>17, <3>2 DEF OnFlash, Fresh
    <3>4. QED
      BY <2>12, <3>2, <3>3
  <2>18. Fresh(host.offset + Done, host.offset + flash_prog.erase_size)'
    BY <1>1, <1>6, <2>9, <2>10, <2>17 DEF Fresh
  <2>19. OnFlash(k)'
    BY <1>1, <1>4, <1>6, <2>5, <2>16, <2>18 DEF OnFlash
  <2>20. QED
    BY <2>14, <2>19
<1>15. ~failed' => /\ dev = DevAt(worker["program"].pc) => dev' = DevAt(worker'["program"].pc)
                   /\ worker'["program"].pc \in WorkerLabel
  <2>1. DevAt("read_busy") = "busy" /\ "read_busy" \in WorkerLabel /\ DevAt("command") = "latched"
    BY DEF DevAt, WorkerLabel
  <2>2. ~failed' /\ dev = "latched" => dev' = "busy"
    BY <1>7 DEF Obey
  <2>3. QED
    BY <1>1, <1>7, <2>1, <2>2
<1>16. QED
  BY <1>1, <1>2, <1>4, <1>9, <1>14, <1>15, WorkerCells

(* The erase and the program process.                                       *)
LEMMA WorkerKept ==
  ASSUME Calm, FlashInv, FlowInv, Kept, WorkerStep
  PROVE  Kept'
<1> DEFINE Latch == \E t \in Worker : WriteEnable(t) \/ ReadLatch(t)
           Resumed == \/ \E t \in Worker : \/ Resume(t, "latch_wait", "read_latch")
                                          \/ Resume(t, "busy_wait", "read_busy")
                      \/ Resume("erase", "chip_wait", "read_chip")
<1>1. CASE Latch
  BY <1>1, LatchKept
<1>2. CASE Resumed
  <2>1. "erase" \in Worker
    BY DEF Worker
  <2>2. QED
    BY <1>2, <2>1, ResumeKept
<1>3. CASE EraseStart
  BY <1>3, EraseStartKept
<1>4. CASE ProgramStart
  BY <1>4, ProgramStartKept
<1>5. CASE EraseCommand
  BY <1>5, EraseCommandKept
<1>6. CASE ChipCommand
  BY <1>6, ChipCommandKept
<1>7. CASE ProgramCommand
  BY <1>7, ProgramCommandKept
<1>8. CASE ReadChip
  BY <1>8, ReadChipKept
<1>9. CASE EraseRead
  BY <1>9, EraseReadKept
<1>10. CASE ProgramRead
  BY <1>10, ProgramReadKept
<1>11. QED
  BY <1>1, <1>2, <1>3, <1>4, <1>5, <1>6, <1>7, <1>8, <1>9, <1>10 DEF WorkerStep

-----------------------------------------------------------------------------
(* At first nothing is under way and the flash is as it was.                *)
LEMMA KeptAtFirst == Init => Kept
<1> SUFFICES ASSUME Init PROVE Kept
  OBVIOUS
<1>1. /\ host.phase = "none" /\ host.offset = 0 /\ host.size = 0 /\ cmd = NoPacket
      /\ fpc = "idle" /\ current = "none" /\ dev = "ready" /\ queue = <<>>
      /\ \A t \in Worker : worker[t].pc = "idle"
      /\ ring = EmptyRing /\ "erase" \in Worker /\ "program" \in Worker
      /\ \A a \in Addr : flash[a] = Old
  BY DEF Init, Worker
<1>2. ~InProcess(ring) /\ Contents(queue) = {}
  BY <1>1, RingProcess DEF Contents
<1>3. ~Imaging /\ ~RegionJob /\ ~RegionOver
  BY <1>1, <1>2 DEF Imaging, RegionJob, Woken, InFlight, RegionOver
<1>4. PlaceInv
  BY <1>1, <1>3, FlashAssumption DEF PlaceInv, InFlash, ErasePlace, ProgramPlace
<1>5. CellsInv
  BY <1>1, <1>3 DEF CellsInv, InTune, Old, Garbage
<1>6. QED
  BY <1>4, <1>5 DEF Kept

(* No step disturbs it.                                                     *)
LEMMA KeptKept ==
  ASSUME Calm, FlashInv, TalkInv, FlowInv, Kept, [Next]_vars
  PROVE  Kept'
<1>1. TalkInv' /\ FlowInv'
  BY TalkKept, FlowKept
<1>2. CASE RxInterrupt \/ UNCHANGED vars
  BY <1>2, KernelKept
<1>3. CASE (\E p \in Worker : ServePoll(p)) \/ ServeEvent
  BY <1>3, KernelKept
<1>4. CASE UartStep
  BY <1>1, <1>4, UartKept, BeginKept, EraseKept, CopyKept DEF UartStep
<1>5. CASE FlashStep
  BY <1>5, FlashKept
<1>6. CASE WorkerStep
  BY <1>6, WorkerKept
<1>7. CASE HostStep
  BY <1>1, <1>7, HostKept
<1>8. QED
  BY <1>2, <1>3, <1>4, <1>5, <1>6, <1>7 DEF Next, MainStep

(* The blocks are in their places and the flash holds what it should.       *)
LEMMA KeptAlways ==
  ASSUME Calm
  PROVE  Spec => [](FlashInv /\ FlowInv /\ Kept)
<1>1. FlashInv /\ TalkInv /\ FlowInv /\ Kept /\ [Next]_vars => Kept'
  BY KeptKept
<1>2. QED
  BY <1>1, KeptAtFirst, FlowAlways, PTL DEF Spec

(* An image that has been acknowledged is in the flash: when FLASH_END has  *)
(* been answered the ring is empty, so that the blocks that have been       *)
(* programmed are the whole image; every one of them was programmed with    *)
(* the units the host sent, into a sector that was blank, and nothing has   *)
(* been erased behind it.                                                   *)
THEOREM FlashImageProgrammed ==
  ASSUME Calm
  PROVE  Spec => []AckedImageIsFlashed
<1>1. ASSUME FlashInv, FlowInv, Kept, host.phase = "done", ~failed
      PROVE  ImageFlashed
  <2>1. Still /\ fpc = "idle" /\ ~InProcess(ring)
    BY <1>1 DEF FlowInv, QuietOK, Still
  <2>2. Imaging /\ Taken = host.size
    BY <1>1 DEF Imaging, Taken, Ending
  <2>3. ImageInv /\ host.size \in Nat
    BY <1>1, <2>2 DEF Kept, PlaceInv, FlashInv, HostOK
  <2>4. PICK m \in Nat : InRing(m)
    BY <2>3 DEF ImageInv
  <2>5. PICK k \in Nat : OnFlash(k)
    BY <1>1, <2>2 DEF Kept, CellsInv
  <2>6. PICK B \in Nat \ {0} : B = LOAD_BLK_SIZE
    BY RingAssumption
  <2>7. PICK c \in Nat : c = flash_prog.cnt /\ m = c
    BY <1>1, <2>3, <2>4 DEF ImageInv, InRing
  <2>8. PICK P \in Nat : P = c * B
    BY <2>6
  <2>9. host.size - P <= 0
    <3>1. Lined(ring, host.size - P, TRUE)
      <4>1. Lined(ring, host.size - P, Taken = host.size)
        BY <2>2, <2>4, <2>6, <2>7, <2>8 DEF InRing
      <4>2. QED
        BY <2>2, <4>1, LinedIff
    <3>2. ring.head = ring.tail /\ ring.head \in Int
      BY <1>1, <2>1, RingAssumption DEF InProcess, FlashInv, RingOK, Sound, Rings, CtrlIdx
    <3>3. Pos(ring, ring.tail) = 0
      BY <3>2 DEF Pos
    <3>4. host.size - P <= Pos(ring, ring.tail) * LOAD_BLK_SIZE
      BY <3>1 DEF Lined
    <3>5. QED
      BY <2>6, <3>3, <3>4
  <2>10. Done = P
    <3>1. Progress = 0
      BY <2>1 DEF Progress
    <3>2. QED
      BY <2>6, <2>7, <2>8, <3>1 DEF Done
  <2>11. \A i \in 0 .. host.size - 1 : i < Done
    BY <2>3, <2>8, <2>9, <2>10
  <2>12. QED
    BY <2>5, <2>11 DEF OnFlash, ImageFlashed
<1>2. FlashInv /\ FlowInv /\ Kept => AckedImageIsFlashed
  BY <1>1 DEF AckedImageIsFlashed
<1>3. QED
  BY <1>2, KeptAlways, PTL

(* Only blank flash is programmed: the sector of a block is erased before   *)
(* the block is programmed, and erase_size is what has been erased of this  *)
(* image.                                                                   *)
THEOREM FlashOnlyErased ==
  ASSUME Calm
  PROVE  Spec => []ProgramOnlyErased
<1>1. FlashInv /\ FlowInv /\ Kept => ProgramOnlyErased
  BY DEF Kept, CellsInv, ProgramOnlyErased
<1>2. QED
  BY <1>1, KeptAlways, PTL

(* A region whose erasure has been acknowledged is blank, in whatever sizes *)
(* it was erased.                                                           *)
THEOREM FlashRegionErased ==
  ASSUME Calm
  PROVE  Spec => []RegionIsErased
<1>1. ASSUME FlashInv, FlowInv, Kept, host.phase = "erased", ~failed,
             NEW i \in 0 .. host.size - 1
      PROVE  flash[host.offset + i] = Blank
  <2>1. Fresh(host.offset, host.offset + host.size)
    BY <1>1 DEF Kept, CellsInv, RegionOver
  <2>2. host.offset \in Nat /\ host.size \in Nat
    BY <1>1 DEF FlashInv, HostOK
  <2>3. /\ host.offset + i \in Addr /\ host.offset <= host.offset + i
        /\ host.offset + i < host.offset + host.size
    BY <1>1, <2>2, FlashAssumption DEF Kept, PlaceInv, InFlash, Addr
  <2>4. QED
    BY <2>1, <2>3 DEF Fresh
<1>2. FlashInv /\ FlowInv /\ Kept => RegionIsErased
  BY <1>1 DEF RegionIsErased
<1>3. QED
  BY <1>2, KeptAlways, PTL

(* What changes the flash: the two commands.                                *)
LEMMA FlashChangers ==
  ASSUME Next, flash' # flash
  PROVE  EraseCommand \/ ProgramCommand
<1>1. ~RxInterrupt /\ ~ServeEvent /\ \A p \in Worker : ~ServePoll(p)
  BY DEF RxInterrupt, ServeEvent, ServePoll, device
<1>2. ~HostStep
  BY DEF HostStep, SendBegin, SendData, SendAgain, SendEnd, SendErase, SendChipErase, Send, device
<1>3. ~UartStep
  BY DEF UartStep, RxOther, FlashBegin, FlashData, FlashEnd, FlashErase, CopyBlock, CopyTest, EndTest,
     EraseResume, Reply, LoopAgain, Receive, UartUnchanged, device
<1>4. ~FlashStep
  BY DEF FlashStep, FlashIdle, ChipErase, ChipErased, RegionErase, RegionErased, RegionDone, NextBlock,
     Drained, SectorErased, BlockProgrammed, FlashUnchanged, device
<1>5. WorkerStep
  BY <1>1, <1>2, <1>3, <1>4 DEF Next, MainStep
<1>6. QED
  BY <1>5 DEF WorkerStep, EraseStart, ProgramStart, WriteEnable, ReadLatch, Resume, ChipCommand,
     ReadChip, EraseRead, ProgramRead, device

(* The sectors between two addresses of what the host has named.            *)
LEMMA SectorWithin ==
  ASSUME NEW o \in Nat, NEW s \in Nat, NEW x \in o .. o + s - 1
  PROVE  SectorOf(x) \in SectorOf(o) .. SectorOf(o + s - 1)
<1>1. PICK B \in Nat \ {0} : B = LOAD_BLK_SIZE
  BY RingAssumption
<1>2. x \in Nat /\ o + s - 1 \in Nat /\ o <= x /\ x <= o + s - 1
  OBVIOUS
<1>3. o \div B <= x \div B /\ x \div B <= (o + s - 1) \div B
  BY <1>2, DivMonotonic
<1>4. /\ o \div B \in Nat /\ x \div B \in Nat /\ (o + s - 1) \div B \in Nat
  BY <1>2, DivIs
<1>5. QED
  BY <1>1, <1>3, <1>4 DEF SectorOf, SPIROM_SECTOR_SIZE

(* No erasure and no program touches a sector the host did not name, even   *)
(* after an operation has failed: a large erase size is taken only if it    *)
(* fits into what is left, and a block is programmed and its sector erased  *)
(* only within the image.                                                   *)
THEOREM FlashConfined ==
  ASSUME Calm
  PROVE  Spec => EraseConfined
<1>1. ASSUME FlashInv, FlowInv, PlaceInv, Next, NEW x \in Addr, flash'[x] # flash[x]
      PROVE  SectorOf(x) \in SectorOf(host.offset) .. SectorOf(host.offset + host.size - 1)
  <2>1. x \in Nat
    BY FlashAssumption DEF Addr
  <2>2. CASE EraseCommand
    <3>1. /\ current = "erase" /\ worker["erase"].pc = "command" /\ ~chip_erase /\ "erase" \in Worker
      BY <2>2 DEF EraseCommand, Working, Worker
    <3>2. PICK a \in Nat : a = worker["erase"].addr
          /\ a \in host.offset .. host.offset + host.size - 1 /\ a % LOAD_BLK_SIZE = 0
          /\ host.offset \in Nat /\ host.size \in Nat
          /\ Remain(a) = host.offset + host.size - a
      <4>1. fpc # "chip_wait"
        BY <1>1, <3>1, HelperIs
      <4>2. QED
        BY <1>1, <3>1, <4>1, EraseAt
    <3>3. PICK r \in Nat \ {0} : r = Remain(a) /\ r = host.offset + host.size - a
      BY <3>2
    <3>4. PICK s \in Nat : s = EraseSize(a, r) /\ (s = LOAD_BLK_SIZE \/ s <= r)
      <4>1. EraseSize(a, r) = LOAD_BLK_SIZE \/ EraseSize(a, r) <= r
        BY <3>3, EraseSizeFits
      <4>2. PICK j \in Nat \ {0} : EraseSize(a, r) = j * LOAD_BLK_SIZE
        BY EraseSizeFits
      <4>3. j * LOAD_BLK_SIZE \in Nat
        BY RingAssumption
      <4>4. QED
        BY <4>1, <4>2, <4>3
    <3>5. flash' = Wiped(a, s) \/ flash' = flash
      BY <2>2, <3>2, <3>3, <3>4 DEF EraseCommand, Obey
    <3>6. flash' = Wiped(a, s) /\ DOMAIN flash = Addr
      BY <1>1, <3>5 DEF FlashInv, DeviceOK
    <3>7. a <= x /\ x < a + s
      <4>1. x < a \/ a + s <= x => flash'[x] = flash[x]
        BY <1>1, <3>6, WipedIs
      <4>2. QED
        BY <1>1, <2>1, <4>1
    <3>8. CASE s = LOAD_BLK_SIZE
      <4>1. PICK B \in Nat \ {0} : B = LOAD_BLK_SIZE
        BY RingAssumption
      <4>2. x \div B = a \div B
        BY <2>1, <3>2, <3>7, <3>8, <4>1, DivSame
      <4>3. SectorOf(x) = SectorOf(a)
        BY <4>1, <4>2 DEF SectorOf, SPIROM_SECTOR_SIZE
      <4>4. QED
        BY <3>2, <4>3, SectorWithin
    <3>9. CASE s <= r
      <4>1. x \in host.offset .. host.offset + host.size - 1
        BY <2>1, <3>2, <3>3, <3>7, <3>9
      <4>2. QED
        BY <3>2, <4>1, SectorWithin
    <3>10. QED
      BY <3>4, <3>8, <3>9
  <2>3. CASE ProgramCommand
    <3>1. /\ current = "program" /\ worker["program"].pc = "command"
      BY <2>3 DEF ProgramCommand, Working
    <3>2. PICK w : w = worker["program"]
      OBVIOUS
    <3>3. host.offset \in Nat /\ host.size \in Nat /\ w.addr \in host.offset .. host.offset + host.size - 1
      BY <1>1, <3>1, <3>2, ProgramAt
    <3>4. flash' = Written(w.addr, buf[w.buf][w.pos]) \/ flash' = flash
      BY <2>3, <3>2 DEF ProgramCommand, Obey
    <3>5. x = w.addr
      BY <1>1, <3>4 DEF Written, FlashInv, DeviceOK
    <3>6. QED
      BY <3>3, <3>5, SectorWithin
  <2>4. EraseCommand \/ ProgramCommand
    BY <1>1, FlashChangers
  <2>5. QED
    BY <2>2, <2>3, <2>4
<1> DEFINE Confined ==
      \A a \in Addr : flash'[a] # flash[a] =>
        SectorOf(a) \in SectorOf(host.offset) .. SectorOf(host.offset + host.size - 1)
<1>2. FlashInv /\ FlowInv /\ Kept /\ [Next]_vars => [Confined]_vars
  BY <1>1 DEF Kept
<1>3. QED
  BY <1>2, KeptAlways, PTL DEF Spec, EraseConfined
=============================================================================

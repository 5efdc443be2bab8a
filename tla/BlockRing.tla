----------------------------- MODULE BlockRing -----------------------------
(***************************************************************************)
(* The ring of load blocks between the serial loader and the programming   *)
(* processes: head, tail and data_ctrl of flash_prog (stub_load.c), used   *)
(* in the same way for flash and for SD card.                              *)
(*                                                                         *)
(* LOAD_BLK_NUM control slots share LOAD_BLK_NUM - 1 buffers.  The slots   *)
(* from head up to tail are ready: their buffers wait to be programmed.    *)
(* The slot at tail is being filled, unless the ring is full.  A slot gets *)
(* its buffer when the slot before it becomes ready.                       *)
(***************************************************************************)
EXTENDS Naturals

CONSTANTS
  LOAD_BLK_NUM,   \* control slots (main.h:45, 16)
  LOAD_BLK_SIZE   \* room in a buffer (main.h:44, 4096 bytes), in units

ASSUME RingAssumption ==
  /\ LOAD_BLK_NUM \in Nat \ {0, 1}
  /\ LOAD_BLK_SIZE \in Nat \ {0}

CtrlIdx == 0 .. LOAD_BLK_NUM - 1
BufIdx == 0 .. LOAD_BLK_NUM - 2
DataCtrl == [size : 0 .. LOAD_BLK_SIZE, buf_idx : BufIdx]

VARIABLE ring     \* ctrl_head, ctrl_tail and data_ctrl of flash_prog

EmptyRing == [head |-> 0, tail |-> 0,
              ctrl |-> [i \in CtrlIdx |-> [size |-> 0, buf_idx |-> 0]]]

Succ(i) == (i + 1) % LOAD_BLK_NUM

(* flash_prog_in_process, flash_get_rdy_buf: there is a ready slot, r.head. *)
InProcess(r) == r.head # r.tail

(* flash_get_free_buf: the slot r.tail can be filled. *)
HasFreeBuf(r) == Succ(r.tail) # r.head

(* Mutation: the next slot gets the buffer of its own number. *)
SetBufRdyBySlot(r) ==
  IF HasFreeBuf(r)
    THEN [r EXCEPT
            !.tail = Succ(r.tail),
            !.ctrl[Succ(r.tail)].buf_idx = Succ(r.tail) % (LOAD_BLK_NUM - 1)]
    ELSE r

(* flash_set_buf_rdy: the filled slot is ready, the next one gets a buffer. *)
SetBufRdy(r) ==
  IF HasFreeBuf(r)
    THEN [r EXCEPT
            !.tail = Succ(r.tail),
            !.ctrl[Succ(r.tail)].buf_idx =
                (r.ctrl[r.tail].buf_idx + 1) % (LOAD_BLK_NUM - 1)]
    ELSE r

(* Mutation: the size of the freed slot is left as it was. *)
SetBufFreeKeepSize(r) ==
  IF InProcess(r) THEN [r EXCEPT !.head = Succ(r.head)] ELSE r

(* flash_set_buf_free: the oldest ready slot is free again. *)
SetBufFree(r) ==
  IF InProcess(r)
    THEN [r EXCEPT !.head = Succ(r.head), !.ctrl[r.head].size = 0]
    ELSE r

(* _flash_mem_cpy: len more units are in the buffer of the slot at tail; it *)
(* becomes ready when it is full or the image is complete.                  *)
Room(r) == LOAD_BLK_SIZE - r.ctrl[r.tail].size
Filled(r, len, last) ==
  LET f == [r EXCEPT !.ctrl[r.tail].size = @ + len]
  IN  IF last \/ Room(f) = 0 THEN SetBufRdy(f) ELSE f

-----------------------------------------------------------------------------
(* What its users do to the ring. *)
Fill(len, last) == HasFreeBuf(ring) /\ ring' = Filled(ring, len, last)
Free == InProcess(ring) /\ ring' = SetBufFree(ring)
Reset == ring' = EmptyRing

RingInit == ring = EmptyRing
RingNext ==
  \/ \E len \in 1 .. Room(ring), last \in BOOLEAN : Fill(len, last)
  \/ Free
  \/ Reset
RingSpec == RingInit /\ [][RingNext]_ring

-----------------------------------------------------------------------------
RingTypeOK == ring \in [head : CtrlIdx, tail : CtrlIdx, ctrl : [CtrlIdx -> DataCtrl]]

(* Position of a slot, counted from head. *)
Pos(r, i) == IF r.head <= i THEN i - r.head ELSE i + LOAD_BLK_NUM - r.head
Ready(r, i) == Pos(r, i) < Pos(r, r.tail)
InUse(r, i) == Ready(r, i) \/ (i = r.tail /\ HasFreeBuf(r))

(* No two slots in use share a buffer, although there is one buffer less    *)
(* than slots and buffers are handed out by counting modulo that number:    *)
(* what is being received never overwrites what is still to be programmed.  *)
BuffersDistinct ==
  \A i, j \in CtrlIdx :
    i # j /\ InUse(ring, i) /\ InUse(ring, j)
      => ring.ctrl[i].buf_idx # ring.ctrl[j].buf_idx

(* The slot to be filled has room, so the copy loop of FLASH_DATA           *)
(* (uart_boot.c:289) makes progress whenever it finds a free buffer.        *)
RoomWhenFree == HasFreeBuf(ring) => Room(ring) > 0
=============================================================================

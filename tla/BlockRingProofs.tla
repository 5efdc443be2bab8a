-------------------------- MODULE BlockRingProofs --------------------------
(***************************************************************************)
(* Theorems about the block ring of module BlockRing, for every number of  *)
(* slots and every block size.                                             *)
(***************************************************************************)
EXTENDS BlockRing, Integers, TLAPS

(* Counting from head, the slots up to tail hold consecutive buffers.       *)
NthBuf(b, k) == IF b + k < LOAD_BLK_NUM - 1 THEN b + k ELSE b + k - (LOAD_BLK_NUM - 1)

Consecutive(r) ==
  \A i \in CtrlIdx :
    Pos(r, i) <= Pos(r, r.tail)
      => r.ctrl[i].buf_idx = NthBuf(r.ctrl[r.head].buf_idx, Pos(r, i))

(* The slots behind tail are empty, the slot at tail is not full. *)
RestEmpty(r) ==
  /\ \A i \in CtrlIdx : Pos(r, r.tail) < Pos(r, i) => r.ctrl[i].size = 0
  /\ r.ctrl[r.tail].size < LOAD_BLK_SIZE

Rings == [head : CtrlIdx, tail : CtrlIdx, ctrl : [CtrlIdx -> DataCtrl]]

Sound(r) == r \in Rings /\ Consecutive(r) /\ RestEmpty(r)

-----------------------------------------------------------------------------
(* The slot after the last one is the first. *)
LEMMA ModNext ==
  ASSUME NEW N \in Nat \ {0}, NEW i \in 0 .. N - 1
  PROVE  (i + 1) % N = IF i + 1 < N THEN i + 1 ELSE 0
  BY SMT

(* The next slot, and the next buffer, without modulo. *)
LEMMA SuccIs ==
  ASSUME NEW i \in CtrlIdx
  PROVE  Succ(i) = (IF i + 1 < LOAD_BLK_NUM THEN i + 1 ELSE 0) /\ Succ(i) \in CtrlIdx
  BY ModNext, RingAssumption DEF Succ, CtrlIdx

(* The buffer that follows in flash_set_buf_rdy is the next one of BufIdx.  *)
LEMMA NextBuf ==
  ASSUME NEW b \in BufIdx
  PROVE  (b + 1) % (LOAD_BLK_NUM - 1) = NthBuf(b, 1) /\ NthBuf(b, 1) \in BufIdx
<1>1. PICK M \in Nat \ {0} : M = LOAD_BLK_NUM - 1 /\ b \in 0 .. M - 1
  BY RingAssumption DEF BufIdx
<1>2. (b + 1) % M = IF b + 1 < M THEN b + 1 ELSE 0
  BY <1>1, ModNext
<1>3. NthBuf(b, 1) = IF b + 1 < M THEN b + 1 ELSE 0
  BY <1>1, RingAssumption DEF NthBuf, BufIdx
<1>4. NthBuf(b, 1) \in BufIdx
  BY RingAssumption DEF NthBuf, BufIdx
<1>5. QED
  BY <1>1, <1>2, <1>3, <1>4, Zenon

(* Positions are slots' distances from head: different slots, different ones. *)
LEMMA PosRange ==
  ASSUME NEW r \in Rings
  PROVE  /\ \A i \in CtrlIdx : Pos(r, i) \in CtrlIdx
         /\ \A i, j \in CtrlIdx : i # j => Pos(r, i) # Pos(r, j)
         /\ Pos(r, r.head) = 0
  BY RingAssumption DEF Pos, Rings, CtrlIdx

(* flash_get_free_buf finds a buffer unless all slots but one are ready.    *)
LEMMA FreeMeans ==
  ASSUME NEW r \in Rings
  PROVE  /\ HasFreeBuf(r) <=> Pos(r, r.tail) < LOAD_BLK_NUM - 1
         /\ HasFreeBuf(r) => Pos(r, Succ(r.tail)) = Pos(r, r.tail) + 1
<1>1. r.tail \in CtrlIdx /\ r.head \in CtrlIdx
  BY DEF Rings
<1>2. QED
  BY <1>1, SuccIs, RingAssumption DEF HasFreeBuf, Pos, CtrlIdx

-----------------------------------------------------------------------------
(* The ring that FLASH_BEGIN leaves is sound.                               *)
LEMMA EmptySound == Sound(EmptyRing)
<1>1. EmptyRing \in Rings
  BY RingAssumption DEF EmptyRing, Rings, CtrlIdx, DataCtrl, BufIdx
<1>2. \A i \in CtrlIdx : Pos(EmptyRing, i) = i
  BY RingAssumption DEF EmptyRing, Pos, CtrlIdx
<1>3. Consecutive(EmptyRing)
  <2>1. /\ EmptyRing.head = 0 /\ EmptyRing.tail = 0 /\ 0 \in CtrlIdx
        /\ \A i \in CtrlIdx : EmptyRing.ctrl[i].buf_idx = 0
    BY RingAssumption DEF EmptyRing, CtrlIdx
  <2>2. ASSUME NEW i \in CtrlIdx, Pos(EmptyRing, i) <= Pos(EmptyRing, EmptyRing.tail)
        PROVE  EmptyRing.ctrl[i].buf_idx
                 = NthBuf(EmptyRing.ctrl[EmptyRing.head].buf_idx, Pos(EmptyRing, i))
    <3>1. i = 0 /\ Pos(EmptyRing, i) = 0
      BY <1>2, <2>1, <2>2 DEF CtrlIdx
    <3>2. NthBuf(0, 0) = 0
      BY RingAssumption DEF NthBuf
    <3>3. QED
      BY <2>1, <3>1, <3>2
  <2>3. QED
    BY <2>2 DEF Consecutive
<1>4. RestEmpty(EmptyRing)
  BY RingAssumption DEF RestEmpty, EmptyRing, CtrlIdx
<1>5. QED
  BY <1>1, <1>3, <1>4 DEF Sound

(* flash_set_buf_free keeps the ring sound.                                 *)
LEMMA SetBufFreeSound ==
  ASSUME NEW r, Sound(r), InProcess(r)
  PROVE  Sound(SetBufFree(r))
<1> DEFINE q == SetBufFree(r)
<1>1. /\ r \in Rings /\ r.head \in CtrlIdx /\ r.tail \in CtrlIdx /\ r.head # r.tail
      /\ r.ctrl \in [CtrlIdx -> DataCtrl]
  BY DEF Sound, Rings, InProcess
<1>2. /\ q.head = Succ(r.head) /\ q.tail = r.tail
      /\ q.ctrl = [r.ctrl EXCEPT ![r.head].size = 0]
      /\ q \in Rings
  <2>1. q = [head |-> Succ(r.head), tail |-> r.tail, ctrl |-> [r.ctrl EXCEPT ![r.head].size = 0]]
    BY <1>1 DEF SetBufFree, InProcess, Rings
  <2>2. [r.ctrl EXCEPT ![r.head].size = 0] \in [CtrlIdx -> DataCtrl]
    BY <1>1, RingAssumption DEF DataCtrl
  <2>3. QED
    BY <1>1, <2>1, <2>2, SuccIs DEF Rings
<1>3. /\ \A i \in CtrlIdx : q.ctrl[i].buf_idx = r.ctrl[i].buf_idx
      /\ \A i \in CtrlIdx : i # r.head => q.ctrl[i].size = r.ctrl[i].size
      /\ q.ctrl[r.head].size = 0
  BY <1>1, <1>2 DEF DataCtrl
<1>4. /\ \A i \in CtrlIdx : i # r.head => Pos(q, i) = Pos(r, i) - 1
      /\ Pos(q, r.head) = LOAD_BLK_NUM - 1
  <2> HIDE DEF q
  <2>1. q.head = (IF r.head + 1 < LOAD_BLK_NUM THEN r.head + 1 ELSE 0)
    BY <1>1, <1>2, SuccIs
  <2>2. r.head \in 0 .. LOAD_BLK_NUM - 1
    BY <1>1 DEF CtrlIdx
  <2>3. ASSUME NEW i \in CtrlIdx, i # r.head
        PROVE  Pos(q, i) = Pos(r, i) - 1
    BY <2>1, <2>2, <2>3, RingAssumption DEF Pos, CtrlIdx
  <2>4. Pos(q, r.head) = LOAD_BLK_NUM - 1
    BY <2>1, <2>2, RingAssumption DEF Pos
  <2>5. QED
    BY <2>3, <2>4
<1>5. r.ctrl[r.head].buf_idx \in BufIdx
  BY <1>1 DEF DataCtrl
<1> HIDE DEF q
<1>6. Pos(r, r.tail) \in 1 .. LOAD_BLK_NUM - 1 /\ Pos(q, q.tail) = Pos(r, r.tail) - 1
  BY <1>1, <1>2, <1>4, RingAssumption DEF Pos, CtrlIdx
<1>7. Consecutive(q)
  <2>1. q.head \in CtrlIdx /\ q.head # r.head /\ Pos(r, q.head) = 1
    BY <1>1, <1>2, SuccIs, RingAssumption DEF Pos, CtrlIdx
  <2>2. q.ctrl[q.head].buf_idx = NthBuf(r.ctrl[r.head].buf_idx, 1)
    BY <1>3, <1>6, <2>1 DEF Sound, Consecutive
  <2>3. ASSUME NEW i \in CtrlIdx, Pos(q, i) <= Pos(q, q.tail)
        PROVE  q.ctrl[i].buf_idx = NthBuf(q.ctrl[q.head].buf_idx, Pos(q, i))
    <3>1. i # r.head
      BY <1>4, <1>6, <2>3, RingAssumption
    <3>2. Pos(r, i) \in CtrlIdx /\ Pos(q, i) = Pos(r, i) - 1 /\ Pos(q, i) \in CtrlIdx
      BY <1>1, <1>2, <1>4, <3>1, PosRange
    <3>3. r.ctrl[i].buf_idx = NthBuf(r.ctrl[r.head].buf_idx, Pos(r, i))
      BY <1>6, <2>3, <3>2, RingAssumption DEF Sound, Consecutive, CtrlIdx
    <3>4. QED
      BY <1>3, <1>5, <2>2, <3>2, <3>3, RingAssumption DEF NthBuf, BufIdx, CtrlIdx
  <2>4. QED
    BY <2>3 DEF Consecutive
<1>8. RestEmpty(q)
  <2>1. ASSUME NEW i \in CtrlIdx, Pos(q, q.tail) < Pos(q, i)
        PROVE  q.ctrl[i].size = 0
    <3>1. CASE i = r.head
      BY <1>3, <3>1
    <3>2. CASE i # r.head
      <4>1. Pos(r, r.tail) < Pos(r, i)
        BY <1>1, <1>4, <1>6, <2>1, <3>2, PosRange, RingAssumption DEF CtrlIdx
      <4>2. QED
        BY <1>3, <3>2, <4>1 DEF Sound, RestEmpty
    <3>3. QED
      BY <3>1, <3>2
  <2>2. q.ctrl[q.tail].size < LOAD_BLK_SIZE
    BY <1>1, <1>2, <1>3 DEF Sound, RestEmpty
  <2>3. QED
    BY <2>1, <2>2 DEF RestEmpty
<1>9. QED
  BY <1>2, <1>7, <1>8 DEF Sound, q

(* flash_set_buf_rdy keeps the ring sound.                                  *)
LEMMA SetBufRdySound ==
  ASSUME NEW r \in Rings, Consecutive(r), HasFreeBuf(r),
         \A i \in CtrlIdx : Pos(r, r.tail) < Pos(r, i) => r.ctrl[i].size = 0
  PROVE  Sound(SetBufRdy(r))
<1> DEFINE q == SetBufRdy(r)
           t == Succ(r.tail)
           b == (r.ctrl[r.tail].buf_idx + 1) % (LOAD_BLK_NUM - 1)
<1>1. /\ r.head \in CtrlIdx /\ r.tail \in CtrlIdx /\ t \in CtrlIdx
      /\ r.ctrl \in [CtrlIdx -> DataCtrl] /\ r.ctrl[r.tail].buf_idx \in BufIdx
      /\ r.ctrl[r.head].buf_idx \in BufIdx
  BY SuccIs DEF Rings, DataCtrl
<1>2. b = NthBuf(r.ctrl[r.tail].buf_idx, 1) /\ b \in BufIdx
  BY <1>1, NextBuf
<1> HIDE DEF b, t
<1>3. q = [head |-> r.head, tail |-> t, ctrl |-> [r.ctrl EXCEPT ![t].buf_idx = b]]
  BY DEF SetBufRdy, Rings, b, t
<1>4. /\ q.head = r.head /\ q.tail = t
      /\ \A i \in CtrlIdx : i # t => q.ctrl[i] = r.ctrl[i]
      /\ q.ctrl[t].buf_idx = b /\ q.ctrl[t].size = r.ctrl[t].size
      /\ q \in Rings
  BY <1>1, <1>2, <1>3 DEF Rings, DataCtrl
<1>5. /\ Pos(r, t) = Pos(r, r.tail) + 1 /\ Pos(r, r.tail) < LOAD_BLK_NUM - 1
      /\ \A i \in CtrlIdx : Pos(q, i) = Pos(r, i)
      /\ Pos(r, t) # 0
  BY <1>1, <1>4, FreeMeans, PosRange, RingAssumption DEF t, Pos, CtrlIdx
<1> HIDE DEF q
<1>6. Consecutive(q)
  <2>1. q.ctrl[q.head].buf_idx = r.ctrl[r.head].buf_idx
    BY <1>1, <1>4, <1>5, PosRange
  <2>2. b = NthBuf(r.ctrl[r.head].buf_idx, Pos(r, t))
    <3>1. r.ctrl[r.tail].buf_idx = NthBuf(r.ctrl[r.head].buf_idx, Pos(r, r.tail))
      BY <1>1, PosRange, RingAssumption DEF Consecutive, CtrlIdx
    <3>2. Pos(r, r.tail) \in CtrlIdx
      BY <1>1, PosRange
    <3>3. ASSUME NEW h \in BufIdx, NEW k \in 0 .. LOAD_BLK_NUM - 2
          PROVE  NthBuf(NthBuf(h, k), 1) = NthBuf(h, k + 1)
      BY RingAssumption DEF NthBuf, BufIdx
    <3>4. Pos(r, r.tail) \in 0 .. LOAD_BLK_NUM - 2
      BY <1>5, <3>2, RingAssumption DEF CtrlIdx
    <3>5. QED
      BY <1>1, <1>2, <1>5, <3>1, <3>3, <3>4
  <2>3. ASSUME NEW i \in CtrlIdx, Pos(q, i) <= Pos(q, q.tail)
        PROVE  q.ctrl[i].buf_idx = NthBuf(q.ctrl[q.head].buf_idx, Pos(q, i))
    <3>1. CASE i = t
      BY <1>4, <1>5, <2>1, <2>2, <3>1
    <3>2. CASE i # t
      <4>1. /\ Pos(r, i) \in CtrlIdx /\ Pos(r, t) \in CtrlIdx
            /\ Pos(r, r.tail) \in CtrlIdx /\ Pos(r, i) # Pos(r, t)
        BY <1>1, <3>2, PosRange
      <4>2. Pos(r, i) <= Pos(r, t)
        <5>1. q.tail = t /\ Pos(q, i) = Pos(r, i) /\ Pos(q, t) = Pos(r, t)
          BY <1>1, <1>4, <1>5
        <5>2. QED
          BY <2>3, <5>1
      <4>3. Pos(r, i) <= Pos(r, r.tail)
        BY <1>5, <4>1, <4>2, RingAssumption DEF CtrlIdx
      <4>4. QED
        BY <1>4, <1>5, <2>1, <3>2, <4>3 DEF Consecutive
    <3>3. QED
      BY <3>1, <3>2
  <2>4. QED
    BY <2>3 DEF Consecutive
<1>7. RestEmpty(q)
  <2>1. ASSUME NEW i \in CtrlIdx, Pos(q, q.tail) < Pos(q, i)
        PROVE  q.ctrl[i].size = 0
    <3>1. Pos(r, r.tail) + 1 < Pos(r, i) /\ Pos(r, i) \in Nat /\ Pos(r, r.tail) \in Nat
      BY <1>1, <1>4, <1>5, <2>1, PosRange, RingAssumption DEF CtrlIdx
    <3>2. i # t
      BY <1>5, <3>1
    <3>3. Pos(r, r.tail) < Pos(r, i)
      BY <3>1
    <3>4. QED
      BY <1>4, <3>2, <3>3
  <2>2. q.ctrl[q.tail].size = 0
    <3>1. Pos(r, r.tail) \in Nat
      BY <1>1, PosRange, RingAssumption DEF CtrlIdx
    <3>2. Pos(r, r.tail) < Pos(r, t)
      BY <1>5, <3>1
    <3>3. QED
      BY <1>1, <1>4, <3>2
  <2>3. QED
    BY <2>1, <2>2, RingAssumption DEF RestEmpty
<1>8. QED
  BY <1>4, <1>6, <1>7 DEF Sound, q

(* Copying into the slot at tail touches no other slot, and no buffer number. *)
LEMMA FilledSound ==
  ASSUME NEW r, Sound(r), HasFreeBuf(r), NEW len \in 1 .. Room(r), NEW last \in BOOLEAN
  PROVE  Sound(Filled(r, len, last))
<1> DEFINE f == [r EXCEPT !.ctrl[r.tail].size = @ + len]
           z == r.ctrl[r.tail].size + len
<1>1. /\ r \in Rings /\ r.head \in CtrlIdx /\ r.tail \in CtrlIdx
      /\ r.ctrl \in [CtrlIdx -> DataCtrl] /\ r.ctrl[r.tail] \in DataCtrl
  BY DEF Sound, Rings
<1>2. z \in 0 .. LOAD_BLK_SIZE
  BY <1>1, RingAssumption DEF Room, DataCtrl
<1> HIDE DEF z
<1>3. f = [head |-> r.head, tail |-> r.tail, ctrl |-> [r.ctrl EXCEPT ![r.tail].size = z]]
  BY <1>1 DEF Rings, z
<1>4. /\ f.head = r.head /\ f.tail = r.tail /\ f \in Rings
      /\ \A i \in CtrlIdx : f.ctrl[i].buf_idx = r.ctrl[i].buf_idx
      /\ \A i \in CtrlIdx : i # r.tail => f.ctrl[i].size = r.ctrl[i].size
      /\ f.ctrl[r.tail].size = z
  BY <1>1, <1>2, <1>3 DEF Rings, DataCtrl
<1> HIDE DEF f
<1>5. \A i \in CtrlIdx : Pos(f, i) = Pos(r, i)
  BY <1>4 DEF Pos
<1>6. Consecutive(f)
  BY <1>1, <1>4, <1>5 DEF Sound, Consecutive
<1>7. \A i \in CtrlIdx : Pos(f, f.tail) < Pos(f, i) => f.ctrl[i].size = 0
  <2>1. ASSUME NEW i \in CtrlIdx, Pos(f, f.tail) < Pos(f, i)
        PROVE  f.ctrl[i].size = 0
    <3>1. Pos(r, r.tail) < Pos(r, i) /\ i # r.tail
      BY <1>1, <1>4, <1>5, <2>1, PosRange, RingAssumption DEF CtrlIdx
    <3>2. QED
      BY <1>4, <3>1 DEF Sound, RestEmpty
  <2>2. QED
    BY <2>1
<1>8. CASE last \/ Room(f) = 0
  <2>1. HasFreeBuf(f)
    BY <1>4 DEF HasFreeBuf
  <2>2. Sound(SetBufRdy(f))
    BY <1>4, <1>6, <1>7, <2>1, SetBufRdySound
  <2>3. QED
    BY <1>8, <2>2 DEF Filled, f
<1>9. CASE ~(last \/ Room(f) = 0)
  <2>1. f.ctrl[f.tail].size < LOAD_BLK_SIZE
    BY <1>2, <1>4, <1>9, RingAssumption DEF Room
  <2>2. Sound(f)
    BY <1>4, <1>6, <1>7, <2>1 DEF Sound, RestEmpty
  <2>3. QED
    BY <1>9, <2>2 DEF Filled, f
<1>10. QED
  BY <1>8, <1>9

-----------------------------------------------------------------------------
(* No block that is ready is empty: what is programmed is never nothing.    *)
NoEmptyBlock(r) == \A i \in CtrlIdx : Ready(r, i) => r.ctrl[i].size > 0

(* Freeing a block leaves the others as they are.                           *)
LEMMA FreedNotEmpty ==
  ASSUME NEW r, Sound(r), InProcess(r), NoEmptyBlock(r)
  PROVE  NoEmptyBlock(SetBufFree(r))
<1> DEFINE q == SetBufFree(r)
<1>1. /\ r \in Rings /\ r.head \in CtrlIdx /\ r.tail \in CtrlIdx /\ r.head # r.tail
      /\ q = [head |-> Succ(r.head), tail |-> r.tail, ctrl |-> [r.ctrl EXCEPT ![r.head].size = 0]]
  BY DEF Sound, Rings, InProcess, SetBufFree
<1>2. \A i \in CtrlIdx : i # r.head => q.ctrl[i] = r.ctrl[i]
  BY <1>1 DEF Rings
<1>3. q.head = (IF r.head + 1 < LOAD_BLK_NUM THEN r.head + 1 ELSE 0) /\ q.tail = r.tail
  BY <1>1, SuccIs
<1> HIDE DEF q
<1>4. ASSUME NEW i \in CtrlIdx, Ready(q, i)
      PROVE  i # r.head /\ Ready(r, i)
  BY <1>1, <1>3, <1>4, RingAssumption DEF Ready, Pos, CtrlIdx
<1>5. QED
  BY <1>2, <1>4 DEF NoEmptyBlock, q

(* Copying something into the slot at tail makes no empty block ready.      *)
LEMMA FilledNotEmpty ==
  ASSUME NEW r, Sound(r), HasFreeBuf(r), NEW len \in 1 .. Room(r), NEW last \in BOOLEAN,
         NoEmptyBlock(r)
  PROVE  NoEmptyBlock(Filled(r, len, last))
<1> DEFINE f == [r EXCEPT !.ctrl[r.tail].size = @ + len]
           z == r.ctrl[r.tail].size + len
           t == Succ(r.tail)
           b == (r.ctrl[r.tail].buf_idx + 1) % (LOAD_BLK_NUM - 1)
<1>1. /\ r \in Rings /\ r.head \in CtrlIdx /\ r.tail \in CtrlIdx /\ t \in CtrlIdx /\ t # r.tail
      /\ r.ctrl \in [CtrlIdx -> DataCtrl] /\ r.ctrl[r.tail] \in DataCtrl
  <2>1. /\ r \in Rings /\ r.head \in CtrlIdx /\ r.tail \in CtrlIdx
        /\ r.ctrl \in [CtrlIdx -> DataCtrl] /\ r.ctrl[r.tail] \in DataCtrl
    BY DEF Sound, Rings
  <2>2. t \in CtrlIdx /\ t = (IF r.tail + 1 < LOAD_BLK_NUM THEN r.tail + 1 ELSE 0)
    BY <2>1, SuccIs
  <2>3. t # r.tail
    BY <2>1, <2>2, RingAssumption DEF CtrlIdx
  <2>4. QED
    BY <2>1, <2>2, <2>3
<1>2a. /\ \A i \in CtrlIdx : Pos(r, i) \in Nat
       /\ \A i, j \in CtrlIdx : i # j => Pos(r, i) # Pos(r, j)
       /\ Pos(r, t) = Pos(r, r.tail) + 1
  <2>1. CtrlIdx \subseteq Nat
    BY RingAssumption DEF CtrlIdx
  <2>2. Pos(r, t) = Pos(r, r.tail) + 1
    BY <1>1, FreeMeans DEF t
  <2>3. QED
    BY <1>1, <2>1, <2>2, PosRange
<1>2. z \in 1 .. LOAD_BLK_SIZE
  BY <1>1, RingAssumption DEF Room, DataCtrl
<1> HIDE DEF z, t, b
<1>3. f = [head |-> r.head, tail |-> r.tail, ctrl |-> [r.ctrl EXCEPT ![r.tail].size = z]]
  BY <1>1 DEF Rings, z
<1>4. /\ f.head = r.head /\ f.tail = r.tail /\ f \in Rings
      /\ \A i \in CtrlIdx : i # r.tail => f.ctrl[i] = r.ctrl[i]
      /\ f.ctrl[r.tail].size = z
      /\ f.ctrl[r.tail].buf_idx = r.ctrl[r.tail].buf_idx
  BY <1>1, <1>2, <1>3 DEF Rings, DataCtrl
<1> HIDE DEF f
<1>5. CASE last \/ Room(f) = 0
  <2>1. SetBufRdy(f) = [head |-> r.head, tail |-> t, ctrl |-> [f.ctrl EXCEPT ![t].buf_idx = b]]
    BY <1>1, <1>4 DEF SetBufRdy, HasFreeBuf, Rings, t, b
  <2> DEFINE q == SetBufRdy(f)
  <2>2. /\ q.head = r.head /\ q.tail = t
        /\ \A i \in CtrlIdx : i # t => q.ctrl[i] = f.ctrl[i]
    BY <1>4, <2>1 DEF Rings
  <2> HIDE DEF q
  <2>3. ASSUME NEW i \in CtrlIdx, Ready(q, i)
        PROVE  i # t /\ (i = r.tail \/ Ready(r, i))
    <3>1. Pos(q, i) = Pos(r, i) /\ Pos(q, q.tail) = Pos(r, t)
      BY <2>2 DEF Pos
    <3>2. Pos(r, i) < Pos(r, r.tail) + 1
      BY <1>2a, <2>3, <3>1 DEF Ready
    <3>3. i = r.tail \/ Pos(r, i) < Pos(r, r.tail)
      BY <1>1, <1>2a, <3>2
    <3>4. QED
      BY <1>1, <3>2, <3>3, <1>2a DEF Ready
  <2>4. NoEmptyBlock(q)
    BY <1>1, <1>2, <1>4, <2>2, <2>3 DEF NoEmptyBlock
  <2>5. QED
    BY <1>5, <2>4 DEF Filled, f, q
<1>6. CASE ~(last \/ Room(f) = 0)
  <2>1. ASSUME NEW i \in CtrlIdx, Ready(f, i)
        PROVE  i # r.tail /\ Ready(r, i)
    BY <1>1, <1>4, <2>1, RingAssumption DEF Ready, Pos, CtrlIdx
  <2>2. NoEmptyBlock(f)
    BY <1>4, <2>1 DEF NoEmptyBlock
  <2>3. QED
    BY <1>6, <2>2 DEF Filled, f
<1>7. QED
  BY <1>5, <1>6

-----------------------------------------------------------------------------
(* Every use of the ring keeps it sound.                                    *)
LEMMA RingSound == RingSpec => []Sound(ring)
<1>1. RingInit => Sound(ring)
  BY EmptySound DEF RingInit
<1>2. Sound(ring) /\ [RingNext]_ring => Sound(ring)'
  <2> SUFFICES ASSUME Sound(ring), [RingNext]_ring
               PROVE  Sound(ring')
    OBVIOUS
  <2>1. ASSUME NEW len \in 1 .. Room(ring), NEW last \in BOOLEAN, Fill(len, last)
        PROVE  Sound(ring')
    BY <2>1, FilledSound DEF Fill
  <2>2. CASE Free
    BY <2>2, SetBufFreeSound DEF Free
  <2>3. CASE Reset
    BY <2>3, EmptySound DEF Reset
  <2>4. CASE UNCHANGED ring
    BY <2>4
  <2>5. QED
    BY <2>1, <2>2, <2>3, <2>4 DEF RingNext
<1>3. QED
  BY <1>1, <1>2, PTL DEF RingSpec

(* The ring keeps its type: head and tail stay slots, no slot claims more   *)
(* than a block (stub_load.c:448-517).                                      *)
THEOREM RingTypeCorrect == RingSpec => []RingTypeOK
<1>1. Sound(ring) => RingTypeOK
  BY DEF Sound, Rings, RingTypeOK
<1>2. QED
  BY <1>1, RingSound, PTL

(* For every number of slots, the slots that are ready or being filled use  *)
(* different buffers, though one buffer is shared by two slots of the ring. *)
THEOREM NoBufferShared == RingSpec => []BuffersDistinct
<1>1. Sound(ring) => BuffersDistinct
  <2> SUFFICES ASSUME Sound(ring), NEW i \in CtrlIdx, NEW j \in CtrlIdx, i # j,
                      InUse(ring, i), InUse(ring, j)
               PROVE  ring.ctrl[i].buf_idx # ring.ctrl[j].buf_idx
    BY DEF BuffersDistinct
  <2>1. ring \in Rings /\ ring.ctrl[ring.head].buf_idx \in BufIdx /\ ring.tail \in CtrlIdx
    BY DEF Sound, Rings, DataCtrl
  <2>2. ASSUME NEW k \in CtrlIdx, InUse(ring, k)
        PROVE  /\ Pos(ring, k) <= Pos(ring, ring.tail)
               /\ Pos(ring, k) < LOAD_BLK_NUM - 1
               /\ Pos(ring, k) \in CtrlIdx
    BY <2>1, <2>2, PosRange, FreeMeans, RingAssumption DEF InUse, Ready, CtrlIdx
  <2>3. Pos(ring, i) # Pos(ring, j)
    BY <2>1, PosRange
  <2>4. /\ ring.ctrl[i].buf_idx = NthBuf(ring.ctrl[ring.head].buf_idx, Pos(ring, i))
        /\ ring.ctrl[j].buf_idx = NthBuf(ring.ctrl[ring.head].buf_idx, Pos(ring, j))
    BY <2>2 DEF Sound, Consecutive
  <2>5. Pos(ring, i) \in BufIdx /\ Pos(ring, j) \in BufIdx
    BY <2>2, RingAssumption DEF CtrlIdx, BufIdx
  <2>6. QED
    BY <2>1, <2>3, <2>4, <2>5, RingAssumption DEF NthBuf, BufIdx
<1>2. QED
  BY <1>1, RingSound, PTL

(* For every number of slots, a slot that may be filled has room, so the    *)
(* copy loop of FLASH_DATA never spins on a free buffer.                    *)
THEOREM FreeBufHasRoom == RingSpec => []RoomWhenFree
<1>1. Sound(ring) => RoomWhenFree
  BY RingAssumption DEF Sound, RestEmpty, RoomWhenFree, Room, Rings, DataCtrl
<1>2. QED
  BY <1>1, RingSound, PTL
-----------------------------------------------------------------------------
(* The units of an image in the ring: n of them, in the order of the slots, *)
(* each as full as it can be; closed, the last of them is there.            *)
Share(n) == IF n < 0 THEN 0 ELSE IF n > LOAD_BLK_SIZE THEN LOAD_BLK_SIZE ELSE n

Lined(r, n, closed) ==
  /\ \A i \in CtrlIdx : r.ctrl[i].size = Share(n - Pos(r, i) * LOAD_BLK_SIZE)
  /\ n <= (LOAD_BLK_NUM - 1) * LOAD_BLK_SIZE
  /\ closed  => /\ n <= Pos(r, r.tail) * LOAD_BLK_SIZE
                /\ Pos(r, r.tail) = 0 \/ (Pos(r, r.tail) - 1) * LOAD_BLK_SIZE < n
  /\ ~closed => /\ Pos(r, r.tail) * LOAD_BLK_SIZE <= n
                /\ n < Pos(r, r.tail) * LOAD_BLK_SIZE + LOAD_BLK_SIZE

(* The buffers of the slots hold the units of image from base on.           *)
Holds(r, b, image, base) ==
  \A i \in CtrlIdx : \A x \in 0 .. r.ctrl[i].size - 1 :
    b[r.ctrl[i].buf_idx][x] = image[base + Pos(r, i) * LOAD_BLK_SIZE + x]

(* Buffers c are b with the len units of image from u on behind those in    *)
(* the buffer of the slot at tail.                                          *)
Appended(r, b, c, len, image, u) ==
  LET t == r.ctrl[r.tail]
  IN  /\ \A i \in BufIdx : i # t.buf_idx => c[i] = b[i]
      /\ \A x \in 0 .. t.size - 1 : c[t.buf_idx][x] = b[t.buf_idx][x]
      /\ \A x \in 0 .. len - 1 : c[t.buf_idx][t.size + x] = image[u + x]

(* Multiples of the block's size.                                           *)
LEMMA BlockTimes ==
  ASSUME NEW j \in Nat, NEW k \in Nat
  PROVE  /\ j * LOAD_BLK_SIZE \in Nat
         /\ (j + 1) * LOAD_BLK_SIZE = j * LOAD_BLK_SIZE + LOAD_BLK_SIZE
         /\ j < k => j * LOAD_BLK_SIZE + LOAD_BLK_SIZE <= k * LOAD_BLK_SIZE
<1>1. PICK B \in Nat \ {0} : B = LOAD_BLK_SIZE
  BY RingAssumption
<1>2. j * B \in Nat /\ k * B \in Nat /\ (j + 1) * B = j * B + B
  BY <1>1
<1>3. ASSUME j < k PROVE j * B + B <= k * B
  <2>1. PICK d \in Nat : k = j + 1 + d
    BY <1>3
  <2>2. k * B = j * B + B + d * B /\ d * B \in Nat
    BY <2>1
  <2>3. QED
    BY <1>2, <2>2
<1>4. QED
  BY <1>1, <1>2, <1>3

(* A ring that has been emptied holds none of the units.                    *)
LEMMA EmptyLined ==
  ASSUME NEW closed \in BOOLEAN, NEW b, NEW image, NEW base
  PROVE  Lined(EmptyRing, 0, closed) /\ Holds(EmptyRing, b, image, base)
<1>1. /\ EmptyRing.tail = 0 /\ EmptyRing.head = 0
      /\ \A i \in CtrlIdx : EmptyRing.ctrl[i].size = 0 /\ Pos(EmptyRing, i) = i /\ i \in Nat
  BY RingAssumption DEF EmptyRing, CtrlIdx, Pos
<1>2. 0 \in CtrlIdx /\ Pos(EmptyRing, 0) = 0
  BY <1>1, RingAssumption DEF CtrlIdx
<1> HIDE DEF EmptyRing
<1>3. \A i \in CtrlIdx : EmptyRing.ctrl[i].size = Share(0 - Pos(EmptyRing, i) * LOAD_BLK_SIZE)
  <2> SUFFICES ASSUME NEW i \in CtrlIdx
               PROVE  EmptyRing.ctrl[i].size = Share(0 - Pos(EmptyRing, i) * LOAD_BLK_SIZE)
    OBVIOUS
  <2>1. PICK k \in Nat : k = i * LOAD_BLK_SIZE
    BY <1>1, BlockTimes
  <2>2. QED
    BY <1>1, <2>1, RingAssumption DEF Share
<1>4. 0 <= (LOAD_BLK_NUM - 1) * LOAD_BLK_SIZE
  BY BlockTimes, RingAssumption
<1>5. Lined(EmptyRing, 0, closed)
  BY <1>1, <1>2, <1>3, <1>4, RingAssumption DEF Lined
<1>6. Holds(EmptyRing, b, image, base)
  BY <1>1 DEF Holds
<1>7. QED
  BY <1>5, <1>6

(* flash_set_buf_free, slot by slot.                                        *)
LEMMA FreedIs ==
  ASSUME NEW r \in Rings, InProcess(r)
  PROVE  LET q == SetBufFree(r)
         IN  /\ q.tail = r.tail /\ q.head = Succ(r.head) /\ q.head \in CtrlIdx
             /\ \A i \in CtrlIdx : q.ctrl[i].buf_idx = r.ctrl[i].buf_idx
             /\ \A i \in CtrlIdx : q.ctrl[i].size = IF i = r.head THEN 0 ELSE r.ctrl[i].size
             /\ \A i \in CtrlIdx : Pos(q, i) = IF i = r.head THEN LOAD_BLK_NUM - 1 ELSE Pos(r, i) - 1
<1> DEFINE q == SetBufFree(r)
<1>1. /\ r.head \in CtrlIdx /\ r.tail \in CtrlIdx /\ r.head # r.tail
      /\ r.ctrl \in [CtrlIdx -> DataCtrl]
  BY DEF Rings, InProcess
<1>2. /\ q.head = Succ(r.head) /\ q.tail = r.tail
      /\ q.ctrl = [r.ctrl EXCEPT ![r.head].size = 0]
  <2>1. q = [head |-> Succ(r.head), tail |-> r.tail, ctrl |-> [r.ctrl EXCEPT ![r.head].size = 0]]
    BY <1>1 DEF SetBufFree, InProcess, Rings
  <2>2. QED
    BY <2>1
<1>3. /\ \A i \in CtrlIdx : q.ctrl[i].buf_idx = r.ctrl[i].buf_idx
      /\ \A i \in CtrlIdx : q.ctrl[i].size = IF i = r.head THEN 0 ELSE r.ctrl[i].size
  BY <1>1, <1>2 DEF DataCtrl
<1> HIDE DEF q
<1>4. q.head = (IF r.head + 1 < LOAD_BLK_NUM THEN r.head + 1 ELSE 0) /\ q.head \in CtrlIdx
  BY <1>1, <1>2, SuccIs
<1>5. \A i \in CtrlIdx : Pos(q, i) = IF i = r.head THEN LOAD_BLK_NUM - 1 ELSE Pos(r, i) - 1
  BY <1>1, <1>4, RingAssumption DEF Pos, CtrlIdx
<1>6. QED
  BY <1>2, <1>3, <1>4, <1>5 DEF q

(* _flash_mem_cpy, slot by slot.                                            *)
LEMMA FilledIs ==
  ASSUME NEW r \in Rings, HasFreeBuf(r), NEW len \in 1 .. Room(r), NEW last \in BOOLEAN
  PROVE  LET q == Filled(r, len, last)
         IN  /\ q.head = r.head
             /\ q.tail = IF last \/ len = Room(r) THEN Succ(r.tail) ELSE r.tail
             /\ \A i \in CtrlIdx : q.ctrl[i].size =
                  IF i = r.tail THEN r.ctrl[i].size + len ELSE r.ctrl[i].size
             /\ \A i \in CtrlIdx : i # Succ(r.tail) => q.ctrl[i].buf_idx = r.ctrl[i].buf_idx
             /\ \A i \in CtrlIdx : Pos(q, i) = Pos(r, i)
<1> DEFINE f == [r EXCEPT !.ctrl[r.tail].size = @ + len]
           z == r.ctrl[r.tail].size + len
           t == Succ(r.tail)
           b == (r.ctrl[r.tail].buf_idx + 1) % (LOAD_BLK_NUM - 1)
<1>1. /\ r.head \in CtrlIdx /\ r.tail \in CtrlIdx
      /\ r.ctrl \in [CtrlIdx -> DataCtrl] /\ r.ctrl[r.tail] \in DataCtrl
  BY DEF Rings
<1>2. t \in CtrlIdx /\ t # r.tail
  <2>1. t \in CtrlIdx /\ t = (IF r.tail + 1 < LOAD_BLK_NUM THEN r.tail + 1 ELSE 0)
    BY <1>1, SuccIs
  <2>2. QED
    BY <1>1, <2>1, RingAssumption DEF CtrlIdx
<1>3. z \in 1 .. LOAD_BLK_SIZE /\ (Room(r) = len <=> z = LOAD_BLK_SIZE)
  BY <1>1, RingAssumption DEF Room, DataCtrl
<1> HIDE DEF z, t, b
<1>4. f = [head |-> r.head, tail |-> r.tail, ctrl |-> [r.ctrl EXCEPT ![r.tail].size = z]]
  BY <1>1 DEF Rings, z
<1>5. /\ f.head = r.head /\ f.tail = r.tail
      /\ f.ctrl = [r.ctrl EXCEPT ![r.tail].size = z]
      /\ \A i \in CtrlIdx : f.ctrl[i].buf_idx = r.ctrl[i].buf_idx
      /\ \A i \in CtrlIdx : f.ctrl[i].size = IF i = r.tail THEN z ELSE r.ctrl[i].size
      /\ f.ctrl \in [CtrlIdx -> DataCtrl]
  BY <1>1, <1>3, <1>4 DEF DataCtrl
<1>6. Room(f) = LOAD_BLK_SIZE - z
  BY <1>1, <1>5 DEF Room
<1>7. CASE last \/ Room(f) = 0
  <2> DEFINE q == SetBufRdy(f)
  <2>1. q = [head |-> r.head, tail |-> t, ctrl |-> [f.ctrl EXCEPT ![t].buf_idx = b]]
    <3> HIDE DEF f
    <3>1. f = [head |-> f.head, tail |-> f.tail, ctrl |-> f.ctrl]
      BY <1>4, <1>5
    <3>2. f.ctrl[f.tail].buf_idx = r.ctrl[r.tail].buf_idx
      BY <1>1, <1>5
    <3>3. QED
      BY <1>5, <3>1, <3>2 DEF SetBufRdy, HasFreeBuf, t, b
  <2> HIDE DEF f
  <2>2. /\ q.head = r.head /\ q.tail = t
        /\ \A i \in CtrlIdx : q.ctrl[i].size = f.ctrl[i].size
        /\ \A i \in CtrlIdx : i # t => q.ctrl[i].buf_idx = f.ctrl[i].buf_idx
    BY <1>5, <2>1 DEF DataCtrl
  <2> HIDE DEF q
  <2>3. \A i \in CtrlIdx : Pos(q, i) = Pos(r, i)
    BY <2>2 DEF Pos
  <2>4. Filled(r, len, last) = q
    BY <1>7 DEF Filled, f, q
  <2>5. last \/ len = Room(r)
    BY <1>3, <1>6, <1>7, RingAssumption
  <2>6. QED
    BY <1>1, <1>5, <2>2, <2>3, <2>4, <2>5 DEF t, z
<1>8. CASE ~(last \/ Room(f) = 0)
  <2>1. Filled(r, len, last) = f
    BY <1>8 DEF Filled
  <2>2. ~(last \/ len = Room(r))
    BY <1>3, <1>6, <1>8, RingAssumption
  <2> HIDE DEF f
  <2>3. \A i \in CtrlIdx : Pos(f, i) = Pos(r, i)
    BY <1>5 DEF Pos
  <2>4. QED
    BY <1>1, <1>5, <2>1, <2>2, <2>3 DEF z
<1>9. QED
  BY <1>7, <1>8

(* Copying more of an image into the slot at tail.                          *)
LEMMA FilledLined ==
  ASSUME NEW r, Sound(r), HasFreeBuf(r), NEW n \in Int, Lined(r, n, FALSE),
         NEW len \in 1 .. Room(r), NEW last \in BOOLEAN
  PROVE  Lined(Filled(r, len, last), n + len, last)
<1> DEFINE q == Filled(r, len, last)
           k == Pos(r, r.tail)
           B == LOAD_BLK_SIZE
<1>1. /\ r \in Rings /\ r.tail \in CtrlIdx /\ k \in 0 .. LOAD_BLK_NUM - 2
      /\ Pos(r, Succ(r.tail)) = k + 1 /\ Succ(r.tail) \in CtrlIdx
  <2>1. r \in Rings /\ r.tail \in CtrlIdx
    BY DEF Sound, Rings
  <2>2. k \in CtrlIdx /\ k < LOAD_BLK_NUM - 1
    BY <2>1, PosRange, FreeMeans
  <2>3. QED
    BY <2>1, <2>2, SuccIs, FreeMeans, RingAssumption DEF CtrlIdx
<1>2. /\ q.tail = IF last \/ len = Room(r) THEN Succ(r.tail) ELSE r.tail
      /\ \A i \in CtrlIdx : q.ctrl[i].size =
                  IF i = r.tail THEN r.ctrl[i].size + len ELSE r.ctrl[i].size
      /\ \A i \in CtrlIdx : Pos(q, i) = Pos(r, i)
  BY <1>1, FilledIs
<1>3. /\ \A i \in CtrlIdx : Pos(r, i) \in 0 .. LOAD_BLK_NUM - 1
      /\ \A i \in CtrlIdx : i # r.tail => Pos(r, i) # k
  BY <1>1, PosRange DEF CtrlIdx
<1> HIDE DEF q, k
<1>4. /\ \A i \in CtrlIdx : r.ctrl[i].size = Share(n - Pos(r, i) * B)
      /\ k * B <= n /\ n < k * B + B
  BY DEF Lined, k
<1>5. B \in Nat \ {0} /\ k * B \in Nat /\ (k + 1) * B = k * B + B
      /\ (k + 1) * B <= (LOAD_BLK_NUM - 1) * B
  <2>1. k \in Nat /\ LOAD_BLK_NUM - 1 \in Nat /\ k + 1 <= LOAD_BLK_NUM - 1
    BY <1>1, RingAssumption
  <2>2. k * B \in Nat /\ (k + 1) * B = k * B + B
    BY <2>1, BlockTimes
  <2>3. k < LOAD_BLK_NUM - 1
    BY <2>1
  <2>4. k * B + B <= (LOAD_BLK_NUM - 1) * B
    BY <2>1, <2>3, BlockTimes
  <2>5. QED
    BY <2>2, <2>4, RingAssumption
<1>6. r.ctrl[r.tail].size = n - k * B /\ Room(r) = k * B + B - n
  <2>1. r.ctrl[r.tail].size = Share(n - k * B)
    BY <1>1, <1>4 DEF k
  <2>2. QED
    BY <1>4, <1>5, <2>1 DEF Share, Room
<1>7. ASSUME NEW i \in CtrlIdx
      PROVE  q.ctrl[i].size = Share((n + len) - Pos(q, i) * B)
  <2>1. CASE i = r.tail
    <3>1. q.ctrl[i].size = n + len - k * B /\ Pos(q, i) = k
      BY <1>2, <1>5, <1>6, <2>1 DEF k
    <3>2. QED
      BY <1>4, <1>5, <1>6, <3>1 DEF Share
  <2>2. CASE i # r.tail
    <3>1. q.ctrl[i].size = Share(n - Pos(r, i) * B) /\ Pos(q, i) = Pos(r, i)
      BY <1>2, <1>4, <2>2
    <3>2. PICK p \in Nat : p = Pos(r, i) /\ p # k
      BY <1>3, <2>2
    <3>3. PICK m \in Nat : m = p * B
      BY <1>1, <3>2, BlockTimes
    <3>4. CASE p < k
      <4>1. m + B <= k * B
        BY <1>1, <3>2, <3>3, <3>4, BlockTimes
      <4>2. QED
        BY <1>4, <1>5, <3>1, <3>2, <3>3, <4>1 DEF Share
    <3>5. CASE k < p
      <4>1. k * B + B <= m
        BY <1>1, <3>2, <3>3, <3>5, BlockTimes
      <4>2. n - m <= 0 /\ (n + len) - m <= 0
        <5>1. n + len <= k * B + B
          BY <1>5, <1>6
        <5>2. QED
          BY <1>4, <1>5, <3>3, <4>1, <5>1
      <4>3. Share(n - m) = 0 /\ Share((n + len) - m) = 0
        BY <3>3, <4>2, RingAssumption DEF Share
      <4>4. QED
        BY <3>1, <3>2, <3>3, <4>3
    <3>6. QED
      BY <1>1, <3>2, <3>4, <3>5
  <2>3. QED
    BY <2>1, <2>2
<1>8. n + len <= (LOAD_BLK_NUM - 1) * B
  <2>1. PICK m \in Nat : m = (LOAD_BLK_NUM - 1) * B
    BY BlockTimes, RingAssumption
  <2>2. QED
    BY <1>4, <1>5, <1>6, <2>1
<1>9. Pos(q, q.tail) = IF last \/ len = Room(r) THEN k + 1 ELSE k
  BY <1>1, <1>2 DEF k
<1>10. CASE last
  <2>1. Pos(q, q.tail) = k + 1 /\ (k + 1) - 1 = k /\ k + 1 # 0
    BY <1>1, <1>9, <1>10
  <2>2. n + len <= (k + 1) * B /\ k * B < n + len
    BY <1>4, <1>5, <1>6
  <2>3. QED
    BY <1>7, <1>8, <1>10, <2>1, <2>2 DEF Lined, q
<1>11. CASE ~last
  <2>1. Pos(q, q.tail) * B <= n + len /\ n + len < Pos(q, q.tail) * B + B
    <3>1. CASE len = Room(r)
      BY <1>1, <1>4, <1>5, <1>6, <1>9, <3>1
    <3>2. CASE len # Room(r)
      BY <1>1, <1>4, <1>5, <1>6, <1>9, <1>11, <3>2
    <3>3. QED
      BY <3>1, <3>2
  <2>2. QED
    BY <1>7, <1>8, <1>11, <2>1 DEF Lined, q
<1>12. QED
  BY <1>10, <1>11

(* Which slots hold units, and that none of them has the tail's buffer.     *)
LEMMA TailBufferIsOwn ==
  ASSUME NEW r, Sound(r), HasFreeBuf(r), NEW i \in CtrlIdx, i # r.tail, r.ctrl[i].size # 0
  PROVE  r.ctrl[i].buf_idx # r.ctrl[r.tail].buf_idx /\ i # Succ(r.tail)
<1>1. r \in Rings /\ r.head \in CtrlIdx /\ r.tail \in CtrlIdx
  BY DEF Sound, Rings
<1>2. r.ctrl[r.head] \in DataCtrl
  BY <1>1 DEF Rings
<1>3. Pos(r, r.tail) < LOAD_BLK_NUM - 1 /\ Pos(r, Succ(r.tail)) = Pos(r, r.tail) + 1
  BY <1>1, FreeMeans
<1>4. /\ Pos(r, i) \in CtrlIdx /\ Pos(r, r.tail) \in CtrlIdx
      /\ Pos(r, i) # Pos(r, r.tail)
  BY <1>1, PosRange
<1>5. ~(Pos(r, r.tail) < Pos(r, i))
  BY DEF Sound, RestEmpty
<1>6. Pos(r, i) < Pos(r, r.tail)
  BY <1>4, <1>5 DEF CtrlIdx
<1>7. /\ r.ctrl[i].buf_idx = NthBuf(r.ctrl[r.head].buf_idx, Pos(r, i))
      /\ r.ctrl[r.tail].buf_idx = NthBuf(r.ctrl[r.head].buf_idx, Pos(r, r.tail))
  BY <1>1, <1>4, <1>6 DEF Sound, Consecutive, CtrlIdx
<1>8. r.ctrl[i].buf_idx # r.ctrl[r.tail].buf_idx
  BY <1>2, <1>3, <1>4, <1>6, <1>7, RingAssumption DEF NthBuf, CtrlIdx, DataCtrl, BufIdx
<1>9. i # Succ(r.tail)
  BY <1>3, <1>4, <1>6 DEF CtrlIdx
<1>10. QED
  BY <1>8, <1>9

(* _flash_mem_cpy writes behind what is in the tail's buffer: what the slots *)
(* hold stays, and the new units follow.                                    *)
LEMMA FilledHolds ==
  ASSUME NEW r, Sound(r), HasFreeBuf(r), NEW n \in Int, Lined(r, n, FALSE),
         NEW len \in 1 .. Room(r), NEW last \in BOOLEAN,
         NEW b, NEW c, NEW image, NEW base \in Nat, Holds(r, b, image, base),
         Appended(r, b, c, len, image, base + n)
  PROVE  Holds(Filled(r, len, last), c, image, base)
<1> DEFINE q == Filled(r, len, last)
           k == Pos(r, r.tail)
           t == r.ctrl[r.tail].buf_idx
           z == r.ctrl[r.tail].size
<1>1. /\ r \in Rings /\ r.tail \in CtrlIdx /\ k \in Nat
      /\ \A i \in CtrlIdx : r.ctrl[i].size \in 0 .. LOAD_BLK_SIZE /\ r.ctrl[i].buf_idx \in BufIdx
  <2>1. r \in Rings /\ r.tail \in CtrlIdx /\ r.ctrl \in [CtrlIdx -> DataCtrl]
    BY DEF Sound, Rings
  <2>2. k \in CtrlIdx
    BY <2>1, PosRange
  <2>3. \A i \in CtrlIdx : r.ctrl[i].size \in 0 .. LOAD_BLK_SIZE /\ r.ctrl[i].buf_idx \in BufIdx
    BY <2>1 DEF DataCtrl
  <2>4. QED
    BY <2>1, <2>2, <2>3 DEF CtrlIdx
<1>2. /\ \A i \in CtrlIdx : q.ctrl[i].size =
                  IF i = r.tail THEN r.ctrl[i].size + len ELSE r.ctrl[i].size
      /\ \A i \in CtrlIdx : i # Succ(r.tail) => q.ctrl[i].buf_idx = r.ctrl[i].buf_idx
      /\ \A i \in CtrlIdx : Pos(q, i) = Pos(r, i)
  BY <1>1, FilledIs
<1>3. r.tail # Succ(r.tail)
  BY <1>1, SuccIs, RingAssumption DEF CtrlIdx
<1>4. k * LOAD_BLK_SIZE \in Nat /\ z = n - k * LOAD_BLK_SIZE
  <2>1. k * LOAD_BLK_SIZE \in Nat
    BY <1>1, BlockTimes
  <2>2. /\ z = Share(n - k * LOAD_BLK_SIZE)
        /\ k * LOAD_BLK_SIZE <= n /\ n < k * LOAD_BLK_SIZE + LOAD_BLK_SIZE
    BY <1>1 DEF Lined
  <2> HIDE DEF k, z
  <2>3. QED
    BY <2>1, <2>2, RingAssumption DEF Share
<1>5. /\ \A i \in BufIdx : i # t => c[i] = b[i]
      /\ \A x \in 0 .. z - 1 : c[t][x] = b[t][x]
      /\ \A x \in 0 .. len - 1 : c[t][z + x] = image[base + n + x]
  BY DEF Appended
<1> SUFFICES ASSUME NEW i \in CtrlIdx, NEW x \in 0 .. q.ctrl[i].size - 1
             PROVE  c[q.ctrl[i].buf_idx][x] = image[base + Pos(q, i) * LOAD_BLK_SIZE + x]
  BY DEF Holds
<1>6. CASE i = r.tail
  <2>1. /\ q.ctrl[i].size = z + len /\ q.ctrl[i].buf_idx = t
        /\ Pos(q, i) = k /\ z \in Nat
    BY <1>1, <1>2, <1>3, <1>6
  <2>2. CASE x < z
    <3>1. c[t][x] = b[t][x]
      BY <1>5, <2>1, <2>2
    <3>2. b[t][x] = image[base + k * LOAD_BLK_SIZE + x]
      BY <1>1, <2>1, <2>2 DEF Holds
    <3>3. QED
      BY <2>1, <3>1, <3>2
  <2>3. CASE ~(x < z)
    <3>1. x - z \in 0 .. len - 1 /\ z + (x - z) = x
      BY <2>1, <2>3
    <3>2. c[t][x] = image[base + n + (x - z)]
      BY <1>5, <3>1
    <3>3. base + n + (x - z) = base + k * LOAD_BLK_SIZE + x
      <4>1. PICK m \in Nat : m = k * LOAD_BLK_SIZE
        BY <1>4
      <4> HIDE DEF k, z
      <4>2. QED
        BY <1>4, <2>1, <4>1
    <3>4. QED
      BY <2>1, <3>2, <3>3
  <2>4. QED
    BY <2>2, <2>3
<1>7. CASE i # r.tail
  <2>1. r.ctrl[i].size # 0 /\ x \in 0 .. r.ctrl[i].size - 1
    BY <1>1, <1>2, <1>7
  <2>2. r.ctrl[i].buf_idx # t /\ q.ctrl[i].buf_idx = r.ctrl[i].buf_idx
    BY <1>2, <1>7, <2>1, TailBufferIsOwn
  <2>3. c[q.ctrl[i].buf_idx] = b[r.ctrl[i].buf_idx]
    BY <1>5, <1>1, <2>2
  <2>4. QED
    BY <1>2, <2>1, <2>3 DEF Holds
<1>8. QED
  BY <1>6, <1>7

(* The oldest ready slot is full, or the last of a complete image.          *)
LEMMA HeadShare ==
  ASSUME NEW r, Sound(r), InProcess(r), NEW n \in Int, NEW closed \in BOOLEAN,
         Lined(r, n, closed)
  PROVE  /\ n > 0 /\ r.ctrl[r.head].size = IF n < LOAD_BLK_SIZE THEN n ELSE LOAD_BLK_SIZE
         /\ n < LOAD_BLK_SIZE => closed
<1>1. /\ r \in Rings /\ r.head \in CtrlIdx /\ r.tail \in CtrlIdx /\ r.head # r.tail
      /\ Pos(r, r.head) = 0
  BY PosRange DEF Sound, Rings, InProcess
<1>2. PICK k \in Nat \ {0} : k = Pos(r, r.tail)
  BY <1>1, PosRange DEF CtrlIdx
<1>3. PICK j \in Nat : k = j + 1
  BY <1>2
<1>4. j * LOAD_BLK_SIZE \in Nat /\ k * LOAD_BLK_SIZE = j * LOAD_BLK_SIZE + LOAD_BLK_SIZE
  BY <1>3, BlockTimes
<1>5. r.ctrl[r.head].size = Share(n - 0)
  <2>1. r.ctrl[r.head].size = Share(n - 0 * LOAD_BLK_SIZE)
    BY <1>1 DEF Lined
  <2>2. QED
    BY <2>1, RingAssumption
<1>6. /\ closed => j * LOAD_BLK_SIZE < n
      /\ ~closed => k * LOAD_BLK_SIZE <= n
  BY <1>2, <1>3 DEF Lined
<1>7. QED
  BY <1>4, <1>5, <1>6, RingAssumption DEF Share

(* The block of the oldest ready slot is done with: a full one, or the last. *)
LEMMA FreedLined ==
  ASSUME NEW r, Sound(r), InProcess(r), NEW n \in Int, NEW closed \in BOOLEAN,
         Lined(r, n, closed), NEW m \in 0 .. LOAD_BLK_SIZE,
         m = LOAD_BLK_SIZE \/ n <= m
  PROVE  Lined(SetBufFree(r), n - m, closed)
<1> DEFINE q == SetBufFree(r)
           B == LOAD_BLK_SIZE
<1>1. /\ r \in Rings /\ r.head \in CtrlIdx /\ r.tail \in CtrlIdx /\ r.head # r.tail
      /\ \A i \in CtrlIdx : i # r.head => Pos(r, i) \in Nat \ {0}
  <2>1. r \in Rings /\ r.head \in CtrlIdx /\ r.tail \in CtrlIdx /\ r.head # r.tail
    BY DEF Sound, Rings, InProcess
  <2>2. QED
    BY <2>1, PosRange DEF CtrlIdx
<1>2. /\ q.tail = r.tail
      /\ \A i \in CtrlIdx : q.ctrl[i].size = IF i = r.head THEN 0 ELSE r.ctrl[i].size
      /\ \A i \in CtrlIdx : Pos(q, i) = IF i = r.head THEN LOAD_BLK_NUM - 1 ELSE Pos(r, i) - 1
  BY <1>1, FreedIs
<1> HIDE DEF q
<1>3. PICK N \in Nat : N = (LOAD_BLK_NUM - 1) * B
  BY BlockTimes, RingAssumption
<1>4. n <= N /\ B \in Nat \ {0}
  BY <1>3, RingAssumption DEF Lined
<1>5. ASSUME NEW p \in Nat \ {0}
      PROVE  /\ (p - 1) * B \in Nat /\ p * B = (p - 1) * B + B
  <2>1. PICK j \in Nat : p = j + 1
    BY <1>5
  <2>2. j * B \in Nat /\ (j + 1) * B = j * B + B
    BY <2>1, BlockTimes
  <2>3. QED
    BY <2>1, <2>2
<1>6. ASSUME NEW i \in CtrlIdx
      PROVE  q.ctrl[i].size = Share((n - m) - Pos(q, i) * B)
  <2>1. CASE i = r.head
    <3>1. q.ctrl[i].size = 0 /\ Pos(q, i) = LOAD_BLK_NUM - 1
      BY <1>2, <2>1
    <3>2. Share((n - m) - N) = 0
      BY <1>3, <1>4 DEF Share
    <3>3. QED
      BY <1>3, <3>1, <3>2
  <2>2. CASE i # r.head
    <3>1. PICK p \in Nat \ {0} : p = Pos(r, i)
      BY <1>1, <2>2
    <3>2. q.ctrl[i].size = Share(n - p * B) /\ Pos(q, i) = p - 1
      BY <1>2, <2>2, <3>1 DEF Lined
    <3>3. PICK d \in Nat : d = (p - 1) * B /\ p * B = d + B
      BY <1>5
    <3>4. Share(n - (d + B)) = Share((n - m) - d)
      BY <1>4, <3>3 DEF Share
    <3>5. QED
      BY <3>2, <3>3, <3>4
  <2>3. QED
    BY <2>1, <2>2
<1>7. PICK k \in Nat \ {0} : k = Pos(r, r.tail) /\ k - 1 = Pos(q, q.tail)
  BY <1>1, <1>2
<1>8. PICK d \in Nat : d = (k - 1) * B /\ k * B = d + B
  BY <1>5
<1>9. n - m <= N
  BY <1>4
<1>10. ASSUME closed
       PROVE  n - m <= d /\ (k - 1 = 0 \/ ((k - 1) - 1) * B < n - m)
  <2>1. n <= d + B /\ d < n
    BY <1>7, <1>8, <1>10 DEF Lined
  <2>2. n - m <= d
    BY <1>4, <1>8, <2>1
  <2>3. CASE k - 1 = 0
    BY <2>2, <2>3
  <2>4. CASE k - 1 # 0
    <3>1. PICK e \in Nat : e = ((k - 1) - 1) * B /\ d = e + B
      BY <1>5, <1>7, <1>8, <2>4
    <3>2. m = B
      BY <1>4, <2>1, <3>1
    <3>3. e < n - m
      BY <1>4, <2>1, <3>1, <3>2
    <3>4. QED
      BY <2>2, <3>1, <3>3
  <2>5. QED
    BY <2>3, <2>4
<1>11. ASSUME ~closed
       PROVE  d <= n - m /\ n - m < d + B
  <2>1. d + B <= n /\ n < d + B + B
    BY <1>7, <1>8, <1>11 DEF Lined
  <2>2. m = B
    BY <1>4, <1>8, <2>1
  <2>3. QED
    BY <1>4, <1>8, <2>1, <2>2
<1>12. QED
  BY <1>3, <1>6, <1>7, <1>8, <1>9, <1>10, <1>11 DEF Lined, q

(* What is left in the ring follows what has been programmed.               *)
LEMMA FreedHolds ==
  ASSUME NEW r, Sound(r), InProcess(r), NEW n \in Int, NEW closed \in BOOLEAN,
         Lined(r, n, closed), NEW m \in 0 .. LOAD_BLK_SIZE,
         m = LOAD_BLK_SIZE \/ n <= m,
         NEW b, NEW image, NEW base \in Nat, Holds(r, b, image, base)
  PROVE  Holds(SetBufFree(r), b, image, base + m)
<1> DEFINE q == SetBufFree(r)
           B == LOAD_BLK_SIZE
<1>1. /\ r \in Rings /\ r.head \in CtrlIdx
      /\ \A i \in CtrlIdx : i # r.head => Pos(r, i) \in Nat \ {0}
  <2>1. r \in Rings /\ r.head \in CtrlIdx
    BY DEF Sound, Rings, InProcess
  <2>2. QED
    BY <2>1, PosRange DEF CtrlIdx
<1>2. /\ \A i \in CtrlIdx : q.ctrl[i].buf_idx = r.ctrl[i].buf_idx
      /\ \A i \in CtrlIdx : q.ctrl[i].size = IF i = r.head THEN 0 ELSE r.ctrl[i].size
      /\ \A i \in CtrlIdx : Pos(q, i) = IF i = r.head THEN LOAD_BLK_NUM - 1 ELSE Pos(r, i) - 1
  BY <1>1, FreedIs
<1> HIDE DEF q
<1> SUFFICES ASSUME NEW i \in CtrlIdx, NEW x \in 0 .. q.ctrl[i].size - 1
             PROVE  b[q.ctrl[i].buf_idx][x] = image[base + m + Pos(q, i) * B + x]
  BY DEF Holds, q
<1>3. i # r.head
  BY <1>2
<1>4. PICK j \in Nat : Pos(r, i) = j + 1 /\ Pos(q, i) = j
  BY <1>1, <1>2, <1>3
<1>5. PICK d \in Nat : d = j * B /\ (j + 1) * B = d + B
  BY <1>4, BlockTimes
<1>6. q.ctrl[i].size = r.ctrl[i].size /\ q.ctrl[i].size = Share(n - (d + B))
  BY <1>2, <1>3, <1>4, <1>5 DEF Lined
<1>7. m = B
  BY <1>5, <1>6, RingAssumption DEF Share
<1>8. b[r.ctrl[i].buf_idx][x] = image[base + (d + B) + x]
  <2>1. x \in 0 .. r.ctrl[i].size - 1
    BY <1>6
  <2>2. b[r.ctrl[i].buf_idx][x] = image[base + Pos(r, i) * B + x]
    BY <2>1 DEF Holds
  <2>3. Pos(r, i) * B = d + B
    BY <1>4, <1>5
  <2>4. QED
    BY <2>2, <2>3
<1>9. base + (d + B) + x = base + m + d + x
  BY <1>5, <1>7, RingAssumption
<1>10. QED
  BY <1>2, <1>4, <1>5, <1>8, <1>9
=============================================================================

--------------------------- MODULE SpiFlashProofs --------------------------
(***************************************************************************)
(* Theorem about the flash driver of module SpiFlash: it implements        *)
(* FlashStore, for every flash, all sizes of pages, sectors and words,     *)
(* every call and any number of faults, time-outs and resets.              *)
(***************************************************************************)
EXTENDS SpiFlash, SequenceTheorems, TLAPS

S == SPIROM_SECTOR_SIZE

(* The range of the call that is being served.                             *)
First == IF call.fn = "erase" THEN SectorStart(call.addr) ELSE call.addr
End == IF call.fn = "erase" THEN SectorEnd(call.addr + call.len) ELSE call.addr + call.len

(* At most three parts are written, and none of them is empty.             *)
Amount == Nat \ {0}
PartsLeft == {p \in Seq(Amount) : Len(p) \in 0 .. 2}
Total(p) == IF Len(p) = 0 THEN 0 ELSE IF Len(p) = 1 THEN p[1] ELSE p[1] + p[2]

(* Erasing goes by sectors and in one part.                                *)
WholeSectors(n) == call.fn = "erase" => n % S = 0

(* What has been done and what is left make up the range.                  *)
RangeOK ==
  /\ pc # "idle" => call \in Calls /\ addr \in Nat
  /\ pc = "nothing" => addr = First /\ addr = End
  /\ pc \notin {"idle", "nothing"} =>
       /\ left \in Amount /\ WholeSectors(left)
       /\ part \in PartsLeft /\ (call.fn = "erase" => part = <<>>)
       /\ addr + left + Total(part) = End
  /\ Given => step \in 1 .. left /\ WholeSectors(step)

(* What the device works on: what the last command was about, unless it    *)
(* was ignored.                                                            *)
DeviceOK ==
  /\ pc \in {"idle", "nothing", "wren", "latch", "command", "error", "ready"}
  /\ dev \in {"ready", "latched", "busy"}
  /\ dev = "busy" \/ (dev = "ready" /\ pc = "command") => busy # {}
  /\ Given /\ ~lost /\ dev = "busy" => busy = addr .. addr + step - 1
  /\ lost \in BOOLEAN

SpiInv == RangeOK /\ DeviceOK

-----------------------------------------------------------------------------
(* Remainders: of numbers below the modulus, and of whole multiples.       *)
LEMMA Remainder ==
  ASSUME NEW m \in Nat \ {0}, NEW a \in Nat
  PROVE  a % m \in 0 .. m - 1 /\ a % m <= a
<1>1. PICK r \in 0 .. m - 1 : r = a % m
  OBVIOUS
<1>2. a < m => a % m = a
  OBVIOUS
<1>3. QED
  BY <1>1, <1>2

(* Where two numbers are whole sectors, so is their difference.            *)
LEMMA SectorsApart ==
  ASSUME NEW a \in Nat, NEW b \in Nat, a % S = 0, b % S = 0, b <= a
  PROVE  (a - b) % S = 0
<1> DEFINE q == a \div S
           r == b \div S
<1>1. S \in Nat \ {0}
  BY CellsAssumption DEF S
<1>2. q \in Nat /\ r \in Nat /\ a = S * q /\ b = S * r
  BY <1>1
<1> HIDE DEF q, r
<1>3. r <= q
  BY <1>1, <1>2
<1>4. PICK k \in Nat : k = q - r
  BY <1>2, <1>3
<1>5. a - b = S * k
  BY <1>1, <1>2, <1>4
<1>6. (S * k) % S = 0
  BY <1>1
<1>7. QED
  BY <1>5, <1>6

(* A multiple of a multiple is one.                                        *)
LEMMA SectorsIn ==
  ASSUME NEW a \in Nat, NEW b \in Nat \ {0}, b % S = 0, a % b = 0
  PROVE  a % S = 0
<1> DEFINE q == a \div b
           r == b \div S
<1>1. S \in Nat \ {0}
  BY CellsAssumption DEF S
<1>2. q \in Nat /\ a = b * q
  OBVIOUS
<1>3. r \in Nat /\ b = S * r
  BY <1>1
<1> HIDE DEF q, r
<1>4. PICK k \in Nat : k = r * q
  BY <1>2, <1>3
<1>5. a = S * k
  BY <1>1, <1>2, <1>3, <1>4
<1>6. (S * k) % S = 0
  BY <1>1
<1>7. QED
  BY <1>5, <1>6

(* The sectors that a range touches.                                       *)
LEMMA SectorRange ==
  ASSUME NEW a \in Nat, NEW n \in Nat
  PROVE  /\ SectorStart(a) \in Nat /\ SectorStart(a) <= a
         /\ SectorEnd(a + n) \in Nat /\ a + n <= SectorEnd(a + n)
         /\ (SectorEnd(a + n) - SectorStart(a)) % S = 0
<1> DEFINE p == a \div S
           q == (a + n + S - 1) \div S
<1>1. S \in Nat \ {0}
  BY CellsAssumption DEF S
<1>2. p \in Nat /\ p * S <= a
  BY <1>1
<1>3. q \in Nat /\ q * S <= a + n + S - 1 /\ a + n + S - 1 < q * S + S
  BY <1>1
<1>4. SectorStart(a) = p * S /\ SectorEnd(a + n) = q * S
  BY DEF SectorStart, SectorEnd, S
<1> HIDE DEF p, q
<1>5. p * S \in Nat /\ q * S \in Nat
  BY <1>1, <1>2, <1>3
<1>6. (p * S) % S = 0 /\ (q * S) % S = 0
  BY <1>1, <1>2, <1>3, <1>5
<1>7. a + n <= q * S /\ p * S <= q * S
  BY <1>1, <1>2, <1>3, <1>5
<1>8. (q * S - p * S) % S = 0
  BY <1>5, <1>6, <1>7, SectorsApart
<1>9. QED
  BY <1>2, <1>4, <1>5, <1>7, <1>8

(* An erase command takes whole sectors, at least one and not too many.    *)
LEMMA EraseStepIs ==
  ASSUME NEW a \in Nat, NEW n \in Amount, n % S = 0
  PROVE  EraseStep(a, n) \in 1 .. n /\ EraseStep(a, n) % S = 0
<1>1. /\ S \in Nat \ {0} /\ SPIROM_BLK32_SIZE \in Amount /\ SPIROM_BLK64_SIZE \in Amount
      /\ SPIROM_BLK32_SIZE % S = 0 /\ SPIROM_BLK64_SIZE % SPIROM_BLK32_SIZE = 0
  BY CellsAssumption, DriverAssumption DEF S, Amount
<1>2. SPIROM_BLK64_SIZE % S = 0
  BY <1>1, SectorsIn DEF Amount
<1>3. S <= n
  BY <1>1 DEF Amount
<1>4. S % S = 0
  BY <1>1 DEF Amount
<1>5. EraseStep(a, n) \in {SPIROM_BLK64_SIZE, SPIROM_BLK32_SIZE} => EraseStep(a, n) <= n
  BY <1>1, <1>3 DEF EraseStep, S, Amount
<1>6. EraseStep(a, n) \in {SPIROM_BLK64_SIZE, SPIROM_BLK32_SIZE, S}
  BY DEF EraseStep, S
<1>7. QED
  BY <1>1, <1>2, <1>3, <1>4, <1>5, <1>6 DEF Amount

(* A program command stays in its page.                                    *)
LEMMA ProgramStepIs ==
  ASSUME NEW a \in Nat, NEW n \in Amount
  PROVE  /\ ProgramStep(a, n) \in 1 .. n
         /\ \A i \in 0 .. ProgramStep(a, n) - 1 : Wrapped(a, i) = a + i
<1>1. PICK P \in Nat \ {0} : P = SPIROM_PAGE_SIZE
  BY DriverAssumption
<1>2. PICK r \in 0 .. P - 1 : r = a % P
  BY <1>1, Remainder
<1>3. PICK b \in Nat : b = (a \div P) * P /\ a = b + r
  <2>1. PICK q \in Nat : q = a \div P /\ a = P * q + r
    BY <1>2
  <2>2. q * P = P * q /\ q * P \in Nat
    OBVIOUS
  <2>3. QED
    BY <2>1, <2>2
<1>4. ProgramStep(a, n) \in 1 .. n /\ ProgramStep(a, n) <= P - r
  BY <1>1, <1>2 DEF ProgramStep, Amount
<1>5. PageStart(a) = b
  BY <1>1, <1>3 DEF PageStart
<1>6. ASSUME NEW i \in 0 .. ProgramStep(a, n) - 1 PROVE Wrapped(a, i) = a + i
  <2>1. PICK k \in 0 .. P - 1 : k = r + i /\ k = a - b + i
    BY <1>2, <1>3, <1>4
  <2>2. k % P = k
    OBVIOUS
  <2>3. Wrapped(a, i) = b + k
    BY <1>1, <1>5, <2>1, <2>2 DEF Wrapped
  <2>4. QED
    BY <2>1, <2>3
<1>7. QED
  BY <1>4, <1>6

(* The parts of a write make up its length.                                *)
LEMMA PartsAre ==
  ASSUME NEW c \in Calls
  PROVE  /\ c.len = 0 => Parts(c) = <<>>
         /\ c.len # 0 => /\ Parts(c) # <<>> /\ Head(Parts(c)) \in Amount
                         /\ Tail(Parts(c)) \in PartsLeft
                         /\ Head(Parts(c)) + Total(Tail(Parts(c))) = c.len
<1>1. PICK W \in Nat \ {0} : W = WordSize
  BY DriverAssumption
<1>2. PICK n \in Nat, a \in 0 .. W - 1 : n = c.len /\ a = c.start % W
  BY <1>1, DriverAssumption, Remainder
<1>3. PICK h \in 0 .. W - 1 : h = (W - a) % W
  BY <1>2, Remainder
<1>4. PICK f \in Nat : f = FirstWrite(c) /\ f <= n
  BY <1>1, <1>2, <1>3 DEF FirstWrite
<1>5. PICK l \in Nat : l = LastWrite(c) /\ l <= n - f
  <2>1. PICK k \in Nat : k = n - f
    BY <1>4
  <2>2. k % W \in Nat /\ k % W <= k
    BY Remainder
  <2>3. LastWrite(c) = k % W
    BY <1>1, <1>2, <1>4, <2>1 DEF LastWrite
  <2>4. QED
    BY <2>1, <2>2, <2>3
<1>6. PICK m \in Nat : m = MidWrite(c) /\ f + m + l = n
  BY <1>2, <1>4, <1>5 DEF MidWrite
<1>7. Parts(c) = IfAny(f) \o IfAny(m) \o IfAny(l)
  BY <1>4, <1>5, <1>6 DEF Parts
<1>8. ASSUME NEW k \in Nat
      PROVE  /\ IfAny(k) \in Seq(Amount) /\ Len(IfAny(k)) = IF k = 0 THEN 0 ELSE 1
             /\ k # 0 => IfAny(k)[1] = k
  <2>1. CASE k = 0
    BY <2>1 DEF IfAny
  <2>2. CASE k # 0
    <3>1. IfAny(k) = <<k>> /\ k \in Amount
      BY <2>2 DEF IfAny, Amount
    <3>2. QED
      BY <2>2, <3>1
  <2>3. QED
    BY <2>1, <2>2
<1>9. PICK r \in Seq(Amount) :
        /\ r = IfAny(f) \o IfAny(m) /\ Len(r) = Len(IfAny(f)) + Len(IfAny(m))
        /\ f # 0 => r[1] = f /\ (m # 0 => r[2] = m)
        /\ f = 0 /\ m # 0 => r[1] = m
  <2> DEFINE r == IfAny(f) \o IfAny(m)
  <2>1. r \in Seq(Amount) /\ Len(r) = Len(IfAny(f)) + Len(IfAny(m))
    BY <1>8
  <2>2. f # 0 => r[1] = f /\ (m # 0 => r[2] = m)
    BY <1>8
  <2>3. f = 0 /\ m # 0 => r[1] = m
    BY <1>8
  <2>4. QED
    BY <2>1, <2>2, <2>3
<1>10. PICK t \in Seq(Amount) :
         /\ t = r \o IfAny(l) /\ Len(t) = Len(r) + Len(IfAny(l))
         /\ \A i \in 1 .. Len(r) : t[i] = r[i]
         /\ l # 0 => t[Len(r) + 1] = l
  <2> DEFINE t == r \o IfAny(l)
  <2>1. IfAny(l) \in Seq(Amount)
    BY <1>8
  <2>2. t \in Seq(Amount) /\ Len(t) = Len(r) + Len(IfAny(l))
    BY <2>1
  <2>3. \A i \in 1 .. Len(r) : t[i] = r[i]
    BY <2>1
  <2>4. l # 0 => t[Len(r) + 1] = l
    BY <1>8
  <2>5. QED
    BY <2>2, <2>3, <2>4
<1>11. t = Parts(c)
  BY <1>7, <1>9, <1>10, Zenon
<1>12. Len(r) \in 0 .. 2 /\ \A i \in 1 .. Len(r) : r[i] \in Nat \ {0}
  <2>1. Len(r) = (IF f = 0 THEN 0 ELSE 1) + (IF m = 0 THEN 0 ELSE 1)
    BY <1>8, <1>9
  <2>2. \A i \in 1 .. Len(r) : r[i] \in Amount
    OBVIOUS
  <2>3. QED
    BY <2>1, <2>2 DEF Amount
<1>13. f + m = IF Len(r) = 0 THEN 0 ELSE IF Len(r) = 1 THEN r[1] ELSE r[1] + r[2]
  <2>1. Len(r) = (IF f = 0 THEN 0 ELSE 1) + (IF m = 0 THEN 0 ELSE 1)
    BY <1>8, <1>9
  <2>2. QED
    BY <1>9, <2>1
<1>14. /\ Len(t) = Len(r) + (IF l = 0 THEN 0 ELSE 1)
       /\ Len(r) >= 1 => t[1] = r[1]
       /\ Len(r) = 2 => t[2] = r[2]
  <2>1. Len(IfAny(l)) = IF l = 0 THEN 0 ELSE 1
    BY <1>8
  <2>2. QED
    BY <1>10, <1>12, <2>1
<1>15. n = IF Len(t) = 0 THEN 0 ELSE IF Len(t) = 1 THEN t[1]
           ELSE IF Len(t) = 2 THEN t[1] + t[2] ELSE t[1] + t[2] + t[3]
  <2>1. CASE l = 0
    BY <1>6, <1>12, <1>13, <1>14, <2>1
  <2>2. CASE l # 0
    <3>1. t[Len(r) + 1] = l
      BY <1>10, <2>2
    <3>2. CASE Len(r) = 0
      BY <1>6, <1>13, <1>14, <2>2, <3>1, <3>2
    <3>3. CASE Len(r) = 1
      BY <1>6, <1>13, <1>14, <2>2, <3>1, <3>3
    <3>4. CASE Len(r) = 2
      BY <1>6, <1>13, <1>14, <2>2, <3>1, <3>4
    <3>5. QED
      BY <1>12, <3>2, <3>3, <3>4
  <2>3. QED
    BY <2>1, <2>2
<1>16. Len(t) \in 0 .. 3 /\ (n = 0 => t = <<>>) /\ (n # 0 => Len(t) # 0)
  <2>1. Len(t) \in 0 .. 3 /\ (n # 0 => Len(t) # 0)
    BY <1>12, <1>14, <1>15
  <2>2. ASSUME n = 0 PROVE Len(t) = 0
    <3>1. f = 0 /\ m = 0 /\ l = 0
      BY <1>6, <2>2
    <3>2. Len(r) = 0
      BY <1>8, <1>9, <3>1
    <3>3. QED
      BY <1>14, <3>1, <3>2
  <2>3. QED
    BY <2>1, <2>2
<1>17. ASSUME Len(t) # 0
       PROVE  /\ t # <<>> /\ Head(t) \in Amount /\ Tail(t) \in PartsLeft
              /\ Head(t) + Total(Tail(t)) = n
  <2>1. Len(t) \in 1 .. 3 /\ t # <<>>
    BY <1>16, <1>17
  <2>2. /\ Head(t) = t[1] /\ Head(t) \in Amount /\ Tail(t) \in Seq(Amount)
        /\ Len(Tail(t)) = Len(t) - 1
    BY <2>1, HeadTailProperties
  <2>3. \A i \in 1 .. Len(t) - 1 : Tail(t)[i] = t[i + 1]
    BY <2>1, <2>2, HeadTailProperties
  <2>4. Total(Tail(t)) = IF Len(t) = 1 THEN 0 ELSE IF Len(t) = 2 THEN t[2] ELSE t[2] + t[3]
    <3>1. Len(t) >= 2 => Tail(t)[1] = t[2]
      <4>1. Len(t) >= 2 => 1 \in 1 .. Len(t) - 1
        BY <2>1
      <4>2. QED
        BY <2>3, <4>1
    <3>2. Len(t) = 3 => Tail(t)[2] = t[3]
      <4>1. Len(t) = 3 => 2 \in 1 .. Len(t) - 1 /\ 2 + 1 = 3
        BY <2>1
      <4>2. Len(t) = 3 => Tail(t)[2] = t[2 + 1]
        BY <2>3, <4>1, Zenon
      <4>3. QED
        BY <4>1, <4>2, Zenon
    <3>3. QED
      BY <2>1, <2>2, <3>1, <3>2 DEF Total
  <2>5. Tail(t) \in PartsLeft
    <3>1. Len(Tail(t)) \in 0 .. 2
      BY <2>1, <2>2
    <3>2. QED
      BY <2>2, <3>1 DEF PartsLeft
  <2>6. /\ t[1] \in Nat /\ (Len(t) >= 2 => t[2] \in Nat) /\ (Len(t) = 3 => t[3] \in Nat)
    BY <2>1 DEF Amount
  <2>7. Head(t) + Total(Tail(t)) = n
    <3>1. CASE Len(t) = 1
      BY <1>15, <2>2, <2>4, <2>6, <3>1
    <3>2. CASE Len(t) = 2
      BY <1>15, <2>2, <2>4, <2>6, <3>2
    <3>3. CASE Len(t) = 3
      BY <1>15, <2>2, <2>4, <2>6, <3>3
    <3>4. QED
      BY <2>1, <3>1, <3>2, <3>3
  <2>8. QED
    BY <2>1, <2>2, <2>5, <2>7
<1>18. QED
  BY <1>2, <1>11, <1>16, <1>17

(* What is left of a write's parts is a number of cells.                   *)
LEMMA TotalIsNat ==
  ASSUME NEW p \in PartsLeft
  PROVE  Total(p) \in Nat
<1>1. p \in Seq(Amount) /\ Len(p) \in 0 .. 2
  BY DEF PartsLeft
<1>2. /\ Len(p) = 1 => p[1] \in Nat
      /\ Len(p) = 2 => p[1] \in Nat /\ p[2] \in Nat
  BY <1>1 DEF Amount
<1>3. QED
  BY <1>1, <1>2 DEF Total

(* The next part is taken from the front (mxic_program).                   *)
LEMMA NextPart ==
  ASSUME NEW p \in PartsLeft, p # <<>>
  PROVE  /\ Head(p) \in Amount /\ Tail(p) \in PartsLeft
         /\ Total(p) = Head(p) + Total(Tail(p))
<1>1. p \in Seq(Amount) /\ Len(p) \in 1 .. 2
  BY EmptySeq DEF PartsLeft
<1>2. /\ Head(p) = p[1] /\ p[1] \in Amount /\ Tail(p) \in Seq(Amount)
      /\ Len(Tail(p)) = Len(p) - 1
  BY <1>1, HeadTailProperties
<1>3. CASE Len(p) = 1
  <2>1. Len(Tail(p)) = 0
    BY <1>2, <1>3
  <2>2. Tail(p) \in PartsLeft
    BY <1>2, <2>1 DEF PartsLeft
  <2>3. Total(p) = p[1] /\ Total(Tail(p)) = 0
    BY <1>3, <2>1 DEF Total
  <2>4. QED
    BY <1>2, <2>2, <2>3 DEF Amount
<1>4. CASE Len(p) = 2
  <2>1. Len(Tail(p)) = 1
    BY <1>2, <1>4
  <2>2. Tail(p)[1] = p[2]
    BY <1>1, <1>4, <2>1, HeadTailProperties
  <2>3. Tail(p) \in PartsLeft
    BY <1>2, <2>1 DEF PartsLeft
  <2>4. Total(p) = p[1] + p[2] /\ Total(Tail(p)) = p[2]
    BY <1>4, <2>1, <2>2 DEF Total
  <2>5. QED
    BY <1>2, <2>3, <2>4
<1>5. QED
  BY <1>1, <1>3, <1>4

(* What is known of a call.                                                *)
LEMMA CallIs ==
  ASSUME NEW c \in Calls
  PROVE  c.fn \in {"erase", "write"} /\ c.addr \in Nat /\ c.len \in Nat /\ c.start \in Nat
  BY DriverAssumption

-----------------------------------------------------------------------------
(* The invariant, step by step.                                            *)
LEMMA SpiInitially == Init => SpiInv
  BY DEF Init, SpiInv, RangeOK, DeviceOK, Given

(* A call begins with all of its range to be done.                         *)
LEMMA EraseCallKeeps == SpiInv /\ EraseCall => SpiInv'
<1> SUFFICES ASSUME SpiInv, EraseCall PROVE SpiInv'
  OBVIOUS
<1>1. PICK c \in Calls : /\ c.fn = "erase" /\ call' = c
                         /\ addr' = SectorStart(c.addr)
                         /\ left' = SectorEnd(c.addr + c.len) - SectorStart(c.addr)
  BY DEF EraseCall
<1>2. /\ pc' = (IF left' = 0 THEN "nothing" ELSE "wren") /\ part' = <<>>
      /\ UNCHANGED <<device, lost, step>> /\ pc = "idle"
  BY DEF EraseCall
<1>3. /\ addr' \in Nat /\ SectorEnd(c.addr + c.len) \in Nat
      /\ left' \in Nat /\ left' % S = 0 /\ addr' + left' = SectorEnd(c.addr + c.len)
  BY <1>1, CallIs, SectorRange
<1>4. First' = addr' /\ End' = SectorEnd(c.addr + c.len)
  BY <1>1 DEF First, End
<1>5. part' \in PartsLeft /\ Total(part') = 0
  BY <1>2 DEF PartsLeft, Total
<1>6. RangeOK'
  <2>1. CASE left' = 0
    BY <1>1, <1>2, <1>3, <1>4, <2>1 DEF RangeOK, Given
  <2>2. CASE left' # 0
    BY <1>1, <1>2, <1>3, <1>4, <1>5, <2>2 DEF RangeOK, Given, WholeSectors, Amount
  <2>3. QED
    BY <2>1, <2>2
<1>7. DeviceOK'
  BY <1>2 DEF SpiInv, DeviceOK, Given, device
<1>8. QED
  BY <1>6, <1>7 DEF SpiInv

(* So it does with a write: the parts make up its length.                  *)
LEMMA WriteCallKeeps == SpiInv /\ WriteCall => SpiInv'
<1> SUFFICES ASSUME SpiInv, WriteCall PROVE SpiInv'
  OBVIOUS
<1>1. PICK c \in Calls :
        /\ c.fn = "write" /\ call' = c /\ addr' = c.addr
        /\ IF Parts(c) = <<>>
             THEN pc' = "nothing" /\ left' = 0 /\ part' = <<>>
             ELSE pc' = "wren" /\ left' = Head(Parts(c)) /\ part' = Tail(Parts(c))
  BY DEF WriteCall
<1>2. UNCHANGED <<device, lost, step>> /\ pc = "idle"
  BY DEF WriteCall
<1>3. First' = c.addr /\ End' = c.addr + c.len /\ call'.fn # "erase"
  BY <1>1 DEF First, End
<1>4. c.addr \in Nat /\ c.len \in Nat
  BY CallIs
<1>5. RangeOK'
  <2>1. CASE c.len = 0
    BY <1>1, <1>3, <1>4, <2>1, PartsAre DEF RangeOK, Given
  <2>2. CASE c.len # 0
    <3>1. /\ pc' = "wren" /\ left' \in Amount /\ part' \in PartsLeft
          /\ left' + Total(part') = c.len
      BY <1>1, <2>2, PartsAre
    <3>2. Total(part') \in Nat
      BY <3>1, TotalIsNat
    <3>3. addr' + left' + Total(part') = c.addr + c.len
      BY <1>1, <1>4, <3>1, <3>2 DEF Amount
    <3>4. QED
      BY <1>1, <1>3, <1>4, <3>1, <3>3 DEF RangeOK, Given, WholeSectors
  <2>3. QED
    BY <2>1, <2>2
<1>6. DeviceOK'
  BY <1>1, <1>2 DEF SpiInv, DeviceOK, Given, device
<1>7. QED
  BY <1>5, <1>6 DEF SpiInv

(* A call that returns leaves nothing to be said of its range.             *)
LEMMA ReturnKeeps ==
  ASSUME SpiInv, pc' = "idle", dev' \in {"ready", "latched", "busy"}, lost' \in BOOLEAN,
         dev' = "busy" => busy' # {}
  PROVE  SpiInv'
  BY DEF SpiInv, RangeOK, DeviceOK, Given

(* The steps between two commands.                                         *)
LEMMA WaitingKeeps ==
  SpiInv /\ (NothingToDo \/ WriteEnable \/ ReadLatch \/ CommandError \/ DeviceReady) => SpiInv'
<1> SUFFICES ASSUME SpiInv PROVE
      (NothingToDo \/ WriteEnable \/ ReadLatch \/ CommandError \/ DeviceReady) => SpiInv'
  OBVIOUS
<1> USE DEF SpiInv, DeviceOK
<1>1. ASSUME NothingToDo PROVE SpiInv'
  BY <1>1, ReturnKeeps DEF NothingToDo, Return, device
<1>2. ASSUME WriteEnable PROVE SpiInv'
  <2>1. CASE pc' = "idle"
    BY <1>2, <2>1, ReturnKeeps DEF WriteEnable
  <2>2. CASE pc' # "idle"
    <3>1. pc = "wren" /\ pc' = "latch" /\ UNCHANGED <<busy, lost, Position, call>>
      BY <1>2, <2>2 DEF WriteEnable, Goto, Return
    <3>2. RangeOK'
      BY <3>1 DEF RangeOK, Given, Position, First, End, WholeSectors
    <3>3. QED
      BY <1>2, <3>1, <3>2 DEF WriteEnable, Given
  <2>3. QED
    BY <2>1, <2>2
<1>3. ASSUME ReadLatch PROVE SpiInv'
  <2>1. CASE pc' = "idle"
    BY <1>3, <2>1, ReturnKeeps DEF ReadLatch, device
  <2>2. CASE pc' # "idle"
    <3>1. /\ pc = "latch" /\ UNCHANGED <<device, lost, Position, call>>
          /\ pc' = "latch" \/ (pc' = "command" /\ dev # "ready")
      BY <1>3, <2>2 DEF ReadLatch, Goto, Return, Again
    <3>2. RangeOK'
      BY <3>1 DEF RangeOK, Given, Position, First, End, WholeSectors
    <3>3. QED
      BY <3>1, <3>2 DEF Given, device
  <2>3. QED
    BY <2>1, <2>2
<1>4. ASSUME CommandError PROVE SpiInv'
  BY <1>4, ReturnKeeps DEF CommandError, Return, device
<1>5. ASSUME DeviceReady PROVE SpiInv'
  <2>1. RangeOK'
    BY <1>5 DEF DeviceReady, driver, RangeOK, Given, First, End, WholeSectors
  <2>2. QED
    BY <1>5, <2>1 DEF DeviceReady, driver, Given
<1>6. QED
  BY <1>1, <1>2, <1>3, <1>4, <1>5

(* What a command is about: some cells from addr on, no more than are left, *)
(* and whole sectors where they are erased.                                *)
LEMMA CommandIs ==
  ASSUME SpiInv, pc = "command"
  PROVE  /\ CommandStep \in 1 .. left /\ WholeSectors(CommandStep)
         /\ Cells(addr, CommandStep) = addr .. addr + CommandStep - 1
         /\ call.fn # "erase" =>
              \A i \in 0 .. CommandStep - 1 : Wrapped(addr, i) = addr + i
<1>1. addr \in Nat /\ left \in Amount /\ WholeSectors(left)
  BY DEF SpiInv, RangeOK
<1>2. CASE call.fn = "erase"
  BY <1>1, <1>2, EraseStepIs DEF CommandStep, WholeSectors, Cells
<1>3. CASE call.fn # "erase"
  <2>1. PICK n \in 1 .. left : /\ n = CommandStep
                               /\ \A i \in 0 .. n - 1 : Wrapped(addr, i) = addr + i
    BY <1>1, <1>3, ProgramStepIs DEF CommandStep
  <2>2. {Wrapped(addr, i) : i \in 0 .. n - 1} = addr .. addr + n - 1
    <3>1. ASSUME NEW x \in addr .. addr + n - 1
          PROVE  \E i \in 0 .. n - 1 : x = Wrapped(addr, i)
      <4>1. x - addr \in 0 .. n - 1 /\ addr + (x - addr) = x
        BY <1>1
      <4>2. QED
        BY <2>1, <4>1
    <3>2. ASSUME NEW i \in 0 .. n - 1 PROVE Wrapped(addr, i) \in addr .. addr + n - 1
      BY <1>1, <2>1
    <3>3. QED
      BY <3>1, <3>2
  <2>3. QED
    BY <1>3, <2>1, <2>2 DEF WholeSectors, Cells
<1>4. QED
  BY <1>2, <1>3

(* A command is about the next cells of what is left.                      *)
LEMMA CommandKeeps == SpiInv /\ Command => SpiInv'
<1> SUFFICES ASSUME SpiInv, Command PROVE SpiInv'
  OBVIOUS
<1>1. /\ pc = "command" /\ step' = CommandStep /\ lost' = (dev # "latched")
      /\ UNCHANGED <<addr, left, part>>
  BY DEF Command
<1>2. CommandStep \in 1 .. left /\ WholeSectors(CommandStep)
      /\ Cells(addr, CommandStep) = addr .. addr + CommandStep - 1
  BY <1>1, CommandIs
<1>3. addr \in Nat /\ left \in Amount
  BY <1>1 DEF SpiInv, RangeOK
<1>4. CASE pc' = "idle"
  <2>1. UNCHANGED device
    BY <1>4 DEF Command, Goto
  <2>2. QED
    BY <1>1, <1>4, <2>1, ReturnKeeps DEF device, SpiInv, DeviceOK
<1>5. CASE pc' # "idle"
  <2>1. pc' \in {"ready", "error"} /\ call' = call /\ Obey(CommandStep)
    BY <1>1, <1>5 DEF Command, Goto, Return
  <2>2. RangeOK'
    <3>1. step' \in 1 .. left' /\ (call'.fn = "erase" => step' % S = 0)
      BY <1>1, <1>2, <2>1 DEF WholeSectors
    <3>2. /\ call' \in Calls /\ addr' \in Nat /\ left' \in Amount
          /\ (call'.fn = "erase" => left' % S = 0)
          /\ part' \in PartsLeft /\ (call'.fn = "erase" => part' = <<>>)
          /\ addr' + left' + Total(part') = End
      BY <1>1, <2>1 DEF SpiInv, RangeOK, WholeSectors
    <3>3. End' = End
      BY <2>1 DEF End
    <3>4. QED
      BY <2>1, <3>1, <3>2, <3>3 DEF RangeOK, Given, WholeSectors
  <2>3. addr .. addr + CommandStep - 1 # {}
    <3>1. addr \in addr .. addr + CommandStep - 1
      BY <1>2, <1>3 DEF Amount
    <3>2. QED
      BY <3>1
  <2>4. DeviceOK'
    BY <1>1, <1>2, <2>1, <2>3 DEF Obey, SpiInv, DeviceOK, Given
  <2>5. QED
    BY <2>2, <2>4 DEF SpiInv
<1>6. QED
  BY <1>4, <1>5

(* What is left when a command has been done.                              *)
LEMMA ReadReadyKeeps == SpiInv /\ ReadReady => SpiInv'
<1> SUFFICES ASSUME SpiInv, ReadReady PROVE SpiInv'
  OBVIOUS
<1>1. pc = "ready" /\ UNCHANGED <<device, lost>>
  BY DEF ReadReady
<1>2. CASE pc' = "idle"
  BY <1>1, <1>2, ReturnKeeps DEF device, SpiInv, DeviceOK
<1>3. CASE pc' = "ready"
  <2>1. UNCHANGED <<Position, call>>
    BY <1>1, <1>3 DEF ReadReady, NextStep, Again, Return
  <2>2. QED
    BY <1>1, <1>3, <2>1 DEF device, Position, SpiInv, RangeOK, DeviceOK, Given, First, End,
                            WholeSectors
<1>4. CASE pc' \notin {"idle", "ready"}
  <2>1. /\ dev = "ready" /\ addr' = addr + step /\ pc' = "wren" /\ call' = call
        /\ \/ left > step /\ left' = left - step /\ part' = part
           \/ left <= step /\ part # <<>> /\ left' = Head(part) /\ part' = Tail(part)
    <3>1. dev = "ready" /\ addr' = addr + step /\ NextStep
      BY <1>1, <1>4 DEF ReadReady, Again, Return
    <3>2. step \in 1 .. left /\ left \in Nat
      BY <1>1 DEF SpiInv, RangeOK, Given, Amount
    <3>3. left > step \/ left <= step
      BY <3>2
    <3>4. QED
      BY <1>4, <3>1, <3>3 DEF NextStep, Return
  <2>2. /\ addr \in Nat /\ left \in Amount /\ step \in 1 .. left /\ part \in PartsLeft
        /\ addr + left + Total(part) = End /\ call \in Calls
        /\ WholeSectors(left) /\ WholeSectors(step) /\ (call.fn = "erase" => part = <<>>)
    BY <1>1 DEF SpiInv, RangeOK, Given
  <2>3. Total(part) \in Nat
    BY <2>2, TotalIsNat
  <2>4. End' = End
    BY <2>1 DEF End
  <2>5. /\ addr' \in Nat /\ left' \in Amount /\ part' \in PartsLeft
        /\ addr' + left' + Total(part') = End
        /\ WholeSectors(left') /\ (call.fn = "erase" => part' = <<>>)
    <3>1. CASE left > step
      <4>1. left' = left - step /\ part' = part
        BY <2>1, <2>2, <3>1 DEF Amount
      <4>2. WholeSectors(left')
        BY <2>2, <3>1, <4>1, SectorsApart DEF WholeSectors, Amount
      <4>3. QED
        BY <2>1, <2>2, <2>3, <3>1, <4>1, <4>2 DEF Amount
    <3>2. CASE ~(left > step)
      <4>1. /\ left = step /\ part # <<>> /\ left' = Head(part) /\ part' = Tail(part)
            /\ call.fn # "erase"
        BY <2>1, <2>2, <3>2 DEF Amount
      <4>2. left' \in Amount /\ part' \in PartsLeft /\ Total(part) = left' + Total(part')
        BY <2>2, <4>1, NextPart
      <4>3. Total(part') \in Nat
        BY <4>2, TotalIsNat
      <4>4. QED
        BY <2>1, <2>2, <4>1, <4>2, <4>3 DEF Amount, WholeSectors
    <3>3. QED
      BY <3>1, <3>2
  <2>6. RangeOK'
    BY <2>1, <2>2, <2>4, <2>5 DEF RangeOK, Given, WholeSectors
  <2>7. DeviceOK'
    BY <1>1, <2>1 DEF SpiInv, DeviceOK, Given, device
  <2>8. QED
    BY <2>6, <2>7 DEF SpiInv
<1>5. QED
  BY <1>2, <1>3, <1>4

(* After a reset no call is served; the device may still be at work.       *)
LEMMA ResetKeeps == SpiInv /\ Reset => SpiInv'
<1> SUFFICES ASSUME SpiInv, Reset PROVE SpiInv'
  OBVIOUS
<1>1. pc' = "idle" /\ UNCHANGED <<busy, lost>> /\ dev' \in {dev, "ready"}
  BY DEF Reset
<1>2. QED
  BY <1>1, ReturnKeeps DEF SpiInv, DeviceOK

(* Every step keeps the invariant.                                         *)
LEMMA SpiStep == SpiInv /\ [Next]_vars => SpiInv'
<1>1. SpiInv /\ UNCHANGED vars => SpiInv'
  BY DEF vars, driver, device, SpiInv, RangeOK, DeviceOK, Given, First, End, WholeSectors
<1>2. QED
  BY <1>1, EraseCallKeeps, WriteCallKeeps, WaitingKeeps, CommandKeeps, ReadReadyKeeps,
     ResetKeeps DEF Next, DriverStep

(* The invariant holds of every behaviour of the driver.                   *)
LEMMA SpiInvariant == Spec => []SpiInv
<1>1. Init => SpiInv
  BY SpiInitially
<1>2. SpiInv /\ [Next]_vars => SpiInv'
  BY SpiStep
<1>3. QED
  BY <1>1, <1>2, PTL DEF Spec

-----------------------------------------------------------------------------
(* The refinement.  What the call looks like as an operation.              *)
OperationAt(at, since) ==
  [kind |-> call.fn, first |-> First, end |-> End, at |-> at, since |-> since,
   data |-> IF call.fn = "erase" THEN <<>> ELSE Data(call)]

(* The call is no operation before it begins, and one from then on.        *)
LEMMA OperationIs ==
  /\ pc = "idle" => AsOperation = Store!NoOp
  /\ pc # "idle" => AsOperation =
       OperationAt(DoneTo, IF Given /\ ~lost THEN addr ELSE DoneTo)
  BY DEF AsOperation, Store!NoOp, First, End, OperationAt

(* The same after a step that leaves the call as it is.                    *)
LEMMA NextOperation ==
  /\ pc' = "idle" => AsOperation' = Store!NoOp
  /\ pc' # "idle" /\ call' = call => AsOperation' =
       OperationAt(DoneTo', IF Given' /\ ~lost' THEN addr' ELSE DoneTo')
  BY DEF AsOperation, Store!NoOp, First, End, OperationAt

(* The operation under way is one.                                         *)
LEMMA SomeOperation == SpiInv /\ pc # "idle" => AsOperation # Store!NoOp
<1> SUFFICES ASSUME SpiInv, pc # "idle" PROVE AsOperation # Store!NoOp
  OBVIOUS
<1>1. call \in Calls
  BY DEF SpiInv, RangeOK
<1>2. call.fn # "none"
  BY <1>1, CallIs
<1>3. AsOperation.kind = call.fn
  BY DEF AsOperation
<1>4. Store!NoOp.kind = "none"
  BY DEF Store!NoOp
<1>5. QED
  BY <1>2, <1>3, <1>4

(* An operation begins with nothing done.                                  *)
LEMMA CallBegins ==
  SpiInv /\ (EraseCall \/ WriteCall) => \E o \in Operations : Store!Begin(o)
<1> SUFFICES ASSUME SpiInv, EraseCall \/ WriteCall
             PROVE  \E o \in Operations : Store!Begin(o)
  OBVIOUS
<1>1. /\ pc = "idle" /\ pc' \in {"nothing", "wren"} /\ UNCHANGED <<device, lost>>
  BY DEF EraseCall, WriteCall
<1>2. AsOperation = Store!NoOp /\ AsLate' = AsLate /\ flash' = flash
  BY <1>1, OperationIs DEF AsLate, Given, device
<1>3. CASE EraseCall
  <2>1. PICK c \in Calls : /\ c.fn = "erase" /\ call' = c
                           /\ addr' = SectorStart(c.addr)
    BY <1>3 DEF EraseCall
  <2>2. AsOperation' = Store!Erasure(c.addr, c.len)
    BY <1>1, <2>1 DEF AsOperation, Store!Erasure, Store!SectorStart, Store!SectorEnd,
                      SectorStart, SectorEnd, Given, DoneTo
  <2>3. Store!Erasure(c.addr, c.len) \in Operations
    BY <2>1 DEF Operations
  <2>4. QED
    BY <1>2, <2>2, <2>3 DEF Store!Begin
<1>4. CASE WriteCall
  <2>1. PICK c \in Calls : c.fn = "write" /\ call' = c /\ addr' = c.addr
    BY <1>4 DEF WriteCall
  <2>2. AsOperation' = Store!Writing(c.addr, Data(c), c.len)
    BY <1>1, <2>1 DEF AsOperation, Store!Writing, Given, DoneTo
  <2>3. Store!Writing(c.addr, Data(c), c.len) \in Operations
    BY <2>1 DEF Operations
  <2>4. QED
    BY <1>2, <2>2, <2>3 DEF Store!Begin
<1>5. QED
  BY <1>3, <1>4

(* What the device may be changing for the operation.                      *)
LEMMA WorkingIs ==
  SpiInv /\ Given /\ ~lost => Store!Working = addr .. addr + step - 1
<1> SUFFICES ASSUME SpiInv, Given, ~lost PROVE Store!Working = addr .. addr + step - 1
  OBVIOUS
<1>1. addr \in Nat /\ step \in Nat
  BY DEF SpiInv, RangeOK, Given, Amount
<1>2. AsOperation.since = addr /\ AsOperation.at = addr + step
  BY DEF AsOperation, DoneTo, Given
<1>3. QED
  BY <1>1, <1>2 DEF Store!Working

(* A call that is given up leaves the device at work on what it was given  *)
(* last, or on what is late already.                                       *)
LEMMA GivenUp ==
  ASSUME SpiInv, pc # "idle", pc' = "idle", flash' = flash, busy' = busy,
         dev' = dev \/ (dev = "ready" /\ dev' = "latched")
  PROVE  Store!ReturnError
<1>1. AsOperation # Store!NoOp /\ AsOperation' = Store!NoOp
  BY SomeOperation, NextOperation
<1>2. AsLate' = IF dev = "busy" THEN busy ELSE {}
  BY DEF AsLate, Given
<1>3. CASE dev # "busy"
  BY <1>1, <1>2, <1>3 DEF Store!ReturnError
<1>4. CASE dev = "busy" /\ ~(Given /\ ~lost)
  <2>1. AsLate = busy
    BY <1>4 DEF AsLate
  <2>2. QED
    BY <1>1, <1>2, <1>4, <2>1 DEF Store!ReturnError
<1>5. CASE dev = "busy" /\ Given /\ ~lost
  <2>1. AsLate = {} /\ busy = addr .. addr + step - 1
    BY <1>5 DEF AsLate, SpiInv, DeviceOK
  <2>2. Store!Working = addr .. addr + step - 1
    BY <1>5, WorkingIs
  <2>3. AsLate' = Store!Working
    BY <1>2, <1>5, <2>1, <2>2
  <2>4. QED
    BY <1>1, <2>1, <2>3 DEF Store!ReturnError
<1>6. QED
  BY <1>3, <1>4, <1>5

(* Between commands nothing of the operation is seen, but that it is given *)
(* up or has been through from the start.                                  *)
LEMMA WaitingRefines ==
  SpiInv /\ (NothingToDo \/ WriteEnable \/ ReadLatch \/ CommandError)
    => Store!ReturnError \/ UNCHANGED <<flash, AsOperation, AsLate>>
<1> SUFFICES ASSUME SpiInv, NothingToDo \/ WriteEnable \/ ReadLatch \/ CommandError
             PROVE  Store!ReturnError \/ UNCHANGED <<flash, AsOperation, AsLate>>
  OBVIOUS
<1>1. /\ pc \in {"nothing", "wren", "latch", "error"} /\ flash' = flash /\ busy' = busy
      /\ dev' = dev \/ (dev = "ready" /\ dev' = "latched")
  BY DEF NothingToDo, WriteEnable, ReadLatch, CommandError, device, SpiInv, DeviceOK
<1>2. CASE pc' = "idle"
  BY <1>1, <1>2, GivenUp
<1>3. CASE pc' # "idle"
  <2>1. /\ UNCHANGED <<call, Position>>
        /\ \/ pc = "wren" /\ pc' = "latch"
           \/ pc = "latch" /\ pc' \in {"latch", "command"} /\ dev' = dev
              /\ (pc' = "command" => dev # "ready")
    BY <1>1, <1>3 DEF NothingToDo, WriteEnable, ReadLatch, CommandError, Return, Goto, Again,
                      device
  <2>2. AsOperation' = AsOperation
    BY <2>1 DEF AsOperation, Given, DoneTo, Position
  <2>3. AsLate' = AsLate
    BY <1>1, <2>1 DEF AsLate, Given
  <2>4. QED
    BY <1>1, <2>2, <2>3
<1>4. QED
  BY <1>2, <1>3

(* What the device makes of a command is what the operation says of the    *)
(* next cells: no program command runs over the end of a page.             *)
LEMMA ChangedIsDone ==
  ASSUME SpiInv, pc = "command"
  PROVE  Changed(addr, CommandStep) = Store!Done(addr + CommandStep)
<1> DEFINE n == CommandStep
<1>1. /\ AsOperation.at = addr /\ AsOperation.kind = call.fn /\ AsOperation.first = First
      /\ AsOperation.data = IF call.fn = "erase" THEN <<>> ELSE Data(call)
  BY DEF AsOperation, DoneTo, Given, First
<1>2. /\ n \in 1 .. left /\ Cells(addr, n) = addr .. addr + n - 1
      /\ call.fn # "erase" => \A i \in 0 .. n - 1 : Wrapped(addr, i) = addr + i
  BY CommandIs
<1>3. addr \in Nat /\ left \in Amount
  BY DEF SpiInv, RangeOK
<1> HIDE DEF n
<1>4. Store!Done(addr + n) =
        [x \in Addr |-> IF x \notin addr .. addr + n - 1 THEN flash[x]
                        ELSE IF call.fn = "erase" THEN Blank
                        ELSE Programmed(flash[x], AsOperation.data[x - First + 1])]
  BY <1>1, <1>2, <1>3 DEF Store!Done, Store!Addr, Addr, Store!Programmed, Programmed
<1>5. ASSUME NEW x \in Addr
      PROVE  Changed(addr, n)[x] = Store!Done(addr + n)[x]
  <2>1. CASE x \notin addr .. addr + n - 1
    BY <1>2, <1>4, <2>1 DEF Changed
  <2>2. CASE x \in addr .. addr + n - 1 /\ call.fn = "erase"
    BY <1>2, <1>4, <2>2 DEF Changed
  <2>3. CASE x \in addr .. addr + n - 1 /\ call.fn # "erase"
    <3> DEFINE k == CHOOSE i \in 0 .. n - 1 : Wrapped(addr, i) = x
    <3>1. x - addr \in 0 .. n - 1 /\ Wrapped(addr, x - addr) = x
      BY <1>2, <1>3, <2>3 DEF Amount
    <3>2. k \in 0 .. n - 1 /\ Wrapped(addr, k) = x
      BY <3>1
    <3>3. k = x - addr
      BY <1>2, <1>3, <2>3, <3>2
    <3>4. Changed(addr, n)[x] = Programmed(flash[x], Data(call)[addr - call.addr + k + 1])
      BY <1>2, <2>3 DEF Changed
    <3> HIDE DEF k
    <3>5. call.addr \in Nat /\ First = call.addr
      BY <2>3, CallIs DEF SpiInv, RangeOK, First
    <3>6. addr - call.addr + k + 1 = x - First + 1
      <4>1. x \in Int
        BY <1>2, <1>3, <2>3
      <4>2. QED
        BY <1>3, <3>3, <3>5, <4>1
    <3>7. Store!Done(addr + n)[x] = Programmed(flash[x], Data(call)[x - First + 1])
      BY <1>1, <1>4, <2>3
    <3>8. QED
      BY <3>4, <3>6, <3>7
  <2>4. QED
    BY <2>1, <2>2, <2>3
<1>6. /\ Changed(addr, n) = [x \in Addr |-> Changed(addr, n)[x]]
      /\ Store!Done(addr + n) = [x \in Addr |-> Store!Done(addr + n)[x]]
  BY DEF Changed, Store!Done, Store!Addr, Addr
<1>7. QED
  BY <1>5, <1>6 DEF n

(* A command is the next part of the operation, or is lost on a device     *)
(* that is busy, or was while the latch was read.                          *)
LEMMA CommandRefines ==
  SpiInv /\ Command => Store!Advance \/ Store!Skip \/ Store!ReturnError
<1> SUFFICES ASSUME SpiInv, Command PROVE Store!Advance \/ Store!Skip \/ Store!ReturnError
  OBVIOUS
<1>1. /\ pc = "command" /\ step' = CommandStep /\ lost' = (dev # "latched")
      /\ UNCHANGED <<addr, left, part>>
  BY DEF Command
<1>2. CommandStep \in 1 .. left /\ Cells(addr, CommandStep) = addr .. addr + CommandStep - 1
  BY <1>1, CommandIs
<1>3. /\ addr \in Nat /\ left \in Amount /\ Total(part) \in Nat
      /\ addr + left + Total(part) = End
  BY <1>1, TotalIsNat DEF SpiInv, RangeOK
<1>4. CASE pc' = "idle"
  <2>1. UNCHANGED device
    BY <1>4 DEF Command, Goto
  <2>2. AsOperation # Store!NoOp /\ AsOperation' = Store!NoOp
    BY <1>1, <1>4, SomeOperation, NextOperation
  <2>3. AsLate' \in {AsLate, {}}
    BY <1>1, <1>4, <2>1 DEF AsLate, Given, device
  <2>4. QED
    BY <2>1, <2>2, <2>3 DEF Store!ReturnError, device
<1>5. CASE pc' # "idle"
  <2>1. pc' \in {"ready", "error"} /\ call' = call /\ Obey(CommandStep)
    BY <1>1, <1>5 DEF Command, Goto, Return
  <2> DEFINE n == addr + CommandStep
  <2>2. /\ AsOperation # Store!NoOp /\ AsOperation.at = addr /\ AsOperation.end = End
        /\ n \in AsOperation.at + 1 .. AsOperation.end
    <3>1. AsOperation # Store!NoOp /\ AsOperation.at = addr /\ AsOperation.end = End
      BY <1>1, SomeOperation, OperationIs DEF Given, DoneTo, OperationAt
    <3>2. n \in addr + 1 .. End
      BY <1>2, <1>3 DEF Amount
    <3>3. QED
      BY <3>1, <3>2
  <2> DEFINE since == IF dev = "latched" THEN addr ELSE n
  <2>3. AsOperation' = [AsOperation EXCEPT !.at = n, !.since = since]
    <3>1. AsOperation = OperationAt(addr, addr)
      BY <1>1, OperationIs DEF Given, DoneTo
    <3>2. AsOperation' = OperationAt(n, since)
      BY <1>1, <2>1, NextOperation DEF Given, DoneTo
    <3> HIDE DEF n, since
    <3> DEFINE moved == [AsOperation EXCEPT !.at = n]
    <3>3. moved = OperationAt(n, addr)
      BY <3>1 DEF OperationAt
    <3>4. [AsOperation EXCEPT !.at = n, !.since = since] = [moved EXCEPT !.since = since]
      OBVIOUS
    <3> HIDE DEF moved
    <3>5. AsOperation' = [moved EXCEPT !.since = since]
      BY <3>2, <3>3 DEF OperationAt
    <3>6. QED
      BY <3>4, <3>5
  <2>4. CASE dev = "latched"
    <3>1. flash' = Store!Done(n)
      BY <1>1, <2>1, <2>4, ChangedIsDone DEF Obey
    <3>2. AsLate = {} /\ AsLate' = {}
      BY <1>1, <2>1, <2>4 DEF AsLate, Given, Obey
    <3>3. QED
      BY <2>2, <2>3, <2>4, <3>1, <3>2 DEF Store!Advance
  <2>5. CASE dev # "latched"
    <3>1. UNCHANGED device
      BY <2>1, <2>5 DEF Obey, device
    <3>2. AsLate = busy /\ busy # {} /\ AsLate' \in {busy, {}}
      BY <1>1, <2>1, <2>5, <3>1 DEF AsLate, Given, device, SpiInv, DeviceOK
    <3>3. QED
      BY <2>2, <2>3, <2>5, <3>1, <3>2 DEF Store!Skip, device
  <2>6. QED
    BY <2>4, <2>5
<1>6. QED
  BY <1>4, <1>5

(* When the device is ready the operation goes on, or has been done.       *)
LEMMA ReadReadyRefines ==
  SpiInv /\ ReadReady => \/ Store!Settle \/ Store!ReturnOk \/ Store!ReturnError
                        \/ UNCHANGED <<flash, AsOperation, AsLate>>
<1> SUFFICES ASSUME SpiInv, ReadReady
             PROVE  \/ Store!Settle \/ Store!ReturnOk \/ Store!ReturnError
                    \/ UNCHANGED <<flash, AsOperation, AsLate>>
  OBVIOUS
<1>1. pc = "ready" /\ UNCHANGED <<device, lost>>
  BY DEF ReadReady
<1>2. CASE pc' = "ready"
  <2>1. UNCHANGED <<Position, call>>
    BY <1>1, <1>2 DEF ReadReady, NextStep, Again, Return
  <2>2. QED
    BY <1>1, <1>2, <2>1 DEF AsOperation, AsLate, Given, DoneTo, Position, device
<1>3. CASE pc' # "ready" /\ pc' # "idle"
  <2>1. pc' = "wren" /\ dev = "ready" /\ addr' = addr + step /\ call' = call
    BY <1>1, <1>3 DEF ReadReady, NextStep, Again, Return
  <2>2. AsOperation' = [AsOperation EXCEPT !.since = AsOperation.at]
    BY <1>1, <2>1 DEF AsOperation, Given, DoneTo
  <2>3. AsLate' = {}
    BY <1>1, <2>1 DEF AsLate, Given, device
  <2>4. QED
    BY <1>1, <2>2, <2>3 DEF Store!Settle, device
<1>4. CASE pc' = "idle" /\ dev # "ready"
  BY <1>1, <1>4, GivenUp DEF device
<1>5. CASE pc' = "idle" /\ dev = "ready"
  <2>1. AsLate = {} /\ AsLate' = {}
    BY <1>1, <1>5 DEF AsLate, Given, device
  <2>2. AsOperation # Store!NoOp /\ AsOperation' = Store!NoOp
    BY <1>1, <1>5, SomeOperation, NextOperation
  <2>3. QED
    BY <1>1, <2>1, <2>2 DEF Store!ReturnError, device
<1>6. QED
  BY <1>2, <1>3, <1>4, <1>5

(* The device is through with the last command, or with a late one.        *)
LEMMA DeviceReadyRefines == SpiInv /\ DeviceReady => Store!Settle
<1> SUFFICES ASSUME SpiInv, DeviceReady PROVE Store!Settle
  OBVIOUS
<1>1. AsOperation' = AsOperation /\ flash' = flash
  BY DEF DeviceReady, driver, AsOperation, Given, DoneTo
<1>2. AsLate' \in {AsLate, {}}
  BY DEF DeviceReady, driver, AsLate, Given
<1>3. QED
  BY <1>1, <1>2 DEF Store!Settle

(* Nothing but what the device was changing is lost with the power.        *)
LEMMA ResetRefines == SpiInv /\ Reset => Store!Stop
<1> SUFFICES ASSUME SpiInv, Reset PROVE Store!Stop
  OBVIOUS
<1>1. AsOperation' = Store!NoOp /\ pc' = "idle" /\ busy' = busy
  BY NextOperation DEF Reset
<1>2. dev = "busy" => busy \subseteq AsLate \cup Store!Working /\ busy \in {AsLate, Store!Working}
  <2>1. CASE dev = "busy" /\ ~(Given /\ ~lost)
    BY <2>1 DEF AsLate
  <2>2. CASE dev = "busy" /\ Given /\ ~lost
    <3>1. Store!Working = busy
      BY <2>2, WorkingIs DEF SpiInv, DeviceOK
    <3>2. QED
      BY <3>1
  <2>3. QED
    BY <2>1, <2>2
<1>3. AsLate' \in {{}, AsLate, Store!Working}
  <2>1. AsLate' = IF dev' = "busy" THEN busy ELSE {}
    BY <1>1 DEF AsLate, Given
  <2>2. dev' = "busy" => dev = "busy"
    BY DEF Reset
  <2>3. QED
    BY <1>2, <2>1, <2>2
<1>4. ASSUME NEW x \in Addr \ (AsLate \cup Store!Working) PROVE flash'[x] = flash[x]
  <2>1. CASE flash' = flash
    BY <2>1
  <2>2. CASE flash' # flash
    <3>1. PICK cells \in {{}, {y \in busy : y % 2 = 1}, busy} :
            flash' = Torn(flash, cells) /\ dev = "busy"
      BY <2>2 DEF Reset
    <3>2. x \notin cells /\ x \in Addr
      BY <1>2, <3>1
    <3>3. QED
      BY <3>1, <3>2 DEF Torn
  <2>3. QED
    BY <2>1, <2>2
<1>5. QED
  BY <1>1, <1>3, <1>4 DEF Store!Stop, Store!Addr, Addr

(* A call that succeeds has done all of its range, or had none.            *)
LEMMA SuccessIsDone == SpiInv /\ Succeeds => Store!ReturnOk
<1> SUFFICES ASSUME SpiInv, Succeeds PROVE Store!ReturnOk
  OBVIOUS
<1>1. pc # "idle" /\ pc' = "idle" /\ result' = 0 /\ DriverStep
  BY DEF Succeeds, DriverStep, NothingToDo, WriteEnable, ReadLatch, Command, CommandError,
         ReadReady
<1>2. AsOperation # Store!NoOp /\ AsOperation' = Store!NoOp
  BY <1>1, SomeOperation, NextOperation
<1>3. NothingToDo \/ ReadReady
  BY <1>1 DEF DriverStep, WriteEnable, ReadLatch, Command, CommandError, Return, Again, Goto
<1>4. CASE NothingToDo
  <2>1. pc = "nothing" /\ UNCHANGED device
    BY <1>4 DEF NothingToDo
  <2>2. addr = First /\ addr = End
    BY <2>1 DEF SpiInv, RangeOK
  <2>3. AsOperation = OperationAt(addr, addr)
    BY <2>1, OperationIs DEF Given, DoneTo
  <2>4. AsLate' = AsLate
    BY <1>1, <2>1 DEF AsLate, Given, device
  <2>5. QED
    BY <1>2, <2>1, <2>2, <2>3, <2>4 DEF Store!ReturnOk, OperationAt, device
<1>5. CASE ReadReady
  <2>1. pc = "ready" /\ dev = "ready" /\ UNCHANGED device /\ NextStep
    BY <1>1, <1>5 DEF ReadReady, Again, Return
  <2>2. AsLate = {} /\ AsLate' = {}
    BY <1>1, <2>1 DEF AsLate, Given, device
  <2>3. ~(left > step) /\ part = <<>>
    BY <1>1, <2>1 DEF NextStep
  <2>4. addr + step = End
    <3>1. /\ addr \in Nat /\ left \in Nat /\ step \in 1 .. left
          /\ addr + left + Total(part) = End
      BY <2>1 DEF SpiInv, RangeOK, Given, Amount
    <3>2. Total(part) = 0
      BY <2>3 DEF Total
    <3>3. QED
      BY <2>3, <3>1, <3>2
  <2>5. AsOperation.at = addr + step /\ AsOperation.end = End
    BY <2>1, OperationIs DEF Given, DoneTo, OperationAt
  <2>6. QED
    BY <1>2, <2>1, <2>2, <2>4, <2>5 DEF Store!ReturnOk, device
<1>6. QED
  BY <1>3, <1>4, <1>5

(* flash_erase and flash_write (spiflash.c:153, 192) keep the promises     *)
(* that FlashStore makes to their callers, with errors and time-outs of    *)
(* any command and a reset or loss of power at any moment.                 *)
THEOREM FlashStoreImplemented == Spec => StoreImplemented
<1>1. Init => Store!StoreInit
  BY OperationIs DEF Init, Store!StoreInit, AsLate, Given
<1>2. SpiInv /\ [Next]_vars
        => [/\ Store!StoreNext(Operations)
            /\ Succeeds => Store!ReturnOk]_<<flash, AsOperation, AsLate>>
  <2>1. SpiInv /\ UNCHANGED vars => UNCHANGED <<flash, AsOperation, AsLate>>
    BY DEF vars, driver, device, AsOperation, AsLate, Given, DoneTo
  <2>2. SpiInv /\ Next => \/ Store!StoreNext(Operations)
                         \/ UNCHANGED <<flash, AsOperation, AsLate>>
    BY CallBegins, WaitingRefines, CommandRefines, ReadReadyRefines, DeviceReadyRefines,
       ResetRefines DEF Next, DriverStep, Store!StoreNext
  <2>3. SpiInv /\ Succeeds => Store!ReturnOk
    BY SuccessIsDone
  <2>4. QED
    BY <2>1, <2>2, <2>3
<1>3. Spec => []SpiInv
  BY SpiInvariant
<1>4. QED
  BY <1>1, <1>2, <1>3, PTL DEF Spec, StoreImplemented
=============================================================================

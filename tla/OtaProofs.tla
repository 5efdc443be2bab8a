----------------------------- MODULE OtaProofs -----------------------------
(***************************************************************************)
(* Theorems about the firmware update of module Ota, for every zone table, *)
(* every set of images and of packets, and for any number of updates,      *)
(* failing flash operations, resets and losses of power: the valid flag of *)
(* a zone tells that its image is complete, a confirmed image is the one   *)
(* found, the newest image of every id survives, and in overwrite mode     *)
(* nothing but the zone for updates is touched.                            *)
(*                                                                         *)
(* What the checksum samples says nothing of the rest of an image, so none *)
(* of these is inductive.  They follow from what ota.c never writes down:  *)
(* where each unit of an image can be found, what the device may be        *)
(* changing when the power goes, that the flag is blank between START and  *)
(* OTA_OTA_VERIFY, and that nothing as new as the announced image turns    *)
(* up.                                                                     *)
(***************************************************************************)
EXTENDS Ota, WellFoundedInduction, TLAPS

(* A zone's first cell, which holds the flag, and all its cells.           *)
Start(k) == zones[k].address
Cells(k) == zones[k].address .. zones[k].address + zones[k].size - 1

(* The flags, that which OTA_OTA_VERIFY sets, and zones that have one.     *)
Flags == {OTA_EXEC_VALID_FLAG, OTA_OTA_VALID_FLAG}
FlagOf == IF ota_mode = "overwrite" THEN OTA_OTA_VALID_FLAG ELSE OTA_EXEC_VALID_FLAG
Flagged(k) == flash[Start(k)] \in Flags
Exec(k) == flash[Start(k)] = OTA_EXEC_VALID_FLAG

(* The zone table and the mode are those of a device.                      *)
DeviceOK ==
  \E s \in Setups : zones = s.zones /\ ota_mode = s.ota_mode /\ sent = s.sent

(* The types of ota_env, and the state a command is carried out in.        *)
EnvOK ==
  /\ DOMAIN env = DOMAIN ClearEnv
  /\ env.state \in {"IDLE", "VERSION_CHECK", "DATA_WRITE", "DATA_VERIFY"}
  /\ env.base \in Nat /\ env.size \in {0} \cup Sizes
  /\ cmd \in {"none", "start", "write", "verify"}
  /\ cmd = "none" <=> op = NoOp
  /\ cmd # "none" => env.pConfig
  /\ cmd = "start" => env.state = "VERSION_CHECK"
  /\ cmd \in {"write", "verify"} => env.state = "DATA_WRITE"
  /\ env.state \in {"VERSION_CHECK", "DATA_WRITE", "DATA_VERIFY"} => env.new_ver \in Images
  /\ result = "verify_confirm" => cmd = "none" /\ env.state = "DATA_VERIFY"

(* From START to the answer to OTA_OTA_VERIFY there is a zone that the     *)
(* update goes to; it is large enough, never the boot loader's, and in     *)
(* overwrite mode the one for updates.                                     *)
Updating == cmd # "none" \/ env.state = "DATA_WRITE" \/ result = "verify_confirm"

Goal(k) ==
  /\ k # 1 /\ Start(k) = env.base /\ env.size <= zones[k].size
  /\ ota_mode = "overwrite" => zones[k].id = OTA_ZONE_ID_OTA

GoalOK == Updating => \E k \in ZoneNo : Goal(k)

(* The operation stays in that zone; it writes units of an image, each at  *)
(* its place, or the flag.                                                 *)
OpOK ==
  /\ DOMAIN op = DOMAIN NoOp
  /\ op.first \in Nat /\ op.since \in Nat /\ op.at \in Nat /\ op.end \in Nat
  /\ op.first <= op.since /\ op.since <= op.at /\ op.at <= op.end
  /\ cmd # "none" =>
       /\ op.kind = IF cmd = "start" THEN "erase" ELSE "write"
       /\ \A k \in ZoneNo : Goal(k) => Start(k) <= op.first /\ op.end <= Start(k) + zones[k].size
  /\ cmd = "start" => op.first = env.base /\ (op.end = op.first => env.size = 0)
  /\ cmd = "write" =>
       /\ op.end <= env.base + env.size
       /\ \A x \in op.first .. op.end - 1 :
            \E m \in Images : op.data[x - op.first + 1] = Unit(m, x - env.base)
  /\ cmd = "verify" => op.first = env.base /\ op.end = env.base + 1 /\ op.data[1] = FlagOf

(* A unit of data is found only at its place in a zone, so that no image   *)
(* that is complete reaches into the next zone.                            *)
Own(c) ==
  \A x \in Addr, m \in Images : \A d \in 1 .. m.size :
    c[x] = <<"data", m, d>> => \E k \in ZoneNo : x = Start(k) + d /\ d < zones[k].size

ContentsOK == DOMAIN flash = Addr /\ Own(flash)

(* What is late, in overwrite mode, was a part of the update.              *)
LateOK ==
  ota_mode = "overwrite" =>
    \A x \in late : \E k \in ZoneNo : x \in Cells(k) /\ zones[k].id = OTA_ZONE_ID_OTA

(* A flagged zone has all of its image, and the device is changing nothing *)
(* of it but the flag itself.                                              *)
FlagOK ==
  \A k \in ZoneNo : Flagged(k) => Complete(Start(k)) /\ late \cap Cells(k) \subseteq {Start(k)}

(* Once START has erased the first sector the flag is blank, until the     *)
(* command of OTA_OTA_VERIFY sets it over a complete image.  START with a  *)
(* size of zero erases nothing.                                            *)
ErasedOK ==
  /\ cmd = "start" /\ op.at > op.first => flash[env.base] = Blank
  /\ env.state = "DATA_WRITE" /\ cmd # "verify" /\ env.size > 0 => flash[env.base] = Blank
  /\ cmd = "verify" =>
       /\ Complete(env.base)
       /\ env.size > 0 => flash[env.base] = IF op.at = op.first THEN Blank ELSE FlagOf
  /\ result = "verify_confirm" /\ env.size > 0 => flash[env.base] = FlagOf

(* In switch mode no zone of the announced id is as new as the announced   *)
(* image, but the one the update went to.                                  *)
Announced ==
  (/\ ota_mode = "switch"
   /\ env.state \in {"VERSION_CHECK", "DATA_WRITE"} \/ result = "verify_confirm") =>
    \A k \in ZoneNo :
      Exec(k) /\ ZoneId(k) = env.new_ver.zone_id =>
        \/ Version(k) < env.new_ver.version
        \/ Start(k) = env.base /\ (cmd = "verify" \/ result = "verify_confirm")

(* Where the update goes to a zone that can be run, another one of its id  *)
(* can, with an image as new.                                              *)
Spared ==
  (/\ ota_mode = "switch"
   /\ cmd # "none" \/ env.state = "DATA_WRITE"
   /\ ~(cmd = "verify" /\ op.at = op.end)) =>
    \A k \in ZoneNo : Exec(k) /\ Start(k) = env.base =>
      \E j \in ZoneNo \ {k} : Exec(j) /\ ZoneId(j) = ZoneId(k) /\ Version(j) >= Version(k)

(* What holds until a command is lost on a busy device, and what always    *)
(* does.                                                                   *)
Promised == FlagOK /\ ErasedOK /\ Announced /\ Spared
OtaBase == DeviceOK /\ EnvOK /\ GoalOK /\ OpOK /\ ContentsOK /\ LateOK
OtaInv == OtaBase /\ (~skipped => Promised)

-----------------------------------------------------------------------------
(* What is known of a device's zones.                                      *)
LEMMA ZoneFacts ==
  ASSUME DeviceOK
  PROVE  /\ 1 \in ZoneNo /\ ZoneNo \subseteq Nat \ {0} /\ Start(1) = 0
         /\ zones[1].id = OTA_ZONE_ID_BOOT /\ sent \subseteq Images
         /\ \A k \in ZoneNo :
              /\ Start(k) \in Nat /\ zones[k].size \in Nat \ {0, 1} /\ zones[k].id \in Nat
              /\ Start(k) % SPIROM_SECTOR_SIZE = 0 /\ zones[k].size % SPIROM_SECTOR_SIZE = 0
              /\ Start(k) + zones[k].size <= FlashSize
              /\ \A m \in Images : Start(k) + m.size <= FlashSize
              /\ \A j \in ZoneNo \ {k} : \/ Start(j) + zones[j].size <= Start(k)
                                         \/ Start(k) + zones[k].size <= Start(j)
<1>1. PICK s \in Setups : zones = s.zones /\ ota_mode = s.ota_mode /\ sent = s.sent
  BY DEF DeviceOK
<1>2. ProductOK(s)
  BY OtaAssumption
<1> DEFINE Z == [id : Nat, address : Nat, size : Nat \ {0, 1}, signed : BOOLEAN]
<1>3. zones \in Seq(Z) /\ zones # <<>>
  BY <1>1, <1>2 DEF ProductOK
<1>4. ZoneNo = 1 .. Len(zones) /\ Len(zones) \in Nat \ {0}
  BY <1>3 DEF ZoneNo
<1> HIDE DEF Z
<1>5. ASSUME NEW k \in ZoneNo PROVE zones[k] \in Z
  BY <1>3, <1>4
<1> USE DEF Z
<1>6. ASSUME NEW k \in ZoneNo
      PROVE  Start(k) \in Nat /\ zones[k].size \in Nat \ {0, 1} /\ zones[k].id \in Nat
  BY <1>5 DEF Start
<1> HIDE DEF Z
<1>7. ASSUME NEW k \in ZoneNo
      PROVE  /\ Start(k) % SPIROM_SECTOR_SIZE = 0 /\ zones[k].size % SPIROM_SECTOR_SIZE = 0
             /\ Start(k) + zones[k].size <= FlashSize
             /\ \A m \in Images : Start(k) + m.size <= FlashSize
             /\ \A j \in ZoneNo \ {k} : \/ Start(j) + zones[j].size <= Start(k)
                                        \/ Start(k) + zones[k].size <= Start(j)
  BY <1>1, <1>2 DEF ProductOK, Start, ZoneNo
<1>8. /\ 1 \in ZoneNo /\ ZoneNo \subseteq Nat \ {0}
  BY <1>4
<1>9. Start(1) = 0 /\ zones[1].id = OTA_ZONE_ID_BOOT /\ sent \subseteq Images
  BY <1>1, <1>2 DEF ProductOK, Start
<1>10. QED
  BY <1>6, <1>7, <1>8, <1>9

(* The zones are numbered.                                                 *)
LEMMA ZoneNumbers ==
  ASSUME DeviceOK
  PROVE  \E n \in Nat : ZoneNo = 1 .. n
<1>1. PICK s \in Setups : zones = s.zones
  BY DEF DeviceOK
<1>2. ProductOK(s)
  BY OtaAssumption
<1> DEFINE Z == [id : Nat, address : Nat, size : Nat \ {0, 1}, signed : BOOLEAN]
<1>3. zones \in Seq(Z)
  BY <1>1, <1>2 DEF ProductOK
<1> HIDE DEF Z
<1>4. QED
  BY <1>3 DEF ZoneNo

(* A cell is in one zone only, and only the first zone begins at 0.        *)
LEMMA ZonesApart ==
  ASSUME DeviceOK, NEW j \in ZoneNo, NEW k \in ZoneNo, j # k
  PROVE  /\ \A x \in Cells(j) : x \notin Cells(k)
         /\ Start(j) # Start(k)
         /\ k # 1 => Start(k) # 0
<1>1. ASSUME NEW a \in ZoneNo, NEW b \in ZoneNo, a # b
      PROVE  Start(a) # Start(b) /\ \A x \in Cells(a) : x \notin Cells(b)
  BY <1>1, ZoneFacts DEF Cells, Start
<1>2. k # 1 => Start(k) # 0
  BY <1>1, ZoneFacts
<1>3. QED
  BY <1>1, <1>2

(* The cells of a zone are cells of the flash, and it has a flag and a     *)
(* header.                                                                 *)
LEMMA ZoneInFlash ==
  ASSUME DeviceOK, NEW k \in ZoneNo
  PROVE  /\ Cells(k) \subseteq Addr /\ Start(k) \in Cells(k) /\ Start(k) + 1 \in Cells(k)
<1>1. /\ Start(k) \in Nat /\ zones[k].size \in Nat \ {0, 1}
      /\ Start(k) + zones[k].size <= FlashSize /\ FlashSize \in Nat
  BY ZoneFacts, CellsAssumption
<1>2. QED
  BY <1>1 DEF Cells, Start, Addr

(* The header that a cell holds is one, and the flags are neither blank    *)
(* nor garbage, nor any unit of an image.                                  *)
LEMMA UnitsDiffer ==
  ASSUME NEW m \in Images
  PROVE  /\ \A n : <<"header", m>> = <<"header", n>> => m = n
         /\ \A i \in Nat : Unit(m, i) \notin Flags
         /\ \A n, i, d : <<"data", m, i>> = <<"data", n, d>> => m = n /\ i = d
         /\ \A n, i : <<"data", n, i>> # <<"header", m>> /\ <<"data", n, i>> \notin Flags
<1>1. Blank \notin Flags /\ Garbage \notin Flags
  BY OtaAssumption DEF Flags
<1>2. \A n, i : <<"data", n, i>> # <<"header", m>> /\ <<"data", n, i>> \notin Flags
  BY DEF Flags, OTA_EXEC_VALID_FLAG, OTA_OTA_VALID_FLAG
<1>3. <<"header", m>> \notin Flags
  BY DEF Flags, OTA_EXEC_VALID_FLAG, OTA_OTA_VALID_FLAG
<1>4. \A i \in Nat : Unit(m, i) \notin Flags
  BY <1>1, <1>2, <1>3 DEF Unit
<1>5. QED
  BY <1>2, <1>4

(* A complete image lies in its zone: behind the zone's end there is no    *)
(* unit of it.                                                             *)
LEMMA CompleteFits ==
  ASSUME DeviceOK, NEW c, Own(c), NEW k \in ZoneNo, NEW m \in Images,
         \A i \in 2 .. m.size : i < m.size => c[Start(k) + i] = Unit(m, i)
  PROVE  m.size <= zones[k].size
<1>1. SUFFICES ASSUME m.size > zones[k].size PROVE FALSE
  BY ZoneFacts, OtaAssumption
<1> DEFINE d == zones[k].size
           x == Start(k) + d
<1>2. /\ d \in Nat \ {0, 1} /\ m.size \in Nat /\ d < m.size /\ Start(k) \in Nat
      /\ Start(k) + m.size <= FlashSize
  BY <1>1, ZoneFacts, OtaAssumption
<1>3. x \in Addr /\ d \in 1 .. m.size /\ d \in 2 .. m.size
  BY <1>2, CellsAssumption DEF Addr
<1>4. c[x] = <<"data", m, d>>
  <2>1. c[Start(k) + d] = Unit(m, d)
    BY <1>2, <1>3
  <2>2. Unit(m, d) = <<"data", m, d>>
    BY <1>2 DEF Unit
  <2>3. QED
    BY <2>1, <2>2
<1>5. PICK j \in ZoneNo : x = Start(j) + d /\ d < zones[j].size
  BY <1>3, <1>4 DEF Own
<1>6. Start(j) = Start(k)
  BY <1>2, <1>5, ZoneFacts
<1>7. j = k
  BY <1>6, ZonesApart
<1>8. d < d
  BY <1>5, <1>7
<1>9. QED
  BY <1>2, <1>8

-----------------------------------------------------------------------------
(* What a unit of an image is.                                             *)
LEMMA UnitIs ==
  ASSUME NEW m \in Images, NEW i \in Nat
  PROVE  /\ i = 0 => Unit(m, i) = Blank
         /\ i = 1 => Unit(m, i) = <<"header", m>>
         /\ i > 1 /\ i < m.size => Unit(m, i) = <<"data", m, i>>
         /\ Unit(m, i) \in {Blank, Garbage, <<"header", m>>}
            \/ (i < m.size /\ Unit(m, i) = <<"data", m, i>>)
<1>1. m.size \in Nat
  BY OtaAssumption
<1>2. CASE i = 0
  <2>1. Unit(m, i) = Blank
    BY <1>2 DEF Unit
  <2>2. QED
    BY <1>2, <2>1
<1>3. CASE i = 1
  <2>1. Unit(m, i) = <<"header", m>>
    BY <1>3 DEF Unit
  <2>2. QED
    BY <1>3, <2>1
<1>4. CASE i > 1 /\ i < m.size
  <2>1. i # 0 /\ i # 1
    BY <1>4
  <2>2. Unit(m, i) = <<"data", m, i>>
    BY <1>4, <2>1 DEF Unit
  <2>3. QED
    BY <1>4, <2>1, <2>2
<1>5. CASE i > 1 /\ ~(i < m.size)
  <2>1. i # 0 /\ i # 1
    BY <1>5
  <2>2. Unit(m, i) = Garbage
    BY <1>5, <2>1 DEF Unit
  <2>3. QED
    BY <1>5, <2>1, <2>2
<1>6. QED
  BY <1>2, <1>3, <1>4, <1>5

(* Which image a zone's header tells.                                      *)
LEMMA HeaderIs ==
  ASSUME DeviceOK, NEW k \in ZoneNo, NEW m \in Images, flash[Start(k) + 1] = <<"header", m>>
  PROVE  HeaderOf(Start(k)) = {m} /\ Version(k) = m.version /\ ZoneId(k) = m.zone_id
<1>1. ASSUME NEW n \in Images, flash[Start(k) + 1] = <<"header", n>> PROVE n = m
  BY <1>1
<1>2. HeaderOf(Start(k)) = {m}
  BY <1>1 DEF HeaderOf
<1>3. HeaderOf(zones[k].address) = {m}
  BY <1>2 DEF Start
<1>4. (CHOOSE n \in HeaderOf(zones[k].address) : TRUE) = m
  BY <1>3
<1>5. QED
  BY <1>2, <1>4 DEF Version, ZoneId

(* A complete zone has the image whose header it has.                      *)
LEMMA CompleteIs ==
  ASSUME DeviceOK, NEW k \in ZoneNo
  PROVE  Complete(Start(k)) <=>
           \E m \in Images : /\ flash[Start(k) + 1] = <<"header", m>>
                             /\ \A i \in 2 .. m.size : i < m.size
                                  => flash[Start(k) + i] = Unit(m, i)
  BY DEF Complete, HeaderOf, Holds

(* As long as all flagged zones are complete, the samples tell the truth.  *)
LEMMA ValidIs ==
  ASSUME DeviceOK, FlagOK, NEW k \in ZoneNo
  PROVE  Valid(k) <=> Exec(k)
<1>1. Valid(k) => Exec(k)
  BY DEF Valid, Exec, ota_check_sum, Start
<1>2. ASSUME Exec(k) PROVE Valid(k)
  <2>1. Complete(Start(k))
    BY <1>2 DEF FlagOK, Flagged, Exec, Flags
  <2>2. PICK m \in HeaderOf(Start(k)) : Holds(Start(k), m, m.size)
    BY <2>1 DEF Complete
  <2>3. m \in Images /\ m.size \in Nat
    BY <2>2, OtaAssumption DEF HeaderOf
  <2>4. ASSUME NEW i \in 2 .. Sampled, i < m.size PROVE i \in 2 .. m.size
    BY <2>3, <2>4, OtaAssumption
  <2>5. Holds(Start(k), m, Sampled)
    BY <2>2, <2>4 DEF Holds
  <2>6. ota_check_sum(Start(k))
    BY <1>2, <2>2, <2>5 DEF ota_check_sum, Exec
  <2>7. QED
    BY <2>6 DEF Valid, Start
<1>3. QED
  BY <1>1, <1>2

(* Where a zone's cells are the same in two contents of the flash, of      *)
(* which one holds a complete image there, the other does.                 *)
LEMMA SameImage ==
  ASSUME DeviceOK, NEW c, Own(c), NEW e, NEW k \in ZoneNo, NEW m \in Images,
         \A x \in Cells(k) : x # Start(k) => e[x] = c[x],
         c[Start(k) + 1] = <<"header", m>>,
         \A i \in 2 .. m.size : i < m.size => c[Start(k) + i] = Unit(m, i)
  PROVE  /\ e[Start(k) + 1] = <<"header", m>>
         /\ \A i \in 2 .. m.size : i < m.size => e[Start(k) + i] = Unit(m, i)
<1>1. m.size <= zones[k].size /\ m.size \in Nat
  BY CompleteFits, OtaAssumption
<1>2. Start(k) \in Nat /\ zones[k].size \in Nat \ {0, 1}
  BY ZoneFacts
<1>3. ASSUME NEW i \in 1 .. m.size, i < m.size \/ i = 1
      PROVE  Start(k) + i \in Cells(k) /\ Start(k) + i # Start(k)
  BY <1>1, <1>2, <1>3 DEF Cells, Start
<1>4. 1 \in 1 .. m.size
  BY <1>1, OtaAssumption
<1>5. e[Start(k) + 1] = <<"header", m>>
  BY <1>3, <1>4
<1>6. ASSUME NEW i \in 2 .. m.size, i < m.size PROVE e[Start(k) + i] = Unit(m, i)
  <2>1. i \in 1 .. m.size
    BY <1>1
  <2>2. e[Start(k) + i] = c[Start(k) + i]
    BY <1>3, <1>6, <2>1
  <2>3. QED
    BY <1>6, <2>2
<1>7. QED
  BY <1>5, <1>6

-----------------------------------------------------------------------------
(* A set of naturals has a least element: what the least zone is.          *)
LEMMA SomeLeast ==
  ASSUME NEW S \in SUBSET Nat, S # {}
  PROVE  \E x \in S : \A y \in S : x <= y
<1> DEFINE R == OpToRel(<, Nat)
<1>1. IsWellFoundedOn(R, Nat)
  BY NatLessThanWellFounded
<1>2. \A x, y \in Nat : x < y => <<x, y>> \in R
  BY DEF OpToRel
<1> HIDE DEF R
<1>3. PICK x \in S : \A y \in S : <<y, x>> \notin R
  BY <1>1, WFMin
<1>4. ASSUME NEW y \in S PROVE x <= y
  <2>1. x \in Nat /\ y \in Nat
    OBVIOUS
  <2>2. ~(y < x)
    BY <1>2, <1>3, <2>1
  <2>3. QED
    BY <2>1, <2>2
<1>5. QED
  BY <1>4

(* It is what Min finds.                                                   *)
LEMMA MinIs ==
  ASSUME NEW S \in SUBSET Nat, S # {}
  PROVE  Min(S) \in S /\ \A y \in S : Min(S) <= y
  BY SomeLeast DEF Min

(* Of finitely many naturals one is the greatest: the least n for which    *)
(* the first n had none would not be the least.                            *)
LEMMA SomeGreatest ==
  ASSUME NEW n \in Nat, NEW C \in SUBSET (1 .. n), C # {},
         NEW f, \A k \in C : f[k] \in Nat
  PROVE  \E i \in C : \A k \in C : f[k] <= f[i]
<1> DEFINE Greatest(j) == \E i \in C : i <= j /\ \A k \in C : k <= j => f[k] <= f[i]
           T == {j \in 1 .. n : (\E k \in C : k <= j) /\ ~Greatest(j)}
<1>1. T = {}
  <2>1. SUFFICES ASSUME T # {} PROVE FALSE
    OBVIOUS
  <2>2. PICK j \in T : \A i \in T : j <= i
    <3>1. T \in SUBSET Nat
      OBVIOUS
    <3> HIDE DEF T
    <3>2. QED
      BY <2>1, <3>1, SomeLeast
  <2>3. j \in 1 .. n /\ ~Greatest(j) /\ j \in Nat
    OBVIOUS
  <2>4. PICK a \in C : a <= j
    OBVIOUS
  <2>5. j - 1 \notin T
    <3>1. SUFFICES ASSUME j - 1 \in T PROVE FALSE
      OBVIOUS
    <3> HIDE DEF T, Greatest
    <3>2. j <= j - 1
      BY <2>2, <3>1
    <3>3. QED
      BY <2>3, <3>2
  <2>6. CASE j \notin C
    <3>1. a \in 1 .. n /\ a # j
      BY <2>6
    <3>2. j - 1 \in 1 .. n /\ a <= j - 1
      BY <2>3, <2>4, <3>1
    <3>3. ASSUME NEW k \in C PROVE k <= j <=> k <= j - 1
      <4>1. k \in 1 .. n /\ k # j
        BY <2>6
      <4> HIDE DEF T, Greatest
      <4>2. QED
        BY <2>3, <4>1
    <3>4. ~Greatest(j - 1)
      BY <2>3, <3>3
    <3>5. j - 1 \in T
      BY <3>2, <3>4
    <3>6. QED
      BY <2>5, <3>5
  <2>7. CASE j \in C /\ ~\E k \in C : k < j
    <3>1. ASSUME NEW k \in C, k <= j PROVE f[k] <= f[j]
      <4>1. k = j
        BY <2>3, <2>7, <3>1
      <4>2. QED
        BY <2>7, <4>1
    <3>2. Greatest(j)
      BY <2>3, <2>7, <3>1
    <3>3. QED
      BY <2>3, <3>2
  <2>8. CASE j \in C /\ \E k \in C : k < j
    <3>1. PICK b \in C : b < j
      BY <2>8
    <3>2. b \in 1 .. n
      OBVIOUS
    <3>3. j - 1 \in 1 .. n /\ b <= j - 1
      BY <2>3, <3>1, <3>2
    <3>4. Greatest(j - 1)
      BY <2>5, <3>3
    <3>5. PICK i \in C : i <= j - 1 /\ \A k \in C : k <= j - 1 => f[k] <= f[i]
      BY <3>4
    <3>6. f[i] \in Nat /\ f[j] \in Nat /\ i \in 1 .. n
      BY <2>8
    <3> HIDE DEF T
    <3>7. ASSUME NEW k \in C, k <= j PROVE k = j \/ f[k] <= f[i]
      <4>1. k \in 1 .. n
        OBVIOUS
      <4>2. k = j \/ k <= j - 1
        BY <2>3, <3>7, <4>1
      <4>3. QED
        BY <3>5, <4>2
    <3>8. CASE f[j] <= f[i]
      <4>1. i <= j
        BY <2>3, <3>5, <3>6
      <4>2. \A k \in C : k <= j => f[k] <= f[i]
        BY <3>7, <3>8
      <4>3. QED
        BY <2>3, <4>1, <4>2
    <3>9. CASE f[i] <= f[j]
      <4>1. ASSUME NEW k \in C, k <= j PROVE f[k] <= f[j]
        <5>1. f[k] \in Nat
          OBVIOUS
        <5>2. QED
          BY <3>6, <3>7, <3>9, <4>1, <5>1
      <4>2. j <= j
        BY <2>3
      <4>3. QED
        BY <2>3, <2>8, <4>1, <4>2
    <3>10. QED
      BY <3>6, <3>8, <3>9
  <2>9. QED
    BY <2>6, <2>7, <2>8
<1>2. PICK a \in C : TRUE
  OBVIOUS
<1>3. n \in 1 .. n /\ a <= n
  OBVIOUS
<1>4. Greatest(n)
  BY <1>1, <1>3
<1>5. PICK i \in C : \A k \in C : k <= n => f[k] <= f[i]
  BY <1>4
<1>6. \A k \in C : k <= n
  OBVIOUS
<1>7. QED
  BY <1>5, <1>6

(* So has Max something to find.                                           *)
LEMMA MaxIs ==
  ASSUME NEW n \in Nat, NEW S \in SUBSET (1 .. n), S # {}
  PROVE  Max(S) \in S
<1> DEFINE f == [k \in S |-> k]
<1>1. \A k \in S : f[k] \in Nat
  OBVIOUS
<1>2. \E i \in S : \A k \in S : f[k] <= f[i]
  <2> HIDE DEF f
  <2> QED
    BY <1>1, SomeGreatest
<1>3. \E i \in S : \A k \in S : k <= i
  BY <1>2
<1>4. \E i \in S : \A k \in S : i >= k
  BY <1>3
<1>5. QED
  BY <1>4 DEF Max

(* A sector begins at its start.                                           *)
LEMMA SectorOf ==
  ASSUME NEW a \in Nat, a % SPIROM_SECTOR_SIZE = 0
  PROVE  SectorStart(a) = a
<1>1. SPIROM_SECTOR_SIZE \in Nat \ {0}
  BY CellsAssumption
<1>2. QED
  BY <1>1 DEF SectorStart

(* The end of a range's last sector is not behind that of a zone of whole  *)
(* sectors which the range does not leave.                                 *)
LEMMA SectorEndIs ==
  ASSUME NEW a \in Nat, NEW b \in Nat, a <= b, b % SPIROM_SECTOR_SIZE = 0
  PROVE  SectorEnd(a) \in Nat /\ a <= SectorEnd(a) /\ SectorEnd(a) <= b
<1> DEFINE S == SPIROM_SECTOR_SIZE
           r == (a + S - 1) \div S
           q == b \div S
<1>1. S \in Nat \ {0}
  BY CellsAssumption
<1>2. q \in Nat /\ r \in Nat /\ b = q * S
  BY <1>1
<1>3. r * S <= a + S - 1 /\ a + S - 1 < r * S + S
  BY <1>1
<1>4. r <= q
  BY <1>1, <1>2, <1>3
<1>5. r * S <= q * S /\ r * S \in Nat
  BY <1>1, <1>2, <1>4
<1>6. SectorEnd(a) = r * S
  BY DEF SectorEnd, SectorStart
<1> HIDE DEF r, q
<1>7. QED
  BY <1>1, <1>2, <1>3, <1>5, <1>6


-----------------------------------------------------------------------------
(* A flagged zone has an image with a version.                             *)
LEMMA FlaggedHas ==
  ASSUME DeviceOK, FlagOK, NEW k \in ZoneNo, Exec(k)
  PROVE  \E m \in Images :
           /\ flash[Start(k) + 1] = <<"header", m>>
           /\ Version(k) = m.version /\ ZoneId(k) = m.zone_id
           /\ \A i \in 2 .. m.size : i < m.size => flash[Start(k) + i] = Unit(m, i)
           /\ Version(k) \in Nat
<1>1. Complete(Start(k))
  BY DEF FlagOK, Flagged, Exec, Flags
<1>2. PICK m \in Images :
        /\ flash[Start(k) + 1] = <<"header", m>>
        /\ \A i \in 2 .. m.size : i < m.size => flash[Start(k) + i] = Unit(m, i)
  BY <1>1, CompleteIs
<1>3. Version(k) = m.version /\ ZoneId(k) = m.zone_id
  BY <1>2, HeaderIs
<1>4. QED
  BY <1>2, <1>3, OtaAssumption

(* ota_find_zone finds the newest zone of an id that has the flag.         *)
LEMMA FindsNewest ==
  ASSUME DeviceOK, FlagOK, NEW id, NEW i, i = ota_find_zone(id)
  PROVE  /\ i = 0 => \A k \in ZoneNo : ~(Exec(k) /\ ZoneId(k) = id)
         /\ i # 0 => /\ i \in ZoneNo /\ Exec(i) /\ ZoneId(i) = id
                     /\ \A k \in ZoneNo : Exec(k) /\ ZoneId(k) = id => Version(k) <= Version(i)
<1> DEFINE C == {k \in ZoneNo : Valid(k) /\ ZoneId(k) = id}
           N == {k \in C : \A j \in C : Version(k) >= Version(j)}
           f == [k \in C |-> Version(k)]
<1>1. \A k \in ZoneNo : k \in C <=> (Exec(k) /\ ZoneId(k) = id)
  BY ValidIs
<1>2. i = IF C = {} THEN 0 ELSE Min(N)
  BY DEF ota_find_zone
<1>3. C \subseteq ZoneNo /\ N \subseteq C
  OBVIOUS
<1>4. CASE C = {}
  BY <1>1, <1>2, <1>4, ZoneFacts
<1>5. CASE C # {}
  <2>1. \A k \in C : Version(k) \in Nat
    BY <1>1, <1>3, FlaggedHas
  <2>2. \A k \in C : f[k] = Version(k)
    OBVIOUS
  <2>3. PICK n \in Nat : ZoneNo = 1 .. n
    BY ZoneNumbers
  <2>4. C \in SUBSET (1 .. n) /\ \A k \in C : f[k] \in Nat
    BY <2>1, <2>3
  <2>5. N \in SUBSET (1 .. n)
    BY <2>3
  <2> HIDE DEF C, f
  <2>6. \E k \in C : \A j \in C : f[j] <= f[k]
    BY <1>5, <2>4, SomeGreatest
  <2>7. N # {}
    BY <2>1, <2>2, <2>6
  <2>8. N \in SUBSET Nat
    <3> HIDE DEF N
    <3> QED
      BY <2>5
  <2>9. Min(N) \in N
    <3> HIDE DEF N
    <3> QED
      BY <2>7, <2>8, MinIs
  <2>10. i \in C /\ \A j \in C : Version(i) >= Version(j)
    BY <1>2, <1>5, <2>9
  <2>11. i \in ZoneNo /\ Exec(i) /\ ZoneId(i) = id
    BY <1>1, <1>3, <2>10
  <2>12. ASSUME NEW k \in ZoneNo, Exec(k), ZoneId(k) = id PROVE Version(k) <= Version(i)
    <3>1. k \in C
      BY <1>1, <2>12
    <3>2. QED
      BY <2>1, <2>10, <3>1
  <2>13. i # 0
    BY <2>11, ZoneFacts
  <2>14. QED
    BY <2>11, <2>12, <2>13
<1>6. QED
  BY <1>4, <1>5

(* Which zone ota_find_blank_zone takes: one that cannot be run, or one    *)
(* that another of the same id is at least as new as.                      *)
LEMMA BlankZoneIs ==
  ASSUME DeviceOK, NEW size \in Nat, NEW i, i = ota_find_blank_zone(size), i # 0
  PROVE  /\ i \in ZoneNo /\ i # 1 /\ size <= zones[i].size
         /\ FlagOK /\ Exec(i) =>
              \E k \in ZoneNo \ {i} : Exec(k) /\ ZoneId(k) = ZoneId(i) /\ Version(k) >= Version(i)
<1> DEFINE F == {j \in ZoneNo : ForZone(j, size) # 0}
<1>1. PICK j \in ZoneNo : i = ForZone(j, size)
  <2>1. FirstOf(F) # 0
    BY ZoneFacts DEF ota_find_blank_zone
  <2>2. F # {} /\ FirstOf(F) = Min(F)
    BY <2>1 DEF FirstOf
  <2>3. F \in SUBSET Nat
    BY ZoneFacts
  <2>4. Min(F) \in F
    <3> HIDE DEF F
    <3> QED
      BY <2>2, <2>3, MinIs
  <2>5. i = ForZone(Min(F), size)
    BY <2>1, <2>2 DEF ota_find_blank_zone
  <2>6. QED
    BY <2>4, <2>5
<1>2. zones[j].id # OTA_ZONE_ID_BOOT /\ j # 1 /\ j \in Nat \ {0}
  BY <1>1, ZoneFacts DEF ForZone
<1>3. CASE ~Valid(j)
  <2>1. i = j /\ zones[j].size >= size
    BY <1>1, <1>2, <1>3 DEF ForZone
  <2>2. FlagOK => ~Exec(i)
    BY <1>3, <2>1, ValidIs
  <2>3. QED
    BY <1>2, <2>1, <2>2, ZoneFacts
<1>4. CASE Valid(j)
  <2> DEFINE P == {k \in ZoneNo : /\ k > j /\ Valid(k) /\ ZoneId(k) = ZoneId(j)
                                  /\ zones[Older(j, k)].size >= size}
  <2>1. P # {} /\ i = Older(j, Min(P))
    BY <1>1, <1>2, <1>4 DEF ForZone
  <2>2. Min(P) \in P
    <3>1. P \in SUBSET Nat
      BY ZoneFacts
    <3> HIDE DEF P
    <3>2. QED
      BY <2>1, <3>1, MinIs
  <2>3. PICK k \in ZoneNo : /\ k > j /\ Valid(k) /\ ZoneId(k) = ZoneId(j)
                            /\ zones[Older(j, k)].size >= size /\ i = Older(j, k)
    BY <2>1, <2>2
  <2>4. zones[i].size >= size /\ i \in {j, k}
    BY <2>3 DEF Older
  <2>5. k # j /\ k # 1
    BY <1>2, <2>3, ZoneFacts
  <2>6. i \in ZoneNo /\ i # 1 /\ size <= zones[i].size
    BY <1>2, <2>4, <2>5, ZoneFacts
  <2>7. ASSUME FlagOK
        PROVE  \E o \in ZoneNo \ {i} : Exec(o) /\ ZoneId(o) = ZoneId(i) /\ Version(o) >= Version(i)
    <3>1. Exec(j) /\ Exec(k)
      BY <1>4, <2>3, <2>7, ValidIs
    <3>2. Version(j) \in Nat /\ Version(k) \in Nat
      BY <2>7, <3>1, FlaggedHas
    <3>3. CASE Version(j) > Version(k)
      <4>1. i = k
        BY <2>3, <3>3 DEF Older
      <4>2. j \in ZoneNo \ {i} /\ ZoneId(j) = ZoneId(i) /\ Version(j) >= Version(i)
        BY <2>3, <2>5, <3>2, <3>3, <4>1
      <4>3. QED
        BY <3>1, <4>2
    <3>4. CASE ~(Version(j) > Version(k))
      <4>1. i = j
        BY <2>3, <3>4 DEF Older
      <4>2. k \in ZoneNo \ {i} /\ ZoneId(k) = ZoneId(i) /\ Version(k) >= Version(i)
        BY <2>3, <2>5, <3>2, <3>4, <4>1
      <4>3. QED
        BY <3>1, <4>2
    <3>5. QED
      BY <3>3, <3>4
  <2>8. QED
    BY <2>6, <2>7
<1>5. QED
  BY <1>3, <1>4

(* Where START puts an image.                                              *)
LEMMA TargetIs ==
  ASSUME DeviceOK, NEW size \in Nat, NEW i, i = Target(size), i # 0
  PROVE  /\ i \in ZoneNo /\ i # 1 /\ size <= zones[i].size
         /\ ota_mode = "overwrite" => zones[i].id = OTA_ZONE_ID_OTA
         /\ ota_mode # "overwrite" /\ FlagOK /\ Exec(i) =>
              \E k \in ZoneNo \ {i} : Exec(k) /\ ZoneId(k) = ZoneId(i) /\ Version(k) >= Version(i)
<1>1. CASE ota_mode = "overwrite"
  <2> DEFINE Z == {k \in ZoneNo : zones[k].id = OTA_ZONE_ID_OTA /\ size <= zones[k].size}
  <2>1. Z # {} /\ i = Max(Z)
    BY <1>1 DEF Target
  <2>2. PICK n \in Nat : ZoneNo = 1 .. n
    BY ZoneNumbers
  <2>3. Z \in SUBSET (1 .. n)
    BY <2>2
  <2>4. Max(Z) \in Z
    <3> HIDE DEF Z
    <3> QED
      BY <2>1, <2>3, MaxIs
  <2>5. i \in ZoneNo /\ zones[i].id = OTA_ZONE_ID_OTA /\ size <= zones[i].size
    BY <2>1, <2>4
  <2>6. i # 1
    BY <2>5, ZoneFacts DEF OTA_ZONE_ID_OTA, OTA_ZONE_ID_BOOT
  <2>7. QED
    BY <1>1, <2>5, <2>6
<1>2. CASE ota_mode # "overwrite"
  <2>1. i = ota_find_blank_zone(size)
    BY <1>2 DEF Target
  <2>2. QED
    BY <1>2, <2>1, BlankZoneIs
<1>3. QED
  BY <1>1, <1>2

-----------------------------------------------------------------------------
(* What a step that leaves the zone table alone tells of the next state.   *)
LEMMA StartKept ==
  ASSUME zones' = zones
  PROVE  /\ ZoneNo' = ZoneNo
         /\ \A k : Start(k)' = Start(k) /\ Cells(k)' = Cells(k)
         /\ \A k : Exec(k)' <=> flash'[Start(k)] = OTA_EXEC_VALID_FLAG
         /\ \A k : Flagged(k)' <=> flash'[Start(k)] \in Flags
  BY DEF ZoneNo, Start, Cells, Exec, Flagged, Flags, OTA_EXEC_VALID_FLAG, OTA_OTA_VALID_FLAG

(* The header that the next state has.                                     *)
LEMMA HeaderNext ==
  ASSUME zones' = zones, NEW k, NEW m \in Images, flash'[Start(k) + 1] = <<"header", m>>
  PROVE  Version(k)' = m.version /\ ZoneId(k)' = m.zone_id
<1>1. HeaderOf(zones[k].address)' = {m}
  BY DEF HeaderOf, Start
<1>2. (CHOOSE n \in HeaderOf(zones[k].address)' : TRUE) = m
  BY <1>1
<1>3. QED
  BY <1>2 DEF Version, ZoneId

(* What a zone's header tells depends on nothing but the header.           *)
LEMMA VersionKept ==
  ASSUME zones' = zones, NEW k, flash'[Start(k) + 1] = flash[Start(k) + 1]
  PROVE  Version(k)' = Version(k) /\ ZoneId(k)' = ZoneId(k)
<1>1. HeaderOf(zones[k].address)' = HeaderOf(zones[k].address)
  BY DEF HeaderOf, Start
<1>2. QED
  BY <1>1 DEF Version, ZoneId

(* What is complete in the next state.                                     *)
LEMMA CompleteNext ==
  ASSUME zones' = zones, NEW k
  PROVE  Complete(Start(k))' <=>
           \E m \in Images : /\ flash'[Start(k) + 1] = <<"header", m>>
                             /\ \A i \in 2 .. m.size : i < m.size
                                  => flash'[Start(k) + i] = Unit(m, i)
<1>1. Start(k)' = Start(k)
  BY DEF Start
<1>2. QED
  BY <1>1 DEF Complete, HeaderOf, Holds, Unit

(* An image stays where only the flag in front of it changes.              *)
LEMMA CompleteKept ==
  ASSUME DeviceOK, Own(flash), zones' = zones, NEW k \in ZoneNo, Complete(Start(k)),
         \A x \in Cells(k) : x # Start(k) => flash'[x] = flash[x]
  PROVE  Complete(Start(k))' /\ Version(k)' = Version(k) /\ ZoneId(k)' = ZoneId(k)
<1>1. PICK m \in Images :
        /\ flash[Start(k) + 1] = <<"header", m>>
        /\ \A i \in 2 .. m.size : i < m.size => flash[Start(k) + i] = Unit(m, i)
  BY CompleteIs
<1>2. /\ flash'[Start(k) + 1] = <<"header", m>>
      /\ \A i \in 2 .. m.size : i < m.size => flash'[Start(k) + i] = Unit(m, i)
  BY <1>1, SameImage
<1>3. QED
  BY <1>1, <1>2, CompleteNext, VersionKept

-----------------------------------------------------------------------------
(* A step that leaves the flash alone keeps what is said of its contents.  *)
LEMMA ContentsSame ==
  ASSUME OtaBase, Same, flash' = flash
  PROVE  /\ DeviceOK' /\ ContentsOK' /\ ZoneNo' = ZoneNo
         /\ \A k : Start(k)' = Start(k) /\ Cells(k)' = Cells(k)
         /\ \A k : (Exec(k)' <=> Exec(k)) /\ (Flagged(k)' <=> Flagged(k))
         /\ \A k : Version(k)' = Version(k) /\ ZoneId(k)' = ZoneId(k)
         /\ \A k : Complete(Start(k))' <=> Complete(Start(k))
<1>1. zones' = zones /\ ota_mode' = ota_mode /\ sent' = sent
  BY DEF Same
<1>2. DeviceOK'
  BY <1>1 DEF OtaBase, DeviceOK
<1>3. /\ ZoneNo' = ZoneNo
      /\ \A k : Start(k)' = Start(k) /\ Cells(k)' = Cells(k)
      /\ \A k : (Exec(k)' <=> Exec(k)) /\ (Flagged(k)' <=> Flagged(k))
  BY <1>1, StartKept DEF Exec, Flagged
<1>4. \A k : Version(k)' = Version(k) /\ ZoneId(k)' = ZoneId(k)
  BY <1>1, VersionKept
<1>5. \A k : Complete(Start(k))' <=> Complete(Start(k))
  BY <1>1 DEF Complete, HeaderOf, Holds, Start
<1>6. ContentsOK'
  BY <1>1 DEF OtaBase, ContentsOK, Own, ZoneNo, Start
<1>7. QED
  BY <1>2, <1>3, <1>4, <1>5, <1>6

(* And where nothing new is late, what is said of the flags.               *)
LEMMA FlashSame ==
  ASSUME OtaBase, Same, flash' = flash, late' \in {late, {}}
  PROVE  /\ DeviceOK' /\ ContentsOK' /\ LateOK' /\ (FlagOK => FlagOK')
         /\ ZoneNo' = ZoneNo
         /\ \A k : Start(k)' = Start(k) /\ (Exec(k)' <=> Exec(k))
         /\ \A k : Version(k)' = Version(k) /\ ZoneId(k)' = ZoneId(k)
         /\ \A k : Complete(Start(k))' <=> Complete(Start(k))
<1>1. /\ DeviceOK' /\ ContentsOK' /\ ZoneNo' = ZoneNo
      /\ \A k : Start(k)' = Start(k) /\ Cells(k)' = Cells(k)
      /\ \A k : (Exec(k)' <=> Exec(k)) /\ (Flagged(k)' <=> Flagged(k))
      /\ \A k : Version(k)' = Version(k) /\ ZoneId(k)' = ZoneId(k)
      /\ \A k : Complete(Start(k))' <=> Complete(Start(k))
  BY ContentsSame
<1>2. late' \subseteq late /\ zones' = zones /\ ota_mode' = ota_mode
  BY DEF Same
<1>3. LateOK'
  <2>1. LateOK
    BY DEF OtaBase
  <2>2. QED
    BY <1>1, <1>2, <2>1 DEF LateOK
<1>4. FlagOK => FlagOK'
  BY <1>1, <1>2 DEF FlagOK
<1>5. QED
  BY <1>1, <1>3, <1>4

(* A command that is answered at once starts no update, and leaves one     *)
(* that is under way alone or ends it.                                     *)
LEMMA Answered ==
  ASSUME OtaInv, Same, UNCHANGED <<storeVars, cmd, skipped>>, cmd = "none",
         result' # "verify_confirm", EnvOK', Promised => Announced',
         env'.state = "DATA_WRITE" =>
           env.state = "DATA_WRITE" /\ env'.base = env.base /\ env'.size = env.size
  PROVE  OtaInv'
<1>1. OtaBase /\ (~skipped => Promised)
  BY DEF OtaInv
<1>2. zones' = zones /\ ota_mode' = ota_mode /\ flash' = flash /\ op' = op /\ late' = late
      /\ cmd' = "none" /\ skipped' = skipped
  BY DEF Same, storeVars
<1>3. /\ DeviceOK' /\ ContentsOK' /\ LateOK' /\ (FlagOK => FlagOK')
      /\ ZoneNo' = ZoneNo
      /\ \A k : Start(k)' = Start(k) /\ (Exec(k)' <=> Exec(k))
      /\ \A k : Version(k)' = Version(k) /\ ZoneId(k)' = ZoneId(k)
      /\ \A k : Complete(Start(k))' <=> Complete(Start(k))
  BY <1>1, <1>2, FlashSame
<1>4. GoalOK'
  <2>1. SUFFICES ASSUME Updating' PROVE \E k \in ZoneNo : Goal(k)'
    BY <1>3 DEF GoalOK
  <2>2. env'.state = "DATA_WRITE"
    BY <1>2, <2>1 DEF Updating
  <2>3. Updating
    BY <2>2 DEF Updating
  <2>4. PICK k \in ZoneNo : Goal(k)
    BY <1>1, <2>3 DEF OtaBase, GoalOK
  <2>5. Goal(k)'
    BY <1>2, <1>3, <2>2, <2>4 DEF Goal
  <2>6. QED
    BY <2>5
<1>5. OpOK'
  <2>1. OpOK
    BY <1>1 DEF OtaBase
  <2>2. QED
    BY <1>2, <2>1 DEF OpOK, NoOp
<1>6. ASSUME Promised PROVE FlagOK' /\ ErasedOK' /\ Announced' /\ Spared'
  <2>1. FlagOK' /\ Announced'
    BY <1>3, <1>6 DEF Promised
  <2>2. ErasedOK'
    BY <1>2, <1>6 DEF Promised, ErasedOK
  <2>3. Spared'
    <3>1. SUFFICES ASSUME ota_mode' = "switch", env'.state = "DATA_WRITE",
                          NEW k \in ZoneNo, Exec(k), Start(k) = env'.base
                   PROVE  \E j \in ZoneNo \ {k} : Exec(j) /\ ZoneId(j) = ZoneId(k)
                            /\ Version(j) >= Version(k)
      BY <1>2, <1>3 DEF Spared
    <3>2. QED
      BY <1>2, <1>6, <3>1 DEF Promised, Spared
  <2>4. QED
    BY <2>1, <2>2, <2>3
<1>7. OtaBase'
  BY <1>3, <1>4, <1>5 DEF OtaBase
<1>8. ~skipped' => Promised'
  BY <1>1, <1>2, <1>6 DEF Promised
<1>9. QED
  BY <1>7, <1>8 DEF OtaInv

(* Where the announced image and the contents stay, nothing newer of its   *)
(* id turns up.                                                            *)
LEMMA AnnouncedKept ==
  ASSUME OtaBase, Same, flash' = flash, late' = late, Announced,
         env'.new_ver = env.new_ver, env'.base = env.base, result # "verify_confirm",
         cmd # "verify", env'.state = env.state, result' # "verify_confirm"
  PROVE  Announced'
<1>1. /\ ZoneNo' = ZoneNo
      /\ \A k : Start(k)' = Start(k) /\ (Exec(k)' <=> Exec(k))
      /\ \A k : Version(k)' = Version(k) /\ ZoneId(k)' = ZoneId(k)
  BY FlashSame
<1>2. ota_mode' = ota_mode
  BY DEF Same
<1>3. QED
  BY <1>1, <1>2 DEF Announced

(* ota_initialize.                                                         *)
LEMMA InitializeKeeps ==
  ASSUME OtaInv, Initialize PROVE OtaInv'
<1>1. /\ Same /\ UNCHANGED <<storeVars, cmd, skipped>> /\ cmd = "none"
      /\ result' # "verify_confirm"
  BY DEF Initialize, history
<1>2. /\ env'.state = env.state /\ env'.base = env.base /\ env'.size = env.size
      /\ env'.new_ver = env.new_ver /\ DOMAIN env' = DOMAIN env
  BY DEF Initialize, OtaInv, OtaBase, EnvOK, ClearEnv
<1>3. EnvOK'
  <2>1. EnvOK
    BY DEF OtaInv, OtaBase
  <2>2. cmd' = "none" /\ op' = op
    BY <1>1 DEF storeVars
  <2>3. QED
    BY <1>1, <1>2, <2>1, <2>2 DEF EnvOK, ClearEnv
<1>4. Promised => Announced'
  <2>1. SUFFICES ASSUME Promised PROVE Announced'
    OBVIOUS
  <2>2. CASE result = "verify_confirm"
    BY <1>1, <1>2, <2>2 DEF OtaInv, OtaBase, EnvOK, Announced
  <2>3. CASE result # "verify_confirm"
    BY <1>1, <1>2, <2>1, <2>3, AnnouncedKept DEF OtaInv, Promised, storeVars
  <2>4. QED
    BY <2>2, <2>3
<1>5. QED
  BY <1>1, <1>2, <1>3, <1>4, Answered

(* A command out of turn.                                                  *)
LEMMA OutOfTurnKeeps ==
  ASSUME OtaInv, OutOfTurn PROVE OtaInv'
<1>1. /\ Same /\ UNCHANGED <<storeVars, cmd, skipped>> /\ cmd = "none"
      /\ result' = "refused" /\ env' = env
  BY DEF OutOfTurn, history, Ready
<1>2. EnvOK'
  <2>1. EnvOK
    BY DEF OtaInv, OtaBase
  <2>2. cmd' = "none" /\ op' = op
    BY <1>1 DEF storeVars
  <2>3. QED
    BY <1>1, <2>1, <2>2 DEF EnvOK, ClearEnv
<1>3. Promised => Announced'
  <2>1. SUFFICES ASSUME Promised PROVE Announced'
    OBVIOUS
  <2>2. CASE result = "verify_confirm"
    BY <1>1, <2>2 DEF OtaInv, OtaBase, EnvOK, Announced
  <2>3. CASE result # "verify_confirm"
    BY <1>1, <2>1, <2>3, AnnouncedKept DEF OtaInv, Promised, storeVars
  <2>4. QED
    BY <2>2, <2>3
<1>4. QED
  BY <1>1, <1>2, <1>3, Answered

(* ota_check_version lets in what is newer than all of the id.             *)
LEMMA CheckVersionKeeps ==
  ASSUME OtaInv, CheckVersion PROVE OtaInv'
<1>1. /\ Same /\ UNCHANGED <<storeVars, cmd, skipped>> /\ cmd = "none" /\ env.pConfig
      /\ result' # "verify_confirm"
  BY DEF CheckVersion, history, Ready
<1>2. zones' = zones /\ ota_mode' = ota_mode /\ flash' = flash /\ op' = op /\ late' = late
      /\ cmd' = "none"
  BY <1>1 DEF Same, storeVars
<1>3. OtaBase /\ EnvOK /\ DeviceOK
  BY DEF OtaInv, OtaBase
<1>4. PICK m \in sent : \E accepted \in IF ota_find_zone(m.zone_id) = 0 THEN BOOLEAN
                          ELSE {Newer(m, Version(ota_find_zone(m.zone_id)))} :
             IF accepted
               THEN /\ env' = [env EXCEPT !.state = "VERSION_CHECK", !.new_ver = m]
                    /\ result' = "confirmed"
               ELSE /\ env' = [env EXCEPT !.state = "IDLE"]
                    /\ result' = "refused"
  BY DEF CheckVersion
<1>5. m \in Images /\ m.version \in Nat
  BY <1>3, <1>4, ZoneFacts, OtaAssumption
<1> DEFINE i == ota_find_zone(m.zone_id)
<1>6. CASE env' = [env EXCEPT !.state = "IDLE"]
  <2>1. env'.state = "IDLE" /\ DOMAIN env' = DOMAIN env /\ env'.base = env.base
          /\ env'.size = env.size
    BY <1>3, <1>6 DEF EnvOK, ClearEnv
  <2>2. EnvOK'
    BY <1>1, <1>2, <1>3, <2>1 DEF EnvOK, ClearEnv
  <2>3. Announced'
    BY <1>1, <2>1 DEF Announced
  <2>4. QED
    BY <1>1, <2>1, <2>2, <2>3, Answered
<1>7. CASE /\ env' = [env EXCEPT !.state = "VERSION_CHECK", !.new_ver = m]
           /\ i = 0 \/ Newer(m, Version(i))
  <2>1. /\ env'.state = "VERSION_CHECK" /\ DOMAIN env' = DOMAIN env /\ env'.base = env.base
        /\ env'.size = env.size /\ env'.new_ver = m
    BY <1>3, <1>7 DEF EnvOK, ClearEnv
  <2>2. EnvOK'
    BY <1>1, <1>2, <1>5, <1>3, <2>1 DEF EnvOK, ClearEnv
  <2>3. ASSUME Promised PROVE Announced'
    <3>1. FlagOK
      BY <2>3 DEF Promised
    <3>2. /\ ZoneNo' = ZoneNo
          /\ \A k : Start(k)' = Start(k) /\ (Exec(k)' <=> Exec(k))
          /\ \A k : Version(k)' = Version(k) /\ ZoneId(k)' = ZoneId(k)
      BY <1>1, <1>2, <1>3, FlashSame
    <3>3. SUFFICES ASSUME ota_mode = "switch", NEW k \in ZoneNo, Exec(k), ZoneId(k) = m.zone_id
                   PROVE  Version(k) < m.version
      BY <1>2, <2>1, <3>2 DEF Announced
    <3>4. i # 0
      BY <1>3, <3>1, <3>3, FindsNewest
    <3>5. i \in ZoneNo /\ Exec(i) /\ Version(k) <= Version(i)
      BY <1>3, <3>1, <3>3, <3>4, FindsNewest
    <3>6. Version(k) \in Nat /\ Version(i) \in Nat
      BY <1>3, <3>1, <3>3, <3>5, FlaggedHas
    <3>7. m.version > Version(i)
      BY <1>7, <3>3, <3>4 DEF Newer
    <3>8. QED
      BY <1>5, <3>5, <3>6, <3>7
  <2>4. QED
    BY <1>1, <2>1, <2>2, <2>3, Answered
<1>8. \/ env' = [env EXCEPT !.state = "IDLE"]
      \/ /\ env' = [env EXCEPT !.state = "VERSION_CHECK", !.new_ver = m]
         /\ i = 0 \/ Newer(m, Version(i))
  BY <1>4
<1>9. QED
  BY <1>6, <1>7, <1>8

-----------------------------------------------------------------------------
(* Whole sectors add up to whole sectors.                                  *)
LEMMA SectorsAdd ==
  ASSUME NEW a \in Nat, NEW b \in Nat,
         a % SPIROM_SECTOR_SIZE = 0, b % SPIROM_SECTOR_SIZE = 0
  PROVE  (a + b) % SPIROM_SECTOR_SIZE = 0
<1> DEFINE S == SPIROM_SECTOR_SIZE
           q == a \div S
           r == b \div S
<1>1. S \in Nat \ {0}
  BY CellsAssumption
<1>2. q \in Nat /\ r \in Nat /\ a = S * q /\ b = S * r
  BY <1>1
<1>3. a + b = S * (q + r) /\ q + r \in Nat
  BY <1>1, <1>2
<1> HIDE DEF q, r
<1>4. (S * (q + r)) % S = 0
  BY <1>1, <1>3
<1>5. QED
  BY <1>3, <1>4

(* Only one zone begins where the update goes.                             *)
LEMMA GoalIsOne ==
  ASSUME DeviceOK, NEW j \in ZoneNo, NEW k \in ZoneNo, Start(j) = Start(k)
  PROVE  j = k
  BY ZonesApart

(* ota_start_ota: the erasure stays in the zone that was found, and where  *)
(* that one could be run, another of its id can.                           *)
LEMMA StartOtaKeeps ==
  ASSUME OtaInv, StartOta PROVE OtaInv'
<1>1. /\ Same /\ cmd = "none" /\ env.pConfig /\ skipped' = skipped
  BY DEF StartOta, Ready
<1>2. OtaBase /\ EnvOK /\ DeviceOK /\ (~skipped => Promised)
  BY DEF OtaInv, OtaBase
<1>3. PICK size \in Sizes, may \in MayStart :
        IF ~may \/ Target(size) = 0
             THEN env' = EnvRefused /\ result' = "refused" /\ UNCHANGED <<storeVars, cmd>>
             ELSE /\ env' = [env EXCEPT !.base = zones[Target(size)].address, !.size = size]
                  /\ Begin(Erasure(zones[Target(size)].address, size))
                  /\ cmd' = "start" /\ UNCHANGED result
  BY DEF StartOta
<1>4. size \in Nat
  BY OtaAssumption
<1>5. CASE env' = EnvRefused /\ result' = "refused" /\ UNCHANGED <<storeVars, cmd>>
  <2>1. /\ env'.state = "IDLE" /\ DOMAIN env' = DOMAIN env /\ env'.base = 0 /\ env'.size = env.size
    BY <1>2, <1>5 DEF EnvOK, ClearEnv, EnvRefused
  <2>2. cmd' = "none" /\ op' = op
    BY <1>1, <1>5 DEF storeVars
  <2>3. EnvOK'
    BY <1>1, <1>2, <1>5, <2>1, <2>2 DEF EnvOK, ClearEnv
  <2>4. Announced'
    BY <1>5, <2>1 DEF Announced
  <2>5. QED
    BY <1>1, <1>5, <2>1, <2>3, <2>4, Answered
<1>6. PICK i : i = Target(size)
  OBVIOUS
<1>7. PICK a : a = Start(i)
  OBVIOUS
<1>8. CASE /\ may /\ i # 0
           /\ env' = [env EXCEPT !.base = zones[i].address, !.size = size]
           /\ Begin(Erasure(zones[i].address, size))
           /\ cmd' = "start" /\ UNCHANGED result
  <2>1. env.state = "VERSION_CHECK" /\ result # "verify_confirm"
    <3>1. env.state = "VERSION_CHECK"
      BY <1>3, <1>8 DEF MayStart
    <3>2. QED
      BY <1>2, <3>1 DEF EnvOK
  <2>2. /\ i \in ZoneNo /\ i # 1 /\ size <= zones[i].size
        /\ ota_mode = "overwrite" => zones[i].id = OTA_ZONE_ID_OTA
        /\ ota_mode # "overwrite" /\ FlagOK /\ Exec(i) =>
             \E k \in ZoneNo \ {i} : Exec(k) /\ ZoneId(k) = ZoneId(i) /\ Version(k) >= Version(i)
    BY <1>2, <1>4, <1>8, <1>6, TargetIs
  <2>3. /\ a \in Nat /\ zones[i].size \in Nat /\ a % SPIROM_SECTOR_SIZE = 0
        /\ zones[i].size % SPIROM_SECTOR_SIZE = 0
    BY <1>2, <1>7, <2>2, ZoneFacts
  <2>4. SectorStart(a) = a
    BY <2>3, SectorOf
  <2>5. /\ SectorEnd(a + size) \in Nat /\ a + size <= SectorEnd(a + size)
        /\ SectorEnd(a + size) <= a + zones[i].size
    <3>1. (a + zones[i].size) % SPIROM_SECTOR_SIZE = 0
      BY <2>3, SectorsAdd
    <3>2. a + size \in Nat /\ a + zones[i].size \in Nat /\ a + size <= a + zones[i].size
      BY <1>4, <2>2, <2>3
    <3>3. QED
      BY <3>1, <3>2, SectorEndIs
  <2>6. /\ op' = [kind |-> "erase", first |-> a, end |-> SectorEnd(a + size), at |-> a,
                  since |-> a, data |-> <<>>]
        /\ op = NoOp /\ flash' = flash /\ late' = late /\ cmd' = "start" /\ result' = result
    BY <1>8, <1>7, <2>4 DEF Begin, Erasure, Start
  <2>7. /\ env'.state = "VERSION_CHECK" /\ DOMAIN env' = DOMAIN env /\ env'.base = a
        /\ env'.size = size /\ env'.new_ver = env.new_ver /\ env'.pConfig = env.pConfig
    BY <1>2, <1>8, <1>7, <2>1 DEF EnvOK, ClearEnv, Start
  <2>8. op' # NoOp
    BY <2>6 DEF NoOp
  <2>9. EnvOK'
    BY <1>1, <1>2, <2>1, <2>3, <2>6, <2>7, <2>8 DEF EnvOK, ClearEnv
  <2>10. /\ DeviceOK' /\ ContentsOK' /\ LateOK' /\ (FlagOK => FlagOK')
         /\ ZoneNo' = ZoneNo
         /\ \A k : Start(k)' = Start(k) /\ (Exec(k)' <=> Exec(k))
         /\ \A k : Version(k)' = Version(k) /\ ZoneId(k)' = ZoneId(k)
    BY <1>1, <1>2, <2>6, FlashSame
  <2>11. zones' = zones /\ ota_mode' = ota_mode
    BY <1>1 DEF Same
  <2>12. Goal(i)'
    BY <1>7, <2>2, <2>7, <2>10, <2>11 DEF Goal
  <2>13. GoalOK'
    BY <2>2, <2>10, <2>12 DEF GoalOK
  <2>14. ASSUME NEW k \in ZoneNo, Start(k) = a PROVE k = i
    BY <1>2, <1>7, <2>2, <2>14, GoalIsOne
  <2>15. OpOK'
    <3>1. ASSUME NEW k \in ZoneNo', Goal(k)' PROVE k = i
      <4>1. Start(k) = a /\ k \in ZoneNo
        BY <2>7, <2>10, <3>1 DEF Goal
      <4>2. QED
        BY <2>14, <4>1
    <3>2. Start(i)' = a
      BY <1>7, <2>10
    <3>3. SectorEnd(a + size) = a => size = 0
      BY <1>4, <2>3, <2>5
    <3> DEFINE e == SectorEnd(a + size)
    <3>4. e \in Nat /\ a <= e /\ e <= a + zones[i].size /\ (e = a => size = 0)
      BY <1>4, <2>3, <2>5, <3>3
    <3>5. /\ op'.kind = "erase" /\ op'.first = a /\ op'.since = a /\ op'.at = a /\ op'.end = e
          /\ DOMAIN op' = DOMAIN NoOp
      BY <2>6 DEF NoOp
    <3> HIDE DEF e
    <3>6. ASSUME NEW k \in ZoneNo', Goal(k)'
          PROVE  Start(k)' <= op'.first /\ op'.end <= Start(k)' + zones'[k].size
      BY <2>3, <2>11, <3>1, <3>2, <3>4, <3>5, <3>6
    <3>7. QED
      BY <2>3, <2>6, <2>7, <3>4, <3>5, <3>6 DEF OpOK
  <2>16. ASSUME Promised PROVE FlagOK' /\ ErasedOK' /\ Announced' /\ Spared'
    <3>1. FlagOK'
      BY <2>10, <2>16 DEF Promised
    <3>2. ErasedOK'
      <4>1. ~(op'.at > op'.first)
        BY <2>3, <2>6
      <4>2. QED
        BY <2>1, <2>6, <2>7, <4>1 DEF ErasedOK
    <3>3. Announced'
      BY <1>1, <2>1, <2>6, <2>7, <2>10, <2>11, <2>16 DEF Announced, Promised
    <3>4. Spared'
      <4>1. SUFFICES ASSUME ota_mode = "switch", NEW k \in ZoneNo, Exec(k), Start(k) = a
                     PROVE  \E j \in ZoneNo \ {k} : Exec(j) /\ ZoneId(j) = ZoneId(k)
                              /\ Version(j) >= Version(k)
        BY <2>7, <2>10, <2>11 DEF Spared
      <4>2. k = i
        BY <2>14, <4>1
      <4>3. QED
        BY <2>2, <2>16, <4>1, <4>2 DEF Promised
    <3>5. QED
      BY <3>1, <3>2, <3>3, <3>4
  <2>17. OtaBase'
    BY <2>9, <2>10, <2>13, <2>15 DEF OtaBase
  <2>18. ~skipped' => Promised'
    BY <1>1, <1>2, <2>16 DEF Promised
  <2>19. QED
    BY <2>17, <2>18 DEF OtaInv
<1>9. QED
  <2>1. i # 0 => zones[i].address = a
    BY <1>7 DEF Start
  <2>2. QED
    BY <1>3, <1>5, <1>8, <1>6, <2>1

(* A flash operation that OTA_OTA_DATA or OTA_OTA_VERIFY begins changes    *)
(* nothing yet.                                                            *)
LEMMA BegunKeeps ==
  ASSUME OtaInv, Same, env' = env, skipped' = skipped, cmd = "none", env.pConfig,
         env.state = "DATA_WRITE",
         NEW o, Begin(o), DOMAIN o = DOMAIN NoOp, o.kind = "write", result' = result,
         cmd' \in {"write", "verify"}, OpOK',
         cmd' = "verify" => Complete(env.base) /\ o.at = o.first /\ o.at # o.end
  PROVE  OtaInv'
<1>1. OtaBase /\ EnvOK /\ GoalOK /\ (~skipped => Promised)
  BY DEF OtaInv, OtaBase
<1>2. op' = o /\ op = NoOp /\ flash' = flash /\ late' = late
  BY DEF Begin
<1>3. zones' = zones /\ ota_mode' = ota_mode
  BY DEF Same
<1>4. /\ DeviceOK' /\ ContentsOK' /\ LateOK' /\ (FlagOK => FlagOK')
      /\ ZoneNo' = ZoneNo
      /\ \A k : Start(k)' = Start(k) /\ (Exec(k)' <=> Exec(k))
      /\ \A k : Version(k)' = Version(k) /\ ZoneId(k)' = ZoneId(k)
      /\ \A k : Complete(Start(k))' <=> Complete(Start(k))
  BY <1>1, <1>2, FlashSame
<1>5. op' # NoOp
  BY <1>2 DEF NoOp
<1>6. result # "verify_confirm"
  BY <1>1 DEF EnvOK
<1>7. EnvOK'
  BY <1>1, <1>5, <1>6 DEF EnvOK, ClearEnv
<1>8. GoalOK'
  <2>1. PICK k \in ZoneNo : Goal(k)
    BY <1>1 DEF GoalOK, Updating
  <2>2. Goal(k)'
    BY <1>3, <1>4, <2>1 DEF Goal
  <2>3. QED
    BY <1>4, <2>2 DEF GoalOK
<1>9. ASSUME Promised PROVE FlagOK' /\ ErasedOK' /\ Announced' /\ Spared'
  <2>1. FlagOK'
    BY <1>4, <1>9 DEF Promised
  <2>2. ErasedOK'
    <3>1. Complete(env.base)' <=> Complete(env.base)
      BY <1>2 DEF Complete, HeaderOf, Holds
    <3>2. ErasedOK
      BY <1>9 DEF Promised
    <3>3. QED
      BY <1>2, <1>6, <3>1, <3>2 DEF ErasedOK
  <2>3. Announced'
    BY <1>3, <1>4, <1>6, <1>9 DEF Promised, Announced
  <2>4. Spared'
    BY <1>3, <1>4, <1>9 DEF Promised, Spared
  <2>5. QED
    BY <2>1, <2>2, <2>3, <2>4
<1>10. OtaBase'
  BY <1>4, <1>7, <1>8 DEF OtaBase
<1>11. ~skipped' => Promised'
  BY <1>1, <1>9 DEF Promised
<1>12. QED
  BY <1>10, <1>11 DEF OtaInv

(* Where the answer leaves the environment as it is, or only its state for *)
(* one in which nothing is under way.                                      *)
LEMMA Refused ==
  ASSUME OtaInv, Same, UNCHANGED <<storeVars, cmd, skipped>>, cmd = "none",
         env.state = "DATA_WRITE", result' = "refused",
         env' = env \/ env' = [env EXCEPT !.state = "DATA_VERIFY"]
  PROVE  OtaInv'
<1>1. OtaBase /\ EnvOK
  BY DEF OtaInv, OtaBase
<1>2. /\ DOMAIN env' = DOMAIN env /\ env'.base = env.base /\ env'.size = env.size
      /\ env'.new_ver = env.new_ver /\ env'.state \in {"DATA_WRITE", "DATA_VERIFY"}
  BY <1>1 DEF EnvOK, ClearEnv
<1>3. cmd' = "none" /\ op' = op
  BY DEF storeVars
<1>4. EnvOK'
  BY <1>1, <1>2, <1>3 DEF EnvOK, ClearEnv
<1>5. result # "verify_confirm"
  BY <1>1 DEF EnvOK
<1>6. ASSUME Promised PROVE Announced'
  <2>1. CASE env'.state = "DATA_WRITE"
    BY <1>1, <1>2, <1>5, <1>6, <2>1, AnnouncedKept DEF Promised, storeVars
  <2>2. CASE env'.state = "DATA_VERIFY"
    BY <2>2 DEF Announced
  <2>3. QED
    BY <1>2, <2>1, <2>2
<1>7. QED
  BY <1>2, <1>4, <1>6, Answered

(* ota_write_data: what it writes are the units of an image, each at its   *)
(* place in the zone.                                                      *)
LEMMA WriteDataKeeps ==
  ASSUME OtaInv, WriteData PROVE OtaInv'
<1>1. /\ Same /\ cmd = "none" /\ env.pConfig /\ skipped' = skipped /\ env' = env
      /\ env.state = "DATA_WRITE"
  BY DEF WriteData, Ready
<1>2. OtaBase /\ EnvOK /\ DeviceOK /\ GoalOK
  BY DEF OtaInv, OtaBase
<1>3. PICK m \in sent, p \in Packets :
       IF p.address > env.size
         THEN result' = "refused" /\ UNCHANGED <<storeVars, cmd>>
         ELSE /\ LET n == Min({p.length, env.size - p.address})
                     data == [k \in 1 .. n |-> Unit(m, p.address + k - 1)]
                 IN  Begin(Writing(env.base + p.address, data, n))
              /\ cmd' = "write" /\ UNCHANGED result
  BY DEF WriteData
<1>4. CASE result' = "refused" /\ UNCHANGED <<storeVars, cmd>>
  BY <1>1, <1>4, Refused
<1> DEFINE n == Min({p.length, env.size - p.address})
           data == [k \in 1 .. n |-> Unit(m, p.address + k - 1)]
           o == Writing(env.base + p.address, data, n)
<1>5. CASE ~(p.address > env.size) /\ Begin(o) /\ cmd' = "write" /\ result' = result
  <2>1. m \in Images /\ p.address \in Nat /\ p.length \in Nat /\ env.size \in Nat
          /\ env.base \in Nat
    BY <1>2, ZoneFacts, OtaAssumption DEF EnvOK
  <2>2. n \in Nat /\ p.address + n <= env.size
    <3> DEFINE S == {p.length, env.size - p.address}
    <3>1. S \in SUBSET Nat /\ S # {} /\ env.size - p.address \in S
      BY <1>5, <2>1
    <3>2. n = Min(S)
      OBVIOUS
    <3> HIDE DEF S, n
    <3>3. n \in S /\ n <= env.size - p.address
      BY <3>1, <3>2, MinIs
    <3>4. n \in Nat
      BY <3>1, <3>3
    <3>5. QED
      BY <2>1, <3>3, <3>4
  <2>3. PICK g \in ZoneNo : Goal(g)
    BY <1>1, <1>2 DEF GoalOK, Updating
  <2> HIDE DEF n
  <2> DEFINE f == env.base + p.address
  <2>4. /\ o.kind = "write" /\ o.first = f /\ o.end = f + n /\ o.at = f /\ o.since = f
        /\ o.data = data /\ DOMAIN o = DOMAIN NoOp
    BY DEF Writing, NoOp
  <2>5. ASSUME NEW x \in o.first .. o.end - 1
        PROVE  o.data[x - o.first + 1] = Unit(m, x - env.base)
    <3>1. f \in Nat
      BY <2>1
    <3> HIDE DEF o, data, f
    <3>2. x \in f .. f + n - 1
      BY <2>2, <2>4, <2>5, <3>1
    <3> USE DEF f
    <3>3. x - f + 1 \in 1 .. n /\ p.address + (x - f + 1) - 1 = x - env.base
      BY <2>1, <2>2, <3>2
    <3> USE DEF data
    <3> HIDE DEF f
    <3>4. data[x - f + 1] = Unit(m, p.address + (x - f + 1) - 1)
      BY <3>3
    <3>5. QED
      BY <2>4, <3>3, <3>4
  <2>6. OpOK'
    <3>1. op' = o /\ zones' = zones /\ ota_mode' = ota_mode
      BY <1>1, <1>5 DEF Begin, Same
    <3> HIDE DEF o, data
    <3>2. ASSUME NEW k \in ZoneNo', Goal(k)'
          PROVE  Start(k)' <= op'.first /\ op'.end <= Start(k)' + zones'[k].size
      <4>1. k \in ZoneNo /\ Start(k)' = env.base /\ env.size <= zones[k].size
              /\ zones[k].size \in Nat
        BY <1>1, <1>2, <3>1, <3>2, ZoneFacts DEF Goal, ZoneNo
      <4>2. QED
        BY <2>1, <2>2, <2>4, <3>1, <4>1
    <3>3. ASSUME NEW x \in op'.first .. op'.end - 1
          PROVE  \E i \in Images : op'.data[x - op'.first + 1] = Unit(i, x - env'.base)
      BY <1>1, <2>1, <2>5, <3>1
    <3>4. /\ DOMAIN op' = DOMAIN NoOp /\ op'.kind = "write"
          /\ op'.first = f /\ op'.end = f + n /\ op'.at = f /\ op'.since = f
      BY <2>4, <3>1
    <3>5. f \in Nat /\ f + n \in Nat /\ f <= f + n /\ f + n <= env'.base + env'.size
      BY <1>1, <2>1, <2>2
    <3> HIDE DEF f
    <3>6. f <= f
      BY <3>5
    <3>7. \A x \in op'.first .. op'.end - 1 :
            \E i \in Images : op'.data[x - op'.first + 1] = Unit(i, x - env.base)'
      BY <3>3 DEF Unit
    <3>8. QED
      BY <1>5, <3>2, <3>4, <3>5, <3>6, <3>7 DEF OpOK
  <2> HIDE DEF o
  <2>7. QED
    BY <1>1, <1>5, <2>4, <2>6, BegunKeeps
<1>6. QED
  BY <1>3, <1>4, <1>5

(* ota_check_data.                                                         *)
LEMMA CheckDataKeeps ==
  ASSUME OtaInv, CheckData PROVE OtaInv'
<1>1. /\ Same /\ cmd = "none" /\ env.pConfig /\ skipped' = skipped /\ env.state = "DATA_WRITE"
  BY DEF CheckData, Ready, history
<1>2. OtaBase /\ EnvOK /\ DeviceOK /\ GoalOK
  BY DEF OtaInv, OtaBase
<1> DEFINE o == Writing(env.base, <<FlagOf>>, 1)
<1>3. \/ /\ result' = "refused" /\ UNCHANGED <<storeVars, cmd>>
         /\ env' = env \/ env' = [env EXCEPT !.state = "DATA_VERIFY"]
      \/ Complete(env.base) /\ Begin(o) /\ cmd' = "verify" /\ env' = env /\ result' = result
  BY DEF CheckData, ota_check_zone_crc, FlagOf
<1>4. CASE /\ result' = "refused" /\ UNCHANGED <<storeVars, cmd>>
           /\ env' = env \/ env' = [env EXCEPT !.state = "DATA_VERIFY"]
  BY <1>1, <1>4, Refused
<1>5. CASE Complete(env.base) /\ Begin(o) /\ cmd' = "verify" /\ env' = env /\ result' = result
  <2>1. env.base \in Nat
    BY <1>2 DEF EnvOK
  <2>2. /\ o.kind = "write" /\ o.first = env.base /\ o.end = env.base + 1 /\ o.at = env.base
        /\ o.since = env.base /\ o.data = <<FlagOf>> /\ DOMAIN o = DOMAIN NoOp
    BY DEF Writing, NoOp
  <2>3. op' = o /\ zones' = zones /\ ota_mode' = ota_mode
    BY <1>1, <1>5 DEF Begin, Same
  <2> HIDE DEF o
  <2>4. FlagOf' = FlagOf /\ o.data[1] = FlagOf
    BY <2>2, <2>3 DEF FlagOf, OTA_OTA_VALID_FLAG, OTA_EXEC_VALID_FLAG
  <2>5. ASSUME NEW k \in ZoneNo', Goal(k)'
        PROVE  Start(k)' <= op'.first /\ op'.end <= Start(k)' + zones'[k].size
    <3>1. k \in ZoneNo /\ Start(k)' = env.base /\ zones[k].size \in Nat \ {0, 1}
      BY <1>2, <1>5, <2>3, <2>5, ZoneFacts DEF Goal, ZoneNo
    <3>2. QED
      BY <2>1, <2>2, <2>3, <3>1
  <2>6. OpOK'
    <3>1. env.base + 1 \in Nat /\ env.base <= env.base + 1 /\ env.base <= env.base
      BY <2>1
    <3>2. QED
      BY <1>5, <2>1, <2>2, <2>3, <2>4, <2>5, <3>1 DEF OpOK
  <2>7. o.at # o.end
    BY <2>1, <2>2
  <2>8. QED
    BY <1>1, <1>5, <2>2, <2>6, <2>7, BegunKeeps
<1>6. QED
  BY <1>3, <1>4, <1>5

-----------------------------------------------------------------------------
(* The size that START told is a number.                                   *)
LEMMA SizeIsNat ==
  ASSUME EnvOK
  PROVE  env.size \in Nat
<1>1. env.size = 0 \/ env.size \in Sizes
  BY DEF EnvOK
<1>2. \A n \in Sizes : n \in Nat
  BY OtaAssumption
<1>3. QED
  BY <1>1, <1>2

(* What the device may be changing lies in the zone of the update, and is  *)
(* nothing but the flag where a zone has one.                              *)
LEMMA WorkingIs ==
  ASSUME OtaInv
  PROVE  /\ cmd = "none" => Working = {}
         /\ cmd # "none" =>
              \E g \in ZoneNo : Goal(g) /\ op.first .. op.end - 1 \subseteq Cells(g)
                /\ Working \subseteq Cells(g)
         /\ Promised => \A k \in ZoneNo : Flagged(k) => Working \cap Cells(k) \subseteq {Start(k)}
<1>1. OtaBase /\ EnvOK /\ DeviceOK /\ GoalOK /\ OpOK
  BY DEF OtaInv, OtaBase
<1>2. /\ op.first \in Nat /\ op.since \in Nat /\ op.at \in Nat /\ op.end \in Nat
      /\ op.first <= op.since /\ op.since <= op.at /\ op.at <= op.end
  BY <1>1 DEF OpOK
<1>3. cmd = "none" => Working = {}
  <2>1. cmd = "none" => op.since = 0 /\ op.at = 0
    BY <1>1 DEF EnvOK, NoOp
  <2>2. QED
    BY <2>1 DEF Working
<1>4. ASSUME cmd # "none"
      PROVE  \E g \in ZoneNo : Goal(g) /\ op.first .. op.end - 1 \subseteq Cells(g)
               /\ Working \subseteq Cells(g)
  <2>1. PICK g \in ZoneNo : Goal(g)
    BY <1>1, <1>4 DEF GoalOK, Updating
  <2>2. /\ Start(g) <= op.first /\ op.end <= Start(g) + zones[g].size
        /\ Start(g) \in Nat /\ zones[g].size \in Nat
    BY <1>1, <1>4, <2>1, ZoneFacts DEF OpOK
  <2>3. op.first .. op.end - 1 \subseteq Cells(g)
    BY <1>2, <2>2 DEF Cells, Start
  <2>4. Working \subseteq op.first .. op.end - 1
    BY <1>2 DEF Working
  <2>5. QED
    BY <2>1, <2>3, <2>4
<1>5. ASSUME Promised, NEW k \in ZoneNo, Flagged(k) PROVE Working \cap Cells(k) \subseteq {Start(k)}
  <2>1. CASE cmd = "none"
    BY <1>3, <2>1
  <2>2. CASE cmd # "none"
    <3>1. PICK g \in ZoneNo : Goal(g) /\ Working \subseteq Cells(g)
      BY <1>4, <2>2
    <3>2. CASE k # g
      BY <1>1, <3>1, <3>2, ZonesApart
    <3>3. CASE k = g
      <4>1. Start(g) = env.base /\ env.base \in Nat /\ flash[env.base] \in Flags
        BY <1>1, <1>5, <3>1, <3>3 DEF Goal, EnvOK, Flagged
      <4>2. flash[env.base] # Blank
        BY <4>1, OtaAssumption DEF Flags
      <4>3. CASE cmd = "start"
        <5>1. ~(op.at > op.first)
          BY <1>5, <4>2, <4>3 DEF Promised, ErasedOK
        <5>2. Working = {}
          BY <1>2, <5>1 DEF Working
        <5>3. QED
          BY <5>2
      <4>4. CASE cmd = "write"
        <5>1. ~(env.size > 0) /\ op.end <= env.base + env.size
          BY <1>1, <1>5, <4>2, <4>4 DEF Promised, ErasedOK, EnvOK, OpOK
        <5>2. env.size \in Nat
          BY <1>1, SizeIsNat
        <5>3. env.base <= op.first
          BY <1>1, <3>1, <4>1, <4>4 DEF OpOK
        <5>4. op.end <= op.first
          BY <1>2, <4>1, <5>1, <5>2, <5>3
        <5>5. Working = {}
          BY <1>2, <5>4 DEF Working
        <5>6. QED
          BY <5>5
      <4>5. CASE cmd = "verify"
        <5>1. op.first = env.base /\ op.end = env.base + 1
          BY <1>1, <4>5 DEF OpOK
        <5>2. Working \subseteq {env.base}
          BY <1>2, <4>1, <5>1 DEF Working
        <5>3. QED
          BY <3>3, <4>1, <5>2
      <4>6. QED
        BY <1>1, <2>2, <4>3, <4>4, <4>5 DEF EnvOK
    <3>4. QED
      BY <3>2, <3>3
  <2>3. QED
    BY <2>1, <2>2
<1>6. QED
  BY <1>3, <1>4, <1>5

(* A reset loses cells that were being changed.  A flag that is still      *)
(* there has its image behind it.                                          *)
LEMMA ResetKeeps ==
  ASSUME OtaInv, Reset PROVE OtaInv'
<1>1. /\ Same /\ skipped' = skipped /\ op' = NoOp /\ late' \in {{}, late, Working}
      /\ env' = ClearEnv /\ cmd' = "none" /\ result' = "none"
  BY DEF Reset, Stop
<1>2. PICK cells \in SUBSET (late \cup Working) : flash' = Torn(flash, cells)
  BY DEF Reset
<1>3. OtaBase /\ DeviceOK /\ ContentsOK /\ LateOK /\ (~skipped => Promised)
  BY DEF OtaInv, OtaBase
<1>4. zones' = zones /\ ota_mode' = ota_mode /\ sent' = sent
  BY <1>1 DEF Same
<1>5. /\ ZoneNo' = ZoneNo
      /\ \A k : Start(k)' = Start(k) /\ Cells(k)' = Cells(k)
      /\ \A k : Flagged(k)' <=> flash'[Start(k)] \in Flags
  BY <1>4, StartKept
<1>6. DeviceOK'
  BY <1>3, <1>4 DEF DeviceOK
<1>7. EnvOK' /\ GoalOK'
  BY <1>1 DEF EnvOK, ClearEnv, GoalOK, Updating
<1>8. OpOK'
  BY <1>1 DEF OpOK, NoOp
<1>9. ContentsOK'
  <2>1. DOMAIN flash' = Addr
    BY <1>2 DEF Torn
  <2>2. ASSUME NEW x \in Addr, NEW m \in Images, NEW d \in 1 .. m.size, flash'[x] = <<"data", m, d>>
        PROVE  \E k \in ZoneNo : x = Start(k) + d /\ d < zones[k].size
    <3>1. m.size \in Nat
      BY OtaAssumption
    <3>2. d \in 0 .. m.size
      BY <3>1
    <3>3. flash'[x] # Garbage
      BY <2>2, <3>2, OtaAssumption
    <3>4. flash'[x] = flash[x]
      BY <1>2, <3>3 DEF Torn
    <3>5. QED
      BY <1>3, <2>2, <3>4 DEF ContentsOK, Own
  <2>3. Own(flash)'
    BY <1>4, <1>5, <2>2 DEF Own
  <2>4. QED
    BY <2>1, <2>3 DEF ContentsOK
<1>10. LateOK'
  <2>1. SUFFICES ASSUME ota_mode = "overwrite", NEW x \in late'
                 PROVE  \E k \in ZoneNo : x \in Cells(k) /\ zones[k].id = OTA_ZONE_ID_OTA
    BY <1>4, <1>5 DEF LateOK
  <2>2. CASE x \in late
    BY <1>3, <2>1, <2>2 DEF LateOK
  <2>3. CASE x \in Working
    <3>1. PICK g \in ZoneNo : Goal(g) /\ Working \subseteq Cells(g)
      BY <2>3, WorkingIs
    <3>2. QED
      BY <2>1, <2>3, <3>1 DEF Goal
  <2>4. QED
    BY <1>1, <2>1, <2>2, <2>3
<1>11. ASSUME Promised PROVE FlagOK'
  <2>1. SUFFICES ASSUME NEW k \in ZoneNo, flash'[Start(k)] \in Flags
                 PROVE  Complete(Start(k))' /\ late' \cap Cells(k) \subseteq {Start(k)}
    BY <1>5 DEF FlagOK
  <2>2. Start(k) \in Addr /\ Cells(k) \subseteq Addr
    BY <1>3, ZoneInFlash
  <2>3. Garbage \notin Flags
    BY OtaAssumption DEF Flags
  <2>4. Start(k) \notin cells /\ flash'[Start(k)] = flash[Start(k)]
    BY <1>2, <2>1, <2>2, <2>3 DEF Torn
  <2>5. Flagged(k)
    BY <2>1, <2>4 DEF Flagged
  <2>6. /\ Complete(Start(k)) /\ late \cap Cells(k) \subseteq {Start(k)}
        /\ Working \cap Cells(k) \subseteq {Start(k)}
    BY <1>11, <2>5, WorkingIs DEF Promised, FlagOK
  <2>7. ASSUME NEW x \in Cells(k) PROVE flash'[x] = flash[x]
    BY <1>2, <2>2, <2>4, <2>6 DEF Torn
  <2>8. Complete(Start(k))'
    BY <1>3, <1>4, <2>6, <2>7, CompleteKept DEF ContentsOK
  <2>9. QED
    BY <1>1, <2>6, <2>8
<1>12. ErasedOK' /\ Announced' /\ Spared'
  BY <1>1 DEF ErasedOK, Announced, Spared, ClearEnv
<1>13. OtaBase'
  BY <1>6, <1>7, <1>8, <1>9, <1>10 DEF OtaBase
<1>14. QED
  BY <1>1, <1>3, <1>11, <1>12, <1>13 DEF OtaInv, Promised

(* A step of the flash keeps to the operation's bounds.                    *)
LEMMA StepInBounds ==
  ASSUME OtaInv, Same, UNCHANGED <<env, cmd, result>>,
         op'.first = op.first, op'.end = op.end, op'.kind = op.kind, op'.data = op.data,
         DOMAIN op' = DOMAIN op, op' = NoOp <=> op = NoOp,
         op'.since \in Nat, op'.at \in Nat,
         op.first <= op'.since, op'.since <= op'.at, op'.at <= op'.end
  PROVE  EnvOK' /\ GoalOK' /\ OpOK'
<1>1. OtaBase /\ EnvOK /\ GoalOK /\ OpOK
  BY DEF OtaInv, OtaBase
<1>2. zones' = zones /\ ota_mode' = ota_mode
  BY DEF Same
<1>3. ZoneNo' = ZoneNo /\ \A k : Start(k)' = Start(k)
  BY <1>2, StartKept
<1>4. EnvOK'
  BY <1>1 DEF EnvOK, ClearEnv
<1>5. \A k : Goal(k)' <=> Goal(k)
  BY <1>2, <1>3 DEF Goal
<1>6. GoalOK'
  BY <1>1, <1>3, <1>5 DEF GoalOK, Updating
<1>7. OpOK'
  <2>1. op'.first \in Nat /\ op'.end \in Nat /\ op'.first <= op'.since /\ DOMAIN op' = DOMAIN NoOp
    BY <1>1 DEF OpOK
  <2>2. FlagOf' = FlagOf
    BY <1>2 DEF FlagOf, OTA_OTA_VALID_FLAG, OTA_EXEC_VALID_FLAG
  <2>3. ASSUME cmd = "write"
        PROVE  \A x \in op'.first .. op'.end - 1 :
            \E m \in Images : op'.data[x - op'.first + 1] = Unit(m, x - env.base)'
    BY <1>1, <2>3 DEF OpOK, Unit
  <2>4. ASSUME cmd # "none", NEW k \in ZoneNo', Goal(k)'
        PROVE  Start(k)' <= op'.first /\ op'.end <= Start(k)' + zones'[k].size
    BY <1>1, <1>2, <1>3, <1>5, <2>4 DEF OpOK
  <2>5. QED
    BY <1>1, <1>2, <1>3, <2>1, <2>2, <2>3, <2>4 DEF OpOK
<1>8. QED
  BY <1>4, <1>6, <1>7

(* The device gets through with a command.                                 *)
LEMMA SettleKeeps ==
  ASSUME OtaInv, Settle, Same, UNCHANGED <<env, cmd, result, skipped>> PROVE OtaInv'
<1>1. /\ op' = op \/ op' = [op EXCEPT !.since = op.at]
      /\ flash' = flash /\ late' \in {late, {}}
  BY DEF Settle
<1>2. OtaBase /\ EnvOK /\ OpOK /\ (~skipped => Promised)
  BY DEF OtaInv, OtaBase
<1>3. zones' = zones /\ ota_mode' = ota_mode
  BY DEF Same
<1>4. /\ FlagOK => FlagOK'
      /\ ZoneNo' = ZoneNo
      /\ \A k : Start(k)' = Start(k) /\ (Exec(k)' <=> Exec(k))
      /\ \A k : Version(k)' = Version(k) /\ ZoneId(k)' = ZoneId(k)
      /\ \A k : Complete(Start(k))' <=> Complete(Start(k))
  BY <1>1, <1>2, FlashSame
<1>5. /\ op'.first = op.first /\ op'.at = op.at /\ op'.end = op.end /\ op'.kind = op.kind
      /\ op'.data = op.data /\ op'.since \in {op.since, op.at} /\ DOMAIN op' = DOMAIN op
  BY <1>1, <1>2 DEF OpOK, NoOp
<1>6. op' = NoOp <=> op = NoOp
  <2>1. CASE cmd = "none"
    <3>1. op = NoOp
      BY <1>2, <2>1 DEF EnvOK
    <3>2. op' = op
      BY <1>1, <3>1 DEF NoOp
    <3>3. QED
      BY <3>2
  <2>2. CASE cmd # "none"
    <3>1. op.kind \in {"erase", "write"}
      BY <1>2, <2>2 DEF OpOK
    <3>2. QED
      BY <1>5, <3>1 DEF NoOp
  <2>3. QED
    BY <2>1, <2>2
<1>7. OtaBase'
  <2>1. /\ op'.since \in Nat /\ op'.at \in Nat /\ op.first <= op'.since /\ op'.since <= op'.at
        /\ op'.at <= op'.end
    BY <1>2, <1>5 DEF OpOK
  <2>2. EnvOK' /\ GoalOK' /\ OpOK'
    BY <1>1, <1>5, <1>6, <2>1, StepInBounds
  <2>3. DeviceOK' /\ ContentsOK' /\ LateOK'
    BY <1>1, <1>2, FlashSame
  <2>4. QED
    BY <2>2, <2>3 DEF OtaBase
<1>8. ASSUME Promised PROVE FlagOK' /\ ErasedOK' /\ Announced' /\ Spared'
  <2>1. FlagOK'
    BY <1>4, <1>8 DEF Promised
  <2>2. ErasedOK'
    <3>1. Complete(env.base)' <=> Complete(env.base)
      BY <1>1 DEF Complete, HeaderOf, Holds
    <3>2. FlagOf' = FlagOf
      BY <1>3 DEF FlagOf, OTA_OTA_VALID_FLAG, OTA_EXEC_VALID_FLAG
    <3>3. ErasedOK
      BY <1>8 DEF Promised
    <3>4. QED
      BY <1>1, <1>5, <3>1, <3>2, <3>3 DEF ErasedOK
  <2>3. Announced'
    BY <1>3, <1>4, <1>8 DEF Promised, Announced
  <2>4. Spared'
    BY <1>3, <1>4, <1>5, <1>8 DEF Promised, Spared
  <2>5. QED
    BY <2>1, <2>2, <2>3, <2>4
<1>9. QED
  BY <1>2, <1>7, <1>8 DEF OtaInv, Promised

(* A command is lost: from then on nothing is said of the flags.           *)
LEMMA SkipKeeps ==
  ASSUME OtaInv, Skip, skipped' = TRUE, Same, UNCHANGED <<env, cmd, result>> PROVE OtaInv'
<1>1. EnvOK /\ OpOK
  BY DEF OtaInv, OtaBase
<1>2. /\ op # NoOp /\ flash' = flash /\ late' \in {late, {}}
      /\ \E n \in op.at + 1 .. op.end : op' = [op EXCEPT !.at = n, !.since = n]
  BY DEF Skip
<1>3. PICK n \in op.at + 1 .. op.end : op' = [op EXCEPT !.at = n, !.since = n]
  BY <1>2
<1>4. /\ op.first \in Nat /\ op.at \in Nat /\ op.end \in Nat
      /\ op.first <= op.since /\ op.since <= op.at /\ op.since \in Nat
  BY <1>1 DEF OpOK
<1>5. n \in Nat /\ op.first <= n /\ n <= op.end /\ n <= n
  BY <1>3, <1>4
<1>6. /\ op'.first = op.first /\ op'.end = op.end /\ op'.kind = op.kind
      /\ op'.data = op.data /\ op'.since = n /\ op'.at = n /\ DOMAIN op' = DOMAIN op
  BY <1>1, <1>3 DEF OpOK, NoOp
<1>7. op' # NoOp
  <2>1. op.kind \in {"erase", "write"}
    BY <1>1, <1>2 DEF OpOK, EnvOK
  <2>2. QED
    BY <1>6, <2>1 DEF NoOp
<1>8. OtaBase'
  <2>1. EnvOK' /\ GoalOK' /\ OpOK'
    BY <1>2, <1>5, <1>6, <1>7, StepInBounds
  <2>2. DeviceOK' /\ ContentsOK' /\ LateOK'
    <3>1. OtaBase
      BY DEF OtaInv
    <3>2. QED
      BY <1>2, <3>1, FlashSame
  <2>3. QED
    BY <2>1, <2>2 DEF OtaBase
<1>9. QED
  BY <1>8 DEF OtaInv

(* What a command of the operation changes: cells of the zone the update   *)
(* goes to.                                                                *)
LEMMA AdvanceIs ==
  ASSUME OtaInv, Advance, zones' = zones
  PROVE  \E g \in ZoneNo :
           /\ Goal(g) /\ cmd # "none" /\ late = {} /\ late' = {} /\ op.at < op.end
           /\ \E n \in op.at + 1 .. op.end :
                /\ op' = [op EXCEPT !.at = n, !.since = op.at] /\ flash' = Done(n)
           /\ DOMAIN flash' = Addr
           /\ Working' \subseteq Cells(g)
           /\ \A x \in Addr : x \notin Cells(g) => flash'[x] = flash[x]
           /\ \A x \in Addr : x \notin op.first .. op.end - 1 => flash'[x] = flash[x]
<1>1. OtaBase /\ EnvOK /\ OpOK /\ DeviceOK
  BY DEF OtaInv, OtaBase
<1>2. /\ op # NoOp /\ late = {} /\ late' = {}
      /\ \E n \in op.at + 1 .. op.end :
           flash' = Done(n) /\ op' = [op EXCEPT !.at = n, !.since = op.at]
  BY DEF Advance
<1>3. PICK n \in op.at + 1 .. op.end :
        flash' = Done(n) /\ op' = [op EXCEPT !.at = n, !.since = op.at]
  BY <1>2
<1>4. cmd # "none"
  BY <1>1, <1>2 DEF EnvOK
<1>5. PICK g \in ZoneNo : Goal(g) /\ op.first .. op.end - 1 \subseteq Cells(g)
  BY <1>4, WorkingIs
<1>6. /\ op.first \in Nat /\ op.at \in Nat /\ op.end \in Nat /\ n \in Nat
      /\ op.first <= op.at /\ n <= op.end /\ op.at < n
  BY <1>1, <1>3 DEF OpOK
<1>7. DOMAIN flash' = Addr
  BY <1>3 DEF Done
<1>8. op.at .. n - 1 \subseteq op.first .. op.end - 1
  BY <1>6
<1>9. ASSUME NEW x \in Addr, x \notin op.first .. op.end - 1 PROVE flash'[x] = flash[x]
  <2>1. x \notin op.at .. n - 1
    BY <1>8, <1>9
  <2>2. QED
    BY <1>3, <2>1 DEF Done
<1>10. op'.since = op.at /\ op'.at = n
  BY <1>1, <1>3 DEF OpOK, NoOp
<1>11. Working' \subseteq op.first .. op.end - 1
  BY <1>8, <1>10 DEF Working
<1>12. op.at < op.end
  BY <1>6
<1>13. QED
  BY <1>2, <1>3, <1>4, <1>5, <1>7, <1>9, <1>11, <1>12

(* An erasure and data leave the flag blank.                               *)
LEMMA FlagBlank ==
  ASSUME OtaInv, Promised, Advance, cmd \in {"start", "write"}
  PROVE  flash'[env.base] = Blank
<1>1. OtaBase /\ EnvOK /\ OpOK /\ DeviceOK /\ GoalOK
  BY DEF OtaInv, OtaBase
<1>2. PICK n \in op.at + 1 .. op.end : flash' = Done(n)
  BY DEF Advance
<1>3. /\ op.first \in Nat /\ op.at \in Nat /\ op.end \in Nat /\ n \in Nat
      /\ op.first <= op.at /\ n <= op.end /\ op.at < n
  BY <1>1, <1>2 DEF OpOK
<1>4. PICK g \in ZoneNo : Goal(g)
  BY <1>1 DEF GoalOK, Updating
<1>5. env.base \in Addr /\ env.base \in Nat /\ Start(g) = env.base
  BY <1>1, <1>4, ZoneInFlash, ZoneFacts DEF Goal
<1>6. CASE cmd = "start"
  <2>1. op.first = env.base /\ op.kind = "erase"
    BY <1>1, <1>6 DEF OpOK
  <2>2. CASE op.at > op.first
    <3>1. flash[env.base] = Blank
      BY <1>6, <2>2 DEF Promised, ErasedOK
    <3>2. env.base \notin op.at .. n - 1
      BY <1>3, <1>5, <2>1, <2>2
    <3>3. QED
      BY <1>2, <1>5, <3>1, <3>2 DEF Done
  <2>3. CASE op.at = op.first
    <3>1. env.base \in op.at .. n - 1
      BY <1>3, <1>5, <2>1, <2>3
    <3>2. QED
      BY <1>2, <1>5, <2>1, <3>1 DEF Done
  <2>4. QED
    BY <1>3, <2>2, <2>3
<1>7. CASE cmd = "write"
  <2>1. /\ op.kind = "write" /\ op.end <= env.base + env.size /\ Start(g) <= op.first
        /\ \A x \in op.first .. op.end - 1 :
             \E m \in Images : op.data[x - op.first + 1] = Unit(m, x - env.base)
    BY <1>1, <1>4, <1>7 DEF OpOK
  <2>2. env.size \in Nat
    BY <1>1, SizeIsNat
  <2>3. env.size > 0
    BY <1>3, <1>5, <2>1, <2>2
  <2>4. flash[env.base] = Blank
    BY <1>1, <1>7, <2>3 DEF Promised, ErasedOK, EnvOK
  <2>5. CASE env.base \notin op.at .. n - 1
    BY <1>2, <1>5, <2>4, <2>5 DEF Done
  <2>6. CASE env.base \in op.at .. n - 1
    <3>1. env.base \in op.first .. op.end - 1
      BY <1>3, <2>6
    <3>2. PICK m \in Images : op.data[env.base - op.first + 1] = Unit(m, env.base - env.base)
      BY <2>1, <3>1
    <3>3. Unit(m, env.base - env.base) = Blank
      <4>1. env.base - env.base = 0
        BY <1>5
      <4>2. Unit(m, 0) = Blank
        BY UnitIs
      <4>3. QED
        BY <4>1, <4>2
    <3>4. flash'[env.base] = Programmed(flash[env.base], op.data[env.base - op.first + 1])
      BY <1>2, <1>5, <2>1, <2>6 DEF Done
    <3>5. QED
      BY <2>4, <3>2, <3>3, <3>4 DEF Programmed
  <2>7. QED
    BY <2>5, <2>6
<1>8. QED
  BY <1>6, <1>7

(* Whatever is programmed, a unit of data is found only at its place.      *)
LEMMA AdvanceOwn ==
  ASSUME OtaInv, Advance, zones' = zones
  PROVE  ContentsOK'
<1>1. OtaBase /\ EnvOK /\ OpOK /\ DeviceOK /\ ContentsOK
  BY DEF OtaInv, OtaBase
<1>2. PICK g \in ZoneNo : /\ Goal(g) /\ cmd # "none" /\ DOMAIN flash' = Addr
                          /\ \A x \in Addr : x \notin op.first .. op.end - 1 => flash'[x] = flash[x]
  BY AdvanceIs
<1>3. PICK n \in op.at + 1 .. op.end : flash' = Done(n)
  BY DEF Advance
<1>4. /\ Start(g) <= op.first /\ op.end <= Start(g) + zones[g].size
      /\ Start(g) = env.base /\ env.base \in Nat /\ zones[g].size \in Nat
      /\ op.first \in Nat /\ op.end \in Nat
  BY <1>1, <1>2, ZoneFacts DEF OpOK, Goal
<1>5. ASSUME NEW x \in Addr, NEW m \in Images, NEW d \in 1 .. m.size, flash'[x] = <<"data", m, d>>
      PROVE  \E k \in ZoneNo : x = Start(k) + d /\ d < zones[k].size
  <2>1. d \in 0 .. m.size /\ d \in Nat
    BY OtaAssumption
  <2>2. flash'[x] \notin {Blank, Garbage}
    BY <1>5, <2>1, OtaAssumption
  <2>3. CASE flash'[x] = flash[x]
    BY <1>1, <1>5, <2>3 DEF ContentsOK, Own
  <2>4. CASE flash'[x] # flash[x]
    <3>1. x \in op.first .. op.end - 1 /\ x \in op.at .. n - 1
      BY <1>2, <1>3, <2>4 DEF Done
    <3>2. op.kind # "erase"
      BY <1>3, <2>2, <3>1 DEF Done
    <3>3. cmd \in {"write", "verify"}
      BY <1>1, <1>2, <3>2 DEF OpOK, EnvOK
    <3>4. flash'[x] = op.data[x - op.first + 1]
      <4>1. flash'[x] = Programmed(flash[x], op.data[x - op.first + 1])
        BY <1>3, <3>1, <3>2 DEF Done
      <4>2. QED
        BY <2>2, <2>4, <4>1 DEF Programmed
    <3>5. CASE cmd = "write"
      <4>1. PICK i \in Images : op.data[x - op.first + 1] = Unit(i, x - env.base)
        BY <1>1, <3>1, <3>5 DEF OpOK
      <4>2. x - env.base \in Nat /\ x = Start(g) + (x - env.base) /\ x - env.base < zones[g].size
        BY <1>4, <3>1
      <4>3. \/ Unit(i, x - env.base) = <<"data", i, x - env.base>>
            \/ Unit(i, x - env.base) \in {Blank, Garbage, <<"header", i>>}
        BY <4>2, UnitIs
      <4>4. <<"data", m, d>> # <<"header", i>>
        BY UnitsDiffer
      <4>5. <<"data", m, d>> = <<"data", i, x - env.base>>
        BY <1>5, <2>2, <3>4, <4>1, <4>3, <4>4
      <4>6. d = x - env.base
        BY <4>5
      <4>7. QED
        BY <4>2, <4>6
    <3>6. CASE cmd = "verify"
      <4>1. op.first = env.base /\ op.end = env.base + 1 /\ op.data[1] = FlagOf
        BY <1>1, <3>6 DEF OpOK
      <4>2. x - op.first + 1 = 1
        BY <1>4, <3>1, <4>1
      <4>3. flash'[x] \in Flags
        BY <3>4, <4>1, <4>2 DEF FlagOf, Flags
      <4>4. QED
        BY <1>5, <4>3, UnitsDiffer
    <3>7. QED
      BY <3>3, <3>5, <3>6
  <2>5. QED
    BY <2>3, <2>4
<1>6. ZoneNo' = ZoneNo /\ \A k : Start(k)' = Start(k)
  BY StartKept
<1>7. Own(flash)'
  BY <1>5, <1>6 DEF Own
<1>8. QED
  BY <1>2, <1>7 DEF ContentsOK

(* Zones that the update does not go to stay as they are.                  *)
LEMMA OthersKept ==
  ASSUME OtaInv, Advance, zones' = zones, NEW g \in ZoneNo, Goal(g), NEW k \in ZoneNo, k # g
  PROVE  /\ Exec(k)' <=> Exec(k)
         /\ Flagged(k)' <=> Flagged(k)
         /\ Version(k)' = Version(k) /\ ZoneId(k)' = ZoneId(k)
         /\ Complete(Start(k)) => Complete(Start(k))'
         /\ Start(k) \notin Working'
<1>1. OtaBase /\ DeviceOK /\ ContentsOK
  BY DEF OtaInv, OtaBase
<1>2. PICK h \in ZoneNo : /\ Goal(h) /\ Working' \subseteq Cells(h)
                          /\ \A x \in Addr : x \notin Cells(h) => flash'[x] = flash[x]
  BY AdvanceIs
<1>3. h = g
  BY <1>1, <1>2, GoalIsOne DEF Goal
<1>4. Cells(k) \subseteq Addr /\ Start(k) \in Cells(k) /\ Start(k) + 1 \in Cells(k)
  BY <1>1, ZoneInFlash
<1>5. \A x \in Cells(k) : x \notin Cells(g)
  BY <1>1, ZonesApart
<1>6. \A x \in Cells(k) : flash'[x] = flash[x]
  BY <1>2, <1>3, <1>4, <1>5
<1>7. /\ Exec(k)' <=> Exec(k)
      /\ Flagged(k)' <=> Flagged(k)
  BY <1>4, <1>6, StartKept DEF Exec, Flagged
<1>8. Version(k)' = Version(k) /\ ZoneId(k)' = ZoneId(k)
  BY <1>4, <1>6, VersionKept
<1>9. Complete(Start(k)) => Complete(Start(k))'
  BY <1>1, <1>6, CompleteKept DEF ContentsOK
<1>10. Start(k) \notin Working'
  BY <1>2, <1>3, <1>4, <1>5
<1>11. QED
  BY <1>7, <1>8, <1>9, <1>10

(* A command of an operation.  While it erases or writes, the zone has no  *)
(* flag; the command that sets the flag sets it over the image that was    *)
(* just found complete.                                                    *)
LEMMA AdvanceKeeps ==
  ASSUME OtaInv, Advance, Same, UNCHANGED <<env, cmd, result, skipped>> PROVE OtaInv'
<1>1. OtaBase /\ EnvOK /\ OpOK /\ DeviceOK /\ ContentsOK /\ (~skipped => Promised)
  BY DEF OtaInv, OtaBase
<1>2. zones' = zones /\ ota_mode' = ota_mode /\ sent' = sent
  BY DEF Same
<1>3. PICK g \in ZoneNo :
        /\ Goal(g) /\ cmd # "none" /\ late = {} /\ late' = {} /\ op.at < op.end
        /\ \E n \in op.at + 1 .. op.end :
             /\ op' = [op EXCEPT !.at = n, !.since = op.at] /\ flash' = Done(n)
        /\ DOMAIN flash' = Addr
        /\ \A x \in Addr : x \notin op.first .. op.end - 1 => flash'[x] = flash[x]
  BY <1>2, AdvanceIs
<1>4. PICK n \in op.at + 1 .. op.end :
        op' = [op EXCEPT !.at = n, !.since = op.at] /\ flash' = Done(n)
  BY <1>3
<1>5. /\ op.first \in Nat /\ op.at \in Nat /\ op.end \in Nat /\ n \in Nat
      /\ op.first <= op.at /\ n <= op.end /\ op.at < n /\ op.at <= n
  BY <1>1, <1>4 DEF OpOK
<1>6. /\ op'.first = op.first /\ op'.end = op.end /\ op'.kind = op.kind
      /\ op'.data = op.data /\ op'.since = op.at /\ op'.at = n /\ DOMAIN op' = DOMAIN op
  BY <1>1, <1>4 DEF OpOK, NoOp
<1>7. op # NoOp /\ op' # NoOp
  <2>1. op.kind \in {"erase", "write"}
    BY <1>1, <1>3 DEF OpOK
  <2>2. QED
    BY <1>6, <2>1 DEF NoOp
<1>8. EnvOK' /\ GoalOK' /\ OpOK'
  BY <1>5, <1>6, <1>7, StepInBounds
<1>9. DeviceOK'
  BY <1>1, <1>2 DEF DeviceOK
<1>10. ContentsOK'
  BY <1>2, AdvanceOwn
<1>11. LateOK'
  BY <1>3 DEF LateOK
<1>12. OtaBase'
  BY <1>8, <1>9, <1>10, <1>11 DEF OtaBase
<1>13. /\ ZoneNo' = ZoneNo
       /\ \A k : Start(k)' = Start(k)
       /\ \A k : Exec(k)' <=> flash'[Start(k)] = OTA_EXEC_VALID_FLAG
       /\ \A k : Flagged(k)' <=> flash'[Start(k)] \in Flags
  BY <1>2, StartKept
<1>14. Start(g) = env.base /\ env.base \in Nat /\ env.size \in Nat /\ env.base \in Addr
  BY <1>1, <1>3, SizeIsNat, ZoneInFlash DEF Goal, EnvOK
<1>15. ASSUME NEW k \in ZoneNo, k # g
       PROVE  /\ Exec(k)' <=> Exec(k)
              /\ Flagged(k)' <=> Flagged(k)
              /\ Version(k)' = Version(k) /\ ZoneId(k)' = ZoneId(k)
              /\ Complete(Start(k)) => Complete(Start(k))'
  BY <1>2, <1>3, <1>15, OthersKept
<1>16. ASSUME NEW k \in ZoneNo, Start(k) = env.base PROVE k = g
  BY <1>1, <1>14, <1>16, GoalIsOne
<1>17. ASSUME Promised, cmd \in {"start", "write"}
      PROVE FlagOK' /\ ErasedOK' /\ Announced' /\ Spared'
  <2>1. flash'[env.base] = Blank
    BY <1>17, FlagBlank
  <2>2. ~Flagged(g)' /\ ~Exec(g)'
    <3>1. Blank \notin Flags
      BY OtaAssumption DEF Flags
    <3>2. QED
      BY <1>13, <1>14, <2>1, <3>1 DEF Flags
  <2>3. FlagOK'
    BY <1>3, <1>13, <1>15, <1>17, <2>2 DEF Promised, FlagOK
  <2>4. ErasedOK'
    <3>1. env.state # "DATA_VERIFY" /\ result # "verify_confirm"
      BY <1>1, <1>17 DEF EnvOK
    <3>2. QED
      BY <1>17, <2>1, <3>1 DEF ErasedOK
  <2>5. Announced'
    <3>1. SUFFICES ASSUME ota_mode = "switch",
                          \/ env.state \in {"VERSION_CHECK", "DATA_WRITE"}
                          \/ result = "verify_confirm",
                          NEW k \in ZoneNo, Exec(k)', ZoneId(k)' = env.new_ver.zone_id
                   PROVE  Version(k)' < env.new_ver.version
      BY <1>2, <1>13 DEF Announced
    <3>2. k # g
      BY <2>2, <3>1
    <3>3. Exec(k) /\ ZoneId(k) = env.new_ver.zone_id /\ Version(k)' = Version(k)
      BY <1>15, <3>1, <3>2
    <3>4. result # "verify_confirm"
      BY <1>1, <1>17 DEF EnvOK
    <3>5. Version(k) < env.new_ver.version
      BY <1>17, <3>1, <3>3, <3>4 DEF Promised, Announced
    <3>6. QED
      BY <3>3, <3>5
  <2>6. Spared'
    <3>1. ASSUME NEW k \in ZoneNo, Exec(k)', Start(k) = env.base PROVE FALSE
      BY <1>16, <2>2, <3>1
    <3>2. QED
      BY <1>13, <3>1 DEF Spared
  <2>7. QED
    BY <2>3, <2>4, <2>5, <2>6
<1>18. ASSUME Promised, cmd = "verify" PROVE FlagOK' /\ ErasedOK' /\ Announced' /\ Spared'
  <2>1. /\ op.kind = "write" /\ op.first = env.base /\ op.end = env.base + 1 /\ op.data[1] = FlagOf
        /\ op.at = env.base /\ n = env.base + 1
    <3>1. /\ op.kind = "write" /\ op.first = env.base /\ op.end = env.base + 1
               /\ op.data[1] = FlagOf
      BY <1>1, <1>18 DEF OpOK
    <3>2. QED
      BY <1>5, <1>14, <3>1
  <2>2. \A x \in Addr : x # env.base => flash'[x] = flash[x]
    BY <1>3, <1>14, <2>1
  <2>3. Complete(env.base)
    BY <1>18 DEF Promised, ErasedOK
  <2>4. Complete(Start(g))' /\ Version(g)' = Version(g) /\ ZoneId(g)' = ZoneId(g)
    <3>1. \A x \in Cells(g) : x # Start(g) => flash'[x] = flash[x]
      BY <1>1, <1>14, <2>2, ZoneInFlash
    <3>2. QED
      BY <1>1, <1>2, <1>14, <2>3, <3>1, CompleteKept DEF ContentsOK
  <2>5. FlagOK'
    BY <1>3, <1>13, <1>15, <1>18, <2>4 DEF Promised, FlagOK
  <2>6. flash'[env.base] = Programmed(flash[env.base], FlagOf)
    <3>1. env.base \in op.at .. n - 1 /\ env.base - op.first + 1 = 1
      BY <1>14, <2>1
    <3>2. flash'[env.base] = Programmed(flash[env.base], op.data[env.base - op.first + 1])
      BY <1>4, <1>14, <2>1, <3>1 DEF Done
    <3>3. QED
      BY <2>1, <3>1, <3>2
  <2>7. ErasedOK'
    <3>1. env.size > 0 => flash[env.base] = Blank
      BY <1>18, <2>1 DEF Promised, ErasedOK
    <3>2. env.size > 0 => flash'[env.base] = FlagOf
      BY <2>6, <3>1 DEF Programmed
    <3>3. FlagOf' = FlagOf
      BY <1>2 DEF FlagOf, OTA_OTA_VALID_FLAG, OTA_EXEC_VALID_FLAG
    <3>4. Complete(env.base)'
      BY <1>13, <1>14, <2>4 DEF Complete, HeaderOf, Holds
    <3>5. op'.at # op'.first /\ result # "verify_confirm"
      BY <1>1, <1>5, <1>6, <1>14, <1>18, <2>1 DEF EnvOK
    <3>6. QED
      BY <1>18, <3>2, <3>3, <3>4, <3>5 DEF ErasedOK
  <2>8. Announced'
    <3>1. SUFFICES ASSUME ota_mode = "switch",
                          \/ env.state \in {"VERSION_CHECK", "DATA_WRITE"}
                          \/ result = "verify_confirm",
                          NEW k \in ZoneNo, Exec(k)', ZoneId(k)' = env.new_ver.zone_id,
                          Start(k) # env.base
                   PROVE  Version(k)' < env.new_ver.version
      BY <1>2, <1>13, <1>18 DEF Announced
    <3>2. k # g
      BY <1>14, <3>1
    <3>3. Exec(k) /\ ZoneId(k) = env.new_ver.zone_id /\ Version(k)' = Version(k)
      BY <1>15, <3>1, <3>2
    <3>4. Version(k) < env.new_ver.version
      BY <1>18, <3>1, <3>3 DEF Promised, Announced
    <3>5. QED
      BY <3>3, <3>4
  <2>9. Spared'
    BY <1>6, <1>18, <2>1 DEF Spared
  <2>10. QED
    BY <2>5, <2>7, <2>8, <2>9
<1>19. ~skipped' => Promised'
  BY <1>1, <1>3, <1>17, <1>18 DEF Promised, EnvOK
<1>20. QED
  BY <1>12, <1>19 DEF OtaInv

(* The flash at work.                                                      *)
LEMMA FlashStepKeeps ==
  ASSUME OtaInv, FlashStep PROVE OtaInv'
<1>1. Same /\ UNCHANGED <<env, cmd, result>>
  BY DEF FlashStep
<1>2. \/ Advance /\ skipped' = skipped
      \/ Settle /\ skipped' = skipped
      \/ Skip /\ skipped' = TRUE
  BY DEF FlashStep
<1>3. QED
  BY <1>1, <1>2, AdvanceKeeps, SettleKeeps, SkipKeeps

(* The state a command ends in.                                            *)
LEMMA StateAfterIs ==
  ASSUME NEW ok \in BOOLEAN
  PROVE  /\ cmd = "start" => StateAfter(ok) = IF ok THEN "DATA_WRITE" ELSE "IDLE"
         /\ cmd = "write" => StateAfter(ok) = env.state
         /\ cmd = "verify" => StateAfter(ok) = "DATA_VERIFY"
<1>1. cmd = "start" => StateAfter(ok) = IF ok THEN "DATA_WRITE" ELSE "IDLE"
  BY DEF StateAfter
<1>2. cmd = "write" => StateAfter(ok) = env.state
  BY DEF StateAfter
<1>3. cmd = "verify" => StateAfter(ok) = "DATA_VERIFY"
  BY DEF StateAfter
<1>4. QED
  BY <1>1, <1>2, <1>3

(* After an erasure without an error the flag is blank, after              *)
(* OTA_OTA_VERIFY it is there.                                             *)
LEMMA FlashOkKeeps ==
  ASSUME OtaInv, FlashOk PROVE OtaInv'
<1>1. OtaBase /\ EnvOK /\ OpOK /\ DeviceOK /\ GoalOK /\ (~skipped => Promised)
  BY DEF OtaInv, OtaBase
<1>2. /\ Same /\ skipped' = skipped /\ op # NoOp /\ op.at = op.end /\ op' = NoOp
      /\ flash' = flash /\ late' = late /\ cmd' = "none"
      /\ env' = [env EXCEPT !.state = StateAfter(TRUE)]
      /\ result' \in IF cmd = "verify" THEN {"verify_confirm"} ELSE {"confirmed", "refused"}
  BY DEF FlashOk, ReturnOk, history, WriteAnswers
<1>3. zones' = zones /\ ota_mode' = ota_mode
  BY <1>2 DEF Same
<1>4. /\ DeviceOK' /\ ContentsOK' /\ LateOK' /\ (FlagOK => FlagOK')
      /\ ZoneNo' = ZoneNo
      /\ \A k : Start(k)' = Start(k) /\ (Exec(k)' <=> Exec(k))
      /\ \A k : Version(k)' = Version(k) /\ ZoneId(k)' = ZoneId(k)
  BY <1>1, <1>2, FlashSame
<1>5. cmd \in {"start", "write", "verify"}
  BY <1>1, <1>2 DEF EnvOK
<1>6. /\ DOMAIN env' = DOMAIN env /\ env'.base = env.base /\ env'.size = env.size
      /\ env'.new_ver = env.new_ver /\ env'.pConfig = env.pConfig /\ env'.state = StateAfter(TRUE)
  BY <1>1, <1>2 DEF EnvOK, ClearEnv
<1>7. /\ cmd \in {"start", "write"} => env'.state = "DATA_WRITE" /\ result' # "verify_confirm"
      /\ cmd = "verify" => env'.state = "DATA_VERIFY"
  BY <1>1, <1>2, <1>6, StateAfterIs DEF EnvOK
<1>8. env.new_ver \in Images
  BY <1>1, <1>5 DEF EnvOK
<1>9. EnvOK'
  <2>1. env.base \in Nat /\ env.size \in {0} \cup Sizes /\ DOMAIN env = DOMAIN ClearEnv
    BY <1>1 DEF EnvOK
  <2>2. DOMAIN ClearEnv' = DOMAIN ClearEnv
    BY DEF ClearEnv
  <2>3. QED
    BY <1>2, <1>5, <1>6, <1>7, <1>8, <2>1, <2>2 DEF EnvOK
<1>10. \A k : Goal(k)' <=> Goal(k)
  BY <1>3, <1>4, <1>6 DEF Goal
<1>11. GoalOK'
  BY <1>1, <1>4, <1>5, <1>10 DEF GoalOK, Updating
<1>12. OpOK'
  BY <1>2 DEF OpOK, NoOp
<1>13. ASSUME Promised PROVE FlagOK' /\ ErasedOK' /\ Announced' /\ Spared'
  <2>1. FlagOK'
    BY <1>4, <1>13 DEF Promised
  <2>2. FlagOf' = FlagOf
    BY <1>3 DEF FlagOf, OTA_OTA_VALID_FLAG, OTA_EXEC_VALID_FLAG
  <2>3. op.first \in Nat /\ op.end \in Nat /\ op.first <= op.at /\ env.base \in Nat
          /\ env.size \in Nat
    BY <1>1, SizeIsNat DEF OpOK, EnvOK
  <2>4. CASE cmd = "start"
    <3>1. env.size > 0 => flash[env.base] = Blank
      <4>1. op.end = op.first => env.size = 0
        BY <1>1, <2>4 DEF OpOK
      <4>2. env.size > 0 => op.at > op.first
        BY <1>2, <2>3, <4>1
      <4>3. QED
        BY <1>13, <2>4, <4>2 DEF Promised, ErasedOK
    <3>2. ErasedOK'
      BY <1>2, <1>6, <1>7, <2>4, <3>1 DEF ErasedOK
    <3>3. env.state = "VERSION_CHECK" /\ result # "verify_confirm"
      BY <1>1, <2>4 DEF EnvOK
    <3>4. Announced'
      BY <1>3, <1>4, <1>6, <1>7, <1>13, <2>4, <3>3 DEF Promised, Announced
    <3>5. Spared'
      BY <1>3, <1>4, <1>6, <1>13, <2>4 DEF Promised, Spared
    <3>6. QED
      BY <2>1, <3>2, <3>4, <3>5
  <2>5. CASE cmd = "write"
    <3>1. env.state = "DATA_WRITE" /\ result # "verify_confirm"
      BY <1>1, <2>5 DEF EnvOK
    <3>2. ErasedOK'
      BY <1>2, <1>6, <1>7, <1>13, <2>5, <3>1 DEF Promised, ErasedOK
    <3>3. Announced'
      BY <1>3, <1>4, <1>6, <1>7, <1>13, <2>5, <3>1 DEF Promised, Announced
    <3>4. Spared'
      BY <1>3, <1>4, <1>6, <1>13, <2>5 DEF Promised, Spared
    <3>5. QED
      BY <2>1, <3>2, <3>3, <3>4
  <2>6. CASE cmd = "verify"
    <3>1. env.state = "DATA_WRITE"
      BY <1>1, <2>6 DEF EnvOK
    <3>2. op.at # op.first
      <4>1. op.first = env.base /\ op.end = env.base + 1
        BY <1>1, <2>6 DEF OpOK
      <4>2. QED
        BY <1>2, <2>3, <4>1
    <3>3. env.size > 0 => flash[env.base] = FlagOf
      BY <1>13, <2>6, <3>2 DEF Promised, ErasedOK
    <3>4. ErasedOK'
      BY <1>2, <1>6, <1>7, <2>2, <2>6, <3>3 DEF ErasedOK
    <3>5. Announced'
      BY <1>2, <1>3, <1>4, <1>6, <1>13, <2>6, <3>1 DEF Promised, Announced
    <3>6. Spared'
      BY <1>2, <1>7, <2>6 DEF Spared
    <3>7. QED
      BY <2>1, <3>4, <3>5, <3>6
  <2>7. QED
    BY <1>5, <2>4, <2>5, <2>6
<1>14. OtaBase'
  BY <1>4, <1>9, <1>11, <1>12 DEF OtaBase
<1>15. QED
  BY <1>1, <1>2, <1>13, <1>14 DEF OtaInv, Promised

(* An operation that failed may still be at work on what it was changing.  *)
LEMMA FlashFailsKeeps ==
  ASSUME OtaInv, FlashFails PROVE OtaInv'
<1>1. OtaBase /\ EnvOK /\ OpOK /\ DeviceOK /\ GoalOK /\ LateOK /\ (~skipped => Promised)
  BY DEF OtaInv, OtaBase
<1>2. /\ Same /\ skipped' = skipped /\ op # NoOp /\ op' = NoOp
      /\ flash' = flash /\ cmd' = "none" /\ result' = "refused"
      /\ env' = [env EXCEPT !.state = StateAfter(FALSE)]
      /\ late' \in {late, {}} \/ late' = Working
  BY DEF FlashFails, ReturnError
<1>3. zones' = zones /\ ota_mode' = ota_mode
  BY <1>2 DEF Same
<1>4. /\ DeviceOK' /\ ContentsOK' /\ ZoneNo' = ZoneNo
      /\ \A k : Start(k)' = Start(k) /\ Cells(k)' = Cells(k)
      /\ \A k : (Exec(k)' <=> Exec(k)) /\ (Flagged(k)' <=> Flagged(k))
      /\ \A k : Version(k)' = Version(k) /\ ZoneId(k)' = ZoneId(k)
      /\ \A k : Complete(Start(k))' <=> Complete(Start(k))
  BY <1>1, <1>2, ContentsSame
<1>5. cmd \in {"start", "write", "verify"}
  BY <1>1, <1>2 DEF EnvOK
<1>6. /\ DOMAIN env' = DOMAIN env /\ env'.base = env.base /\ env'.size = env.size
      /\ env'.new_ver = env.new_ver /\ env'.pConfig = env.pConfig /\ env'.state = StateAfter(FALSE)
  BY <1>1, <1>2 DEF EnvOK, ClearEnv
<1>7. /\ cmd = "start" => env'.state = "IDLE"
      /\ cmd = "write" => env'.state = "DATA_WRITE" /\ env.state = "DATA_WRITE"
      /\ cmd = "verify" => env'.state = "DATA_VERIFY"
  BY <1>1, <1>6, StateAfterIs DEF EnvOK
<1>8. EnvOK'
  <2>1. env.base \in Nat /\ env.size \in {0} \cup Sizes /\ DOMAIN env = DOMAIN ClearEnv
    BY <1>1 DEF EnvOK
  <2>2. DOMAIN ClearEnv' = DOMAIN ClearEnv /\ env.new_ver \in Images
    BY <1>1, <1>5 DEF ClearEnv, EnvOK
  <2>3. QED
    BY <1>2, <1>5, <1>6, <1>7, <2>1, <2>2 DEF EnvOK
<1>9. \A k : Goal(k)' <=> Goal(k)
  BY <1>3, <1>4, <1>6 DEF Goal
<1>10. GoalOK'
  BY <1>1, <1>4, <1>5, <1>9 DEF GoalOK, Updating
<1>11. OpOK'
  BY <1>2 DEF OpOK, NoOp
<1>12. LateOK'
  <2>1. PICK g \in ZoneNo : Goal(g) /\ Working \subseteq Cells(g)
    BY <1>5, WorkingIs
  <2>2. ASSUME ota_mode = "overwrite", NEW x \in late'
        PROVE  \E k \in ZoneNo : x \in Cells(k) /\ zones[k].id = OTA_ZONE_ID_OTA
    <3>1. CASE x \in late
      BY <1>1, <2>2, <3>1 DEF LateOK
    <3>2. CASE x \in Working
      BY <2>1, <2>2, <3>2 DEF Goal
    <3>3. QED
      BY <1>2, <2>2, <3>1, <3>2
  <2>3. QED
    BY <1>3, <1>4, <2>2 DEF LateOK
<1>13. ASSUME Promised PROVE FlagOK' /\ ErasedOK' /\ Announced' /\ Spared'
  <2>1. FlagOK'
    <3>1. SUFFICES ASSUME NEW k \in ZoneNo, Flagged(k)
                   PROVE  Complete(Start(k)) /\ late' \cap Cells(k) \subseteq {Start(k)}
      BY <1>4 DEF FlagOK
    <3>2. Complete(Start(k)) /\ late \cap Cells(k) \subseteq {Start(k)}
      BY <1>13, <3>1 DEF Promised, FlagOK
    <3>3. Working \cap Cells(k) \subseteq {Start(k)}
      BY <1>13, <3>1, WorkingIs
    <3>4. QED
      BY <1>2, <3>2, <3>3
  <2>2. ErasedOK'
    BY <1>1, <1>2, <1>5, <1>6, <1>7, <1>13 DEF Promised, ErasedOK, EnvOK
  <2>3. Announced'
    <3>1. CASE cmd = "write"
      <4>1. result # "verify_confirm"
        BY <1>1, <3>1 DEF EnvOK
      <4>2. QED
        BY <1>2, <1>3, <1>4, <1>6, <1>7, <1>13, <3>1, <4>1 DEF Promised, Announced
    <3>2. CASE cmd # "write"
      BY <1>2, <1>5, <1>7, <3>2 DEF Announced
    <3>3. QED
      BY <3>1, <3>2
  <2>4. Spared'
    BY <1>2, <1>3, <1>4, <1>5, <1>6, <1>7, <1>13 DEF Promised, Spared
  <2>5. QED
    BY <2>1, <2>2, <2>3, <2>4
<1>14. OtaBase'
  BY <1>4, <1>8, <1>10, <1>11, <1>12 DEF OtaBase
<1>15. QED
  BY <1>1, <1>2, <1>13, <1>14 DEF OtaInv, Promised

-----------------------------------------------------------------------------
(* What a device holds when it is new.                                     *)
LEMMA InitialCells ==
  ASSUME OtaInit
  PROVE  \E s \in Setups :
           /\ zones = s.zones /\ ota_mode = s.ota_mode /\ sent = s.sent /\ ProductOK(s)
           /\ DOMAIN flash = Addr
           /\ \A x \in Addr :
                \/ flash[x] = Blank
                \/ \E k \in ZoneNo :
                     /\ s.holds[k] \in Images /\ s.holds[k].size <= zones[k].size
                     /\ x \in Start(k) .. Start(k) + s.holds[k].size - 1
                     /\ x = Start(k) => flash[x] = OTA_EXEC_VALID_FLAG
                     /\ x # Start(k) => flash[x] = Unit(s.holds[k], x - Start(k))
           /\ \A k \in ZoneNo : \A x \in Start(k) .. Start(k) + s.holds[k].size - 1 :
                x # Start(k) /\ s.holds[k] \in Images /\ s.holds[k].size <= zones[k].size
                  => flash[x] = Unit(s.holds[k], x - Start(k))
<1>1. PICK s \in Setups :
       /\ zones = s.zones /\ ota_mode = s.ota_mode /\ sent = s.sent
       /\ flash = [x \in Addr |->
            LET at == {i \in DOMAIN s.zones : x \in s.zones[i].address ..
                                               s.zones[i].address + s.holds[i].size - 1}
            IN  IF at = {} THEN Blank
                ELSE LET i == Min(at)
                         d == x - s.zones[i].address
                     IN  IF d = 0 THEN OTA_EXEC_VALID_FLAG ELSE Unit(s.holds[i], d)]
  BY DEF OtaInit
<1>2. ProductOK(s) /\ DeviceOK
  BY <1>1, OtaAssumption DEF DeviceOK
<1> DEFINE At(x) == {i \in ZoneNo : x \in Start(i) .. Start(i) + s.holds[i].size - 1}
<1>3. /\ DOMAIN flash = Addr
      /\ \A x \in Addr :
           flash[x] = IF At(x) = {} THEN Blank
                      ELSE IF x - Start(Min(At(x))) = 0 THEN OTA_EXEC_VALID_FLAG
                      ELSE Unit(s.holds[Min(At(x))], x - Start(Min(At(x))))
  BY <1>1 DEF Start, ZoneNo
<1>4. ASSUME NEW k \in ZoneNo
      PROVE  s.holds[k].size = 0 \/ (s.holds[k] \in Images /\ s.holds[k].size <= zones[k].size)
  BY <1>1, <1>2 DEF ProductOK, ZoneNo
<1>5. ASSUME NEW x \in Addr, NEW k \in At(x)
      PROVE  /\ k \in ZoneNo /\ s.holds[k] \in Images /\ s.holds[k].size <= zones[k].size
             /\ s.holds[k].size \in Nat /\ x \in Cells(k)
             /\ x \in Start(k) .. Start(k) + s.holds[k].size - 1
  <2>1. /\ k \in ZoneNo /\ Start(k) \in Nat /\ zones[k].size \in Nat
        /\ x \in Start(k) .. Start(k) + s.holds[k].size - 1
    BY <1>2, ZoneFacts
  <2>2. s.holds[k].size # 0
    <3>1. SUFFICES ASSUME s.holds[k].size = 0 PROVE FALSE
      OBVIOUS
    <3>2. x \in Start(k) .. Start(k) + 0 - 1
      BY <2>1, <3>1
    <3>3. QED
      BY <2>1, <3>2
  <2>3. s.holds[k] \in Images /\ s.holds[k].size <= zones[k].size
    BY <1>4, <2>1, <2>2
  <2>4. s.holds[k].size \in Nat
    BY <2>3, OtaAssumption
  <2>5. x \in Cells(k)
    BY <2>1, <2>3, <2>4 DEF Cells, Start
  <2>6. QED
    BY <2>1, <2>3, <2>4, <2>5
<1>6. ASSUME NEW x \in Addr, NEW k \in At(x) PROVE Min(At(x)) = k
  <2>1. At(x) \in SUBSET Nat /\ At(x) # {}
    BY <1>2, ZoneFacts
  <2>2. Min(At(x)) \in At(x)
    <3> HIDE DEF At
    <3> QED
      BY <2>1, MinIs
  <2>3. PICK j \in At(x) : j = Min(At(x))
    BY <2>2
  <2>4. j \in ZoneNo /\ x \in Cells(j) /\ k \in ZoneNo /\ x \in Cells(k)
    BY <1>5
  <2>5. j = k
    BY <1>2, <2>4, ZonesApart
  <2>6. QED
    BY <2>3, <2>5
<1> HIDE DEF At
<1>7. ASSUME NEW x \in Addr, NEW k \in At(x)
      PROVE  /\ x = Start(k) => flash[x] = OTA_EXEC_VALID_FLAG
             /\ x # Start(k) => flash[x] = Unit(s.holds[k], x - Start(k))
  <2>1. Min(At(x)) = k
    BY <1>6
  <2>2. flash[x] = IF x - Start(k) = 0 THEN OTA_EXEC_VALID_FLAG ELSE Unit(s.holds[k], x - Start(k))
    BY <1>3, <1>7, <2>1
  <2>3. x \in Int /\ Start(k) \in Int
    BY <1>2, <1>5, ZoneFacts DEF Addr
  <2>4. x = Start(k) <=> x - Start(k) = 0
    BY <2>3
  <2>5. QED
    BY <2>2, <2>4
<1>8. ASSUME NEW x \in Addr
      PROVE  \/ flash[x] = Blank
             \/ \E k \in ZoneNo :
                  /\ s.holds[k] \in Images /\ s.holds[k].size <= zones[k].size
                  /\ x \in Start(k) .. Start(k) + s.holds[k].size - 1
                  /\ x = Start(k) => flash[x] = OTA_EXEC_VALID_FLAG
                  /\ x # Start(k) => flash[x] = Unit(s.holds[k], x - Start(k))
  <2>1. CASE At(x) = {}
    BY <1>3, <2>1
  <2>2. CASE At(x) # {}
    <3>1. PICK k : k \in At(x)
      BY <2>2
    <3>2. /\ k \in ZoneNo /\ s.holds[k] \in Images /\ s.holds[k].size <= zones[k].size
          /\ x \in Start(k) .. Start(k) + s.holds[k].size - 1
      BY <1>5, <3>1
    <3>3. QED
      BY <1>7, <3>1, <3>2
  <2>3. QED
    BY <2>1, <2>2
<1>9. ASSUME NEW k \in ZoneNo, NEW x \in Start(k) .. Start(k) + s.holds[k].size - 1, x # Start(k),
             s.holds[k] \in Images, s.holds[k].size <= zones[k].size
      PROVE  flash[x] = Unit(s.holds[k], x - Start(k))
  <2>1. s.holds[k].size \in Nat /\ Start(k) \in Nat /\ zones[k].size \in Nat
    BY <1>2, <1>9, ZoneFacts, OtaAssumption
  <2>2. x \in Cells(k)
    BY <1>9, <2>1 DEF Cells, Start
  <2>3. x \in Addr
    BY <1>2, <2>2, ZoneInFlash
  <2>4. k \in At(x)
    BY <1>9 DEF At
  <2>5. QED
    BY <1>7, <1>9, <2>3, <2>4
<1>10. QED
  BY <1>1, <1>2, <1>3, <1>8, <1>9

(* A new device is as the invariant says: every image is where its zone    *)
(* is, and whole.                                                          *)
LEMMA OtaInitially ==
  ASSUME OtaInit PROVE OtaInv
<1>1. PICK s \in Setups :
           /\ zones = s.zones /\ ota_mode = s.ota_mode /\ sent = s.sent /\ ProductOK(s)
           /\ DOMAIN flash = Addr
           /\ \A x \in Addr :
                \/ flash[x] = Blank
                \/ \E k \in ZoneNo :
                     /\ s.holds[k] \in Images /\ s.holds[k].size <= zones[k].size
                     /\ x \in Start(k) .. Start(k) + s.holds[k].size - 1
                     /\ x = Start(k) => flash[x] = OTA_EXEC_VALID_FLAG
                     /\ x # Start(k) => flash[x] = Unit(s.holds[k], x - Start(k))
           /\ \A k \in ZoneNo : \A x \in Start(k) .. Start(k) + s.holds[k].size - 1 :
                x # Start(k) /\ s.holds[k] \in Images /\ s.holds[k].size <= zones[k].size
                  => flash[x] = Unit(s.holds[k], x - Start(k))
  BY InitialCells
<1>2. DeviceOK
  BY <1>1 DEF DeviceOK
<1>3. /\ op = NoOp /\ late = {} /\ env = ClearEnv /\ cmd = "none" /\ result = "none"
  BY DEF OtaInit, StoreInit
<1>4. EnvOK /\ GoalOK
  BY <1>3 DEF EnvOK, ClearEnv, GoalOK, Updating
<1>5. OpOK
  BY <1>3 DEF OpOK, NoOp
<1>6. LateOK
  BY <1>3 DEF LateOK
<1>7. Own(flash)
  <2>1. SUFFICES ASSUME NEW x \in Addr, NEW m \in Images, NEW d \in 1 .. m.size,
                        flash[x] = <<"data", m, d>>
                 PROVE  \E k \in ZoneNo : x = Start(k) + d /\ d < zones[k].size
    BY DEF Own
  <2>2. d \in 0 .. m.size /\ d \in Nat
    BY OtaAssumption
  <2>3. flash[x] \notin {Blank, Garbage} /\ flash[x] \notin Flags
    BY <2>1, <2>2, UnitsDiffer, OtaAssumption
  <2>4. PICK k \in ZoneNo :
          /\ s.holds[k] \in Images /\ s.holds[k].size <= zones[k].size
          /\ x \in Start(k) .. Start(k) + s.holds[k].size - 1
          /\ flash[x] = Unit(s.holds[k], x - Start(k))
    BY <1>1, <2>3 DEF Flags
  <2>5. /\ s.holds[k].size \in Nat /\ Start(k) \in Nat /\ zones[k].size \in Nat
    BY <1>2, <2>4, ZoneFacts, OtaAssumption
  <2>6. x - Start(k) \in Nat /\ x = Start(k) + (x - Start(k)) /\ x - Start(k) < zones[k].size
    BY <2>4, <2>5
  <2>7. flash[x] \in {Blank, Garbage, <<"header", s.holds[k]>>,
                      <<"data", s.holds[k], x - Start(k)>>}
    BY <2>4, <2>6, UnitIs
  <2>8. <<"data", m, d>> # <<"header", s.holds[k]>>
    BY <2>4, UnitsDiffer
  <2>9. d = x - Start(k)
    BY <2>1, <2>3, <2>7, <2>8
  <2>10. QED
    BY <2>6, <2>9
<1>8. OtaBase
  BY <1>1, <1>2, <1>4, <1>5, <1>6, <1>7 DEF OtaBase, ContentsOK
<1>9. FlagOK
  <2>1. SUFFICES ASSUME NEW k \in ZoneNo, Flagged(k) PROVE Complete(Start(k))
    BY <1>3 DEF FlagOK
  <2>2. Start(k) \in Addr /\ Start(k) \in Cells(k)
    BY <1>2, ZoneInFlash
  <2>3. flash[Start(k)] # Blank
    BY <2>1, OtaAssumption DEF Flagged, Flags
  <2>4. PICK j \in ZoneNo :
          /\ s.holds[j] \in Images /\ s.holds[j].size <= zones[j].size
          /\ Start(k) \in Start(j) .. Start(j) + s.holds[j].size - 1
    BY <1>1, <2>2, <2>3
  <2>5. s.holds[j].size \in Nat \ {0, 1} /\ Start(j) \in Nat /\ zones[j].size \in Nat
    BY <1>2, <2>4, ZoneFacts, OtaAssumption
  <2>6. Start(k) \in Cells(j)
    BY <2>4, <2>5 DEF Cells, Start
  <2>7. j = k
    BY <1>2, <2>2, <2>6, ZonesApart
  <2>8. PICK m \in Images : m = s.holds[k] /\ m.size <= zones[k].size
    BY <2>4, <2>7
  <2>9. m.size \in Nat \ {0, 1} /\ Start(k) \in Nat
    BY <2>5, <2>7, <2>8
  <2>10. ASSUME NEW i \in 1 .. m.size, i < m.size PROVE flash[Start(k) + i] = Unit(m, i)
    <3>1. /\ Start(k) + i \in Start(k) .. Start(k) + m.size - 1 /\ Start(k) + i # Start(k)
          /\ (Start(k) + i) - Start(k) = i
      BY <2>9, <2>10
    <3>2. flash[Start(k) + i] = Unit(m, (Start(k) + i) - Start(k))
      BY <1>1, <2>8, <3>1
    <3>3. QED
      BY <3>1, <3>2
  <2>11. flash[Start(k) + 1] = <<"header", m>>
    <3>1. 1 \in 1 .. m.size /\ 1 < m.size
      BY <2>9
    <3>2. flash[Start(k) + 1] = Unit(m, 1)
      BY <2>10, <3>1
    <3>3. QED
      BY <3>2, UnitIs
  <2>12. \A i \in 2 .. m.size : i < m.size => flash[Start(k) + i] = Unit(m, i)
    <3>1. \A i \in 2 .. m.size : i \in 1 .. m.size
      BY <2>9
    <3>2. QED
      BY <2>10, <3>1
  <2>13. QED
    BY <1>2, <2>11, <2>12, CompleteIs
<1>10. ErasedOK /\ Announced /\ Spared
  BY <1>3 DEF ErasedOK, Announced, Spared, ClearEnv
<1>11. QED
  BY <1>8, <1>9, <1>10 DEF OtaInv, Promised

(* Every step keeps the invariant.                                         *)
LEMMA OtaStep ==
  ASSUME OtaInv, [OtaNext]_otaVars PROVE OtaInv'
<1>1. CASE OtaNext
  BY <1>1, InitializeKeeps, CheckVersionKeeps, StartOtaKeeps, WriteDataKeeps, CheckDataKeeps,
     OutOfTurnKeeps, FlashStepKeeps, FlashOkKeeps, FlashFailsKeeps, ResetKeeps DEF OtaNext
<1>2. CASE UNCHANGED otaVars
  <2>1. Settle /\ Same /\ UNCHANGED <<env, cmd, result, skipped>>
    BY <1>2 DEF otaVars, storeVars, history, Settle, Same
  <2>2. QED
    BY <2>1, SettleKeeps
<1>3. QED
  BY <1>1, <1>2

(* The inductive invariant.                                                *)
LEMMA OtaInvariant == OtaSpec => []OtaInv
<1>1. OtaInit => OtaInv
  BY OtaInitially
<1>2. OtaInv /\ [OtaNext]_otaVars => OtaInv'
  BY OtaStep
<1>3. QED
  BY <1>1, <1>2, PTL DEF OtaSpec

-----------------------------------------------------------------------------
(* ota_env and the flash agree: a command waits for exactly the operation  *)
(* it began, and data are accepted (DATA_WRITE) only for a zone of the     *)
(* table other than the boot loader's.                                     *)
THEOREM OtaTypeCorrect == OtaSpec => []OtaTypeOK
<1>1. OtaInv => OtaTypeOK
  <2>1. SUFFICES ASSUME OtaInv PROVE OtaTypeOK
    OBVIOUS
  <2>2. OtaBase /\ EnvOK /\ GoalOK /\ DeviceOK
    BY <2>1 DEF OtaInv, OtaBase
  <2>3. ASSUME env.state = "DATA_WRITE"
        PROVE \E i \in ZoneNo : env.base = zones[i].address /\ env.base # 0
    <3>1. PICK k \in ZoneNo : Goal(k)
      BY <2>2, <2>3 DEF GoalOK, Updating
    <3>2. Start(k) # 0 /\ Start(k) = env.base
      <4>1. k # 1 /\ 1 \in ZoneNo
        BY <2>2, <3>1, ZoneFacts DEF Goal
      <4>2. QED
        BY <2>2, <3>1, <4>1, ZonesApart DEF Goal
    <3>3. QED
      BY <3>2 DEF Start
  <2>4. QED
    BY <2>2, <2>3 DEF EnvOK, OtaTypeOK
<1>2. QED
  BY <1>1, OtaInvariant, PTL

(* Whatever ota_check_sum leaves out, a zone with a valid flag has all of  *)
(* its image: START erases the flag first, OTA_OTA_VERIFY sets it last,    *)
(* and neither a reset nor a failing operation leaves it over anything     *)
(* else.                                                                   *)
THEOREM FlagMeansComplete == OtaSpec => []FlaggedIsComplete
<1>1. OtaInv => FlaggedIsComplete
  BY DEF OtaInv, Promised, FlagOK, FlaggedIsComplete, Flagged, Start, Flags
<1>2. QED
  BY <1>1, OtaInvariant, PTL

(* When OTA_OTA_VERIFY is confirmed in switch mode for the image           *)
(* announced, ota_find_zone finds that image: of all zones of its id it is *)
(* the newest.                                                             *)
THEOREM ConfirmedCanBeFound == OtaSpec => []ConfirmedIsFound
<1>1. OtaInv => ConfirmedIsFound
  <2>1. SUFFICES ASSUME OtaInv, result = "verify_confirm", ota_mode = "switch", ~skipped,
                        env.size > 0,
                        flash[env.base + 1] = <<"header", env.new_ver>>
                 PROVE  ota_find_zone(env.new_ver.zone_id) # 0
                        /\ zones[ota_find_zone(env.new_ver.zone_id)].address = env.base
    BY DEF ConfirmedIsFound
  <2>2. /\ OtaBase /\ EnvOK /\ GoalOK /\ DeviceOK
        /\ Promised /\ FlagOK /\ ErasedOK /\ Announced
    BY <2>1 DEF OtaInv, OtaBase, Promised
  <2>3. PICK g \in ZoneNo : Goal(g)
    BY <2>1, <2>2 DEF GoalOK, Updating
  <2>4. Start(g) = env.base
    BY <2>3 DEF Goal
  <2>5. Exec(g)
    BY <2>1, <2>2, <2>4 DEF ErasedOK, FlagOf, Exec
  <2>6. env.new_ver \in Images
    BY <2>1, <2>2 DEF EnvOK
  <2>7. Version(g) = env.new_ver.version /\ ZoneId(g) = env.new_ver.zone_id
    BY <2>1, <2>2, <2>4, <2>6, HeaderIs
  <2>8. PICK i : i = ota_find_zone(env.new_ver.zone_id)
    OBVIOUS
  <2>9. i # 0
    BY <2>2, <2>5, <2>7, <2>8, FindsNewest
  <2>10. i \in ZoneNo /\ Exec(i) /\ ZoneId(i) = env.new_ver.zone_id /\ Version(g) <= Version(i)
    BY <2>2, <2>5, <2>7, <2>8, <2>9, FindsNewest
  <2>11. Version(i) \in Nat /\ env.new_ver.version \in Nat
    BY <2>2, <2>6, <2>10, FlaggedHas, OtaAssumption
  <2>12. ~(Version(i) < env.new_ver.version)
    BY <2>7, <2>10, <2>11
  <2>13. Start(i) = env.base
    BY <2>1, <2>2, <2>10, <2>12 DEF Announced
  <2>14. QED
    BY <2>8, <2>9, <2>13 DEF Start
<1>2. QED
  BY <1>1, OtaInvariant, PTL

(* A zone that can be run is one with the flag for good.                   *)
LEMMA RunsNext ==
  ASSUME OtaInv', ~skipped', zones' = zones, NEW k \in ZoneNo, Exec(k)',
         Start(k) \notin late' \cup Working'
  PROVE  Runs(k)'
<1>1. FlagOK' /\ ZoneNo' = ZoneNo /\ Start(k)' = Start(k)
  BY StartKept DEF OtaInv, Promised
<1>2. Complete(Start(k))'
  BY <1>1 DEF FlagOK, Flagged, Exec, Flags
<1>3. PICK m \in Images :
        /\ flash'[Start(k) + 1] = <<"header", m>>
        /\ \A i \in 2 .. m.size : i < m.size => flash'[Start(k) + i] = Unit(m, i)
  BY <1>2, CompleteNext
<1>4. ASSUME NEW i \in 2 .. Sampled, i < m.size PROVE flash'[Start(k) + i] = Unit(m, i)
  <2>1. i \in 2 .. m.size
    BY <1>4, OtaAssumption
  <2>2. QED
    BY <1>3, <1>4, <2>1
<1>5. m \in HeaderOf(Start(k))' /\ Holds(Start(k), m, Sampled)'
  BY <1>1, <1>3, <1>4 DEF HeaderOf, Holds, Unit
<1>6. flash'[Start(k)] = OTA_EXEC_VALID_FLAG
  BY StartKept
<1>7. ota_check_sum(Start(k))'
  BY <1>1, <1>5, <1>6 DEF ota_check_sum, OTA_EXEC_VALID_FLAG
<1>8. QED
  BY <1>1, <1>2, <1>7 DEF Runs, Valid, Start

(* What a step does to the flash: nothing, which leaves no more cells open *)
(* than before, or a command of the operation, or a reset.                 *)
LEMMA StepKinds ==
  ASSUME OtaInv, [OtaNext]_otaVars
  PROVE  /\ zones' = zones /\ ota_mode' = ota_mode
         /\ skipped' = skipped \/ skipped' = TRUE
         /\ \/ flash' = flash /\ late' \cup Working' \subseteq late \cup Working
            \/ Advance
            \/ Reset
<1>1. OpOK /\ OpOK'
  BY OtaStep DEF OtaInv, OtaBase
<1>2. /\ op.since \in Nat /\ op.at \in Nat /\ op.since <= op.at
      /\ op'.since \in Nat /\ op'.at \in Nat /\ op'.since <= op'.at
  BY <1>1 DEF OpOK
<1>3. op'.since = op'.at => Working' = {}
  BY <1>2 DEF Working
<1>4. op' = op => Working' = Working
  BY DEF Working
<1>5. CASE UNCHANGED <<storeVars, zones, ota_mode, skipped>>
  BY <1>4, <1>5 DEF storeVars
<1>6. CASE /\ zones' = zones /\ ota_mode' = ota_mode /\ skipped' = skipped
           /\ flash' = flash /\ late' = late /\ op'.since = op'.at
  BY <1>3, <1>6
<1>7. CASE StartOta \/ WriteData \/ CheckData
  <2>1. /\ zones' = zones /\ ota_mode' = ota_mode /\ skipped' = skipped
    BY <1>7 DEF StartOta, WriteData, CheckData, Same, history
  <2>2. \/ UNCHANGED storeVars
        \/ \E a, n : Begin(Erasure(a, n))
        \/ \E a, d, n : Begin(Writing(a, d, n))
    BY <1>7 DEF StartOta, WriteData, CheckData
  <2>3. CASE UNCHANGED storeVars
    BY <1>5, <2>1, <2>3
  <2>4. ASSUME NEW a, NEW n, Begin(Erasure(a, n))
        PROVE flash' = flash /\ late' = late /\ op'.since = op'.at
    BY <2>4 DEF Begin, Erasure
  <2>5. ASSUME NEW a, NEW d, NEW n, Begin(Writing(a, d, n))
        PROVE flash' = flash /\ late' = late /\ op'.since = op'.at
    BY <2>5 DEF Begin, Writing
  <2>6. QED
    BY <1>6, <2>1, <2>2, <2>3, <2>4, <2>5
<1>8. CASE FlashStep
  <2>1. zones' = zones /\ ota_mode' = ota_mode /\ (skipped' = skipped \/ skipped' = TRUE)
    BY <1>8 DEF FlashStep, Same
  <2>2. CASE Settle
    <3>1. flash' = flash /\ late' \subseteq late /\ (op' = op \/ op' = [op EXCEPT !.since = op.at])
      BY <2>2 DEF Settle
    <3>2. op' = [op EXCEPT !.since = op.at] => op'.since = op'.at
      BY <1>1 DEF OpOK, NoOp
    <3>3. QED
      BY <1>3, <1>4, <2>1, <3>1, <3>2
  <2>3. CASE Skip
    <3>1. /\ flash' = flash /\ late' \subseteq late
          /\ \E n \in op.at + 1 .. op.end : op' = [op EXCEPT !.at = n, !.since = n]
      BY <2>3 DEF Skip
    <3>2. op'.since = op'.at
      BY <1>1, <3>1 DEF OpOK, NoOp
    <3>3. QED
      BY <1>3, <2>1, <3>1, <3>2
  <2>4. QED
    BY <1>8, <2>1, <2>2, <2>3 DEF FlashStep
<1>9. CASE FlashOk \/ FlashFails
  <2>1. /\ zones' = zones /\ ota_mode' = ota_mode /\ skipped' = skipped
        /\ flash' = flash /\ op' = NoOp
        /\ late' \in {late, {}} \/ late' = Working
    BY <1>9 DEF FlashOk, FlashFails, ReturnOk, ReturnError, Same, history
  <2>2. Working' = {}
    BY <1>3, <2>1 DEF NoOp
  <2>3. QED
    BY <2>1, <2>2
<1>10. CASE Reset
  BY <1>10 DEF Reset, Same
<1>11. CASE Initialize \/ CheckVersion \/ OutOfTurn
  <2>1. UNCHANGED <<storeVars, zones, ota_mode, skipped>>
    BY <1>11 DEF Initialize, CheckVersion, OutOfTurn, Same, history
  <2>2. QED
    BY <1>5, <2>1
<1>12. CASE UNCHANGED otaVars
  <2>1. UNCHANGED <<storeVars, zones, ota_mode, skipped>>
    BY <1>12 DEF otaVars, history
  <2>2. QED
    BY <1>5, <2>1
<1>13. QED
  BY <1>7, <1>8, <1>9, <1>10, <1>11, <1>12 DEF OtaNext

(* A zone that can be run stays so, or another takes its place.            *)
LEMMA SurvivesStep ==
  ASSUME OtaInv, [OtaNext]_otaVars, ota_mode = "switch", ~skipped', NEW i \in ZoneNo, Runs(i)
  PROVE  \E k \in ZoneNo : Runs(k)' /\ ZoneId(k)' = ZoneId(i) /\ Version(k)' >= Version(i)
<1>1. OtaInv'
  BY OtaStep
<1>2. /\ zones' = zones /\ ota_mode' = ota_mode
      /\ \/ flash' = flash /\ late' \cup Working' \subseteq late \cup Working
         \/ Advance
         \/ Reset
  BY StepKinds
<1>3. ~skipped
  <2>1. skipped' = skipped \/ skipped' = TRUE
    BY StepKinds
  <2>2. QED
    BY <2>1, Zenon
<1>4. /\ OtaBase /\ EnvOK /\ OpOK /\ DeviceOK /\ ContentsOK
      /\ Promised /\ FlagOK
  BY <1>3 DEF OtaInv, OtaBase, Promised
<1>5. Exec(i) /\ Start(i) \notin late \cup Working
  BY DEF Runs, Valid, ota_check_sum, Exec, Start
<1>6. Version(i) \in Nat
  BY <1>4, <1>5, FlaggedHas
<1>7. ASSUME Exec(i)', Start(i) \notin late' \cup Working', Version(i)' = Version(i),
             ZoneId(i)' = ZoneId(i)
      PROVE  \E k \in ZoneNo : Runs(k)' /\ ZoneId(k)' = ZoneId(i) /\ Version(k)' >= Version(i)
  <2>1. Runs(i)'
    BY <1>1, <1>2, <1>7, RunsNext
  <2>2. Version(i)' >= Version(i)
    BY <1>6, <1>7
  <2>3. QED
    BY <1>7, <2>1, <2>2
<1>8. CASE flash' = flash /\ late' \cup Working' \subseteq late \cup Working
  <2>1. Exec(i)'
    BY <1>2, <1>5, <1>8, StartKept DEF Exec
  <2>2. Version(i)' = Version(i) /\ ZoneId(i)' = ZoneId(i)
    BY <1>2, <1>8, VersionKept
  <2>3. QED
    BY <1>5, <1>7, <1>8, <2>1, <2>2
<1>9. CASE Advance
  <2>1. PICK g \in ZoneNo : Goal(g) /\ cmd # "none" /\ late' = {} /\ op.at < op.end
    BY <1>2, <1>9, AdvanceIs
  <2>2. CASE i # g
    BY <1>2, <1>5, <1>7, <1>9, <2>1, <2>2, OthersKept
  <2>3. CASE i = g
    <3>1. Start(i) = env.base
      BY <2>1, <2>3 DEF Goal
    <3>2. op.at # op.end
      BY <1>4, <2>1 DEF OpOK
    <3>3. PICK j \in ZoneNo \ {i} : Exec(j) /\ ZoneId(j) = ZoneId(i) /\ Version(j) >= Version(i)
      BY <1>4, <1>5, <2>1, <3>1, <3>2 DEF Promised, Spared
    <3>4. /\ Exec(j)' /\ Version(j)' = Version(j) /\ ZoneId(j)' = ZoneId(j)
          /\ Start(j) \notin late' \cup Working'
      BY <1>2, <1>9, <2>1, <2>3, <3>3, OthersKept
    <3>5. Runs(j)'
      BY <1>1, <1>2, <3>4, RunsNext
    <3>6. QED
      BY <3>3, <3>4, <3>5
  <2>4. QED
    BY <2>2, <2>3
<1>10. CASE Reset
  <2>1. op' = NoOp /\ late' \subseteq late \cup Working
    BY <1>10 DEF Reset, Stop
  <2>2. Working' = {}
    <3>1. op'.since = 0 /\ op'.at = 0
      BY <2>1 DEF NoOp
    <3>2. QED
      BY <3>1 DEF Working
  <2>3. PICK cells \in SUBSET (late \cup Working) : flash' = Torn(flash, cells)
    BY <1>10 DEF Reset
  <2>4. /\ late \cap Cells(i) \subseteq {Start(i)} /\ Working \cap Cells(i) \subseteq {Start(i)}
    <3>1. Flagged(i)
      BY <1>5 DEF Flagged, Exec, Flags
    <3>2. QED
      BY <1>4, <3>1, WorkingIs DEF FlagOK
  <2>5. Cells(i) \subseteq Addr /\ Start(i) \in Cells(i) /\ Start(i) + 1 \in Cells(i)
    BY <1>4, ZoneInFlash
  <2>6. \A x \in Cells(i) : flash'[x] = flash[x]
    BY <1>5, <2>3, <2>4, <2>5 DEF Torn
  <2>7. Exec(i)'
    BY <1>2, <1>5, <2>5, <2>6, StartKept DEF Exec
  <2>8. Version(i)' = Version(i) /\ ZoneId(i)' = ZoneId(i)
    BY <1>2, <2>5, <2>6, VersionKept
  <2>9. QED
    BY <1>5, <1>7, <2>1, <2>2, <2>7, <2>8
<1>11. QED
  BY <1>2, <1>8, <1>9, <1>10

(* In switch mode ota_find_blank_zone never gives up the newest image of   *)
(* an id: after every step, also a reset or a loss of power, what could be *)
(* run can be run or another zone of its id can, with an image as new.     *)
THEOREM NewestImageSurvives == OtaSpec => NewestSurvives
<1>1. OtaInv /\ [OtaNext]_otaVars =>
        [ota_mode = "switch" /\ ~skipped' =>
           \A i \in ZoneNo : Runs(i) =>
             \E k \in ZoneNo : Runs(k)' /\ ZoneId(k)' = ZoneId(i)
               /\ Version(k)' >= Version(i)]_otaVars
  BY SurvivesStep
<1>2. QED
  BY <1>1, OtaInvariant, PTL DEF OtaSpec, NewestSurvives

(* In overwrite mode no step changes a cell outside the zones for updates. *)
THEOREM OverwriteLeavesTheRest == OtaSpec => OverwriteConfined
<1>1. ASSUME OtaInv, [OtaNext]_otaVars, ota_mode = "overwrite",
             NEW x \in Addr, flash'[x] # flash[x]
      PROVE  \E i \in ZoneNo : /\ zones[i].id = OTA_ZONE_ID_OTA
                               /\ x \in zones[i].address .. zones[i].address + zones[i].size - 1
  <2>1. zones' = zones /\ (Advance \/ Reset) /\ LateOK
    BY <1>1, StepKinds DEF OtaInv, OtaBase
  <2>2. CASE Advance
    <3>1. PICK g \in ZoneNo : Goal(g) /\ \A y \in Addr : y \notin Cells(g) => flash'[y] = flash[y]
      BY <1>1, <2>1, <2>2, AdvanceIs
    <3>2. QED
      BY <1>1, <3>1 DEF Goal, Cells
  <2>3. CASE Reset
    <3>1. x \in late \cup Working
      BY <1>1, <2>3 DEF Reset, Torn
    <3>2. CASE x \in late
      BY <1>1, <2>1, <3>2 DEF LateOK, Cells
    <3>3. CASE x \in Working
      <4>1. PICK g \in ZoneNo : Goal(g) /\ Working \subseteq Cells(g)
        BY <1>1, <3>3, WorkingIs
      <4>2. QED
        BY <1>1, <3>3, <4>1 DEF Goal, Cells
    <3>4. QED
      BY <3>1, <3>2, <3>3
  <2>4. QED
    BY <2>1, <2>2, <2>3
<1>2. OtaInv /\ [OtaNext]_otaVars =>
        [ota_mode = "overwrite" =>
           \A x \in Addr : flash'[x] # flash[x] =>
             \E i \in ZoneNo :
               /\ zones[i].id = OTA_ZONE_ID_OTA
               /\ x \in zones[i].address .. zones[i].address + zones[i].size - 1]_otaVars
  BY <1>1
<1>3. QED
  BY <1>2, OtaInvariant, PTL DEF OtaSpec, OverwriteConfined
============================================================================

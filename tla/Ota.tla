-------------------------------- MODULE Ota --------------------------------
(***************************************************************************)
(* Firmware update (ota/ota.c): an image is announced, its zone erased, its *)
(* data written, and at last verified and flagged.  Flash operations are   *)
(* those of FlashStore, so that an error, a reset or the loss of power     *)
(* comes between any two cells.                                            *)
(*                                                                         *)
(* A zone begins with a cell for the valid flag and one for the rest of the *)
(* header, one cell for each further unit of data follows.  Checksums tell *)
(* different contents apart.  Zones and transfers are not encrypted: what  *)
(* the cipher makes of a flag written over 0xffffffff is up to the hardware. *)
(***************************************************************************)
EXTENDS FlashStore, Sequences, FiniteSetsExt

CONSTANTS
  Setups,      \* devices: the zones, ota_mode, contents, the files it is sent
  Images,      \* image files: zone_id, version, size in cells, whether signed
  Packets,     \* parts of a file that are sent: address and length
  Sizes,       \* sizes that OTA_OTA_START may tell
  Sampled,     \* the last cell that the checksum looks at (32 KB)
  MaxStarts, MaxWrites, MaxErrors, MaxResets   \* bounds on what happens

OTA_ZONE_ID_BOOT == 0
OTA_ZONE_ID_OTA == 240

OTA_EXEC_VALID_FLAG == <<"exec">>
OTA_OTA_VALID_FLAG == <<"ota">>

(* A device has its boot loader at the start of the flash, and zones of      *)
(* whole sectors that do not overlap; each image lies in its zone.  A file    *)
(* may be larger than a zone, but a header in any zone can be read to its     *)
(* image's end.                                                               *)
ProductOK(s) ==
  /\ s.zones \in Seq([id : Nat, address : Nat, size : Nat \ {0, 1}, signed : BOOLEAN])
  /\ s.zones # <<>> /\ s.zones[1].id = OTA_ZONE_ID_BOOT /\ s.zones[1].address = 0
  /\ s.sent \subseteq Images
  /\ \A k \in DOMAIN s.zones :
       LET z == s.zones[k]
       IN  /\ z.address % SPIROM_SECTOR_SIZE = 0 /\ z.size % SPIROM_SECTOR_SIZE = 0
           /\ z.address + z.size <= FlashSize
           /\ s.holds[k].size = 0 \/ (s.holds[k] \in Images /\ s.holds[k].size <= z.size)
           /\ \A m \in Images : z.address + m.size <= FlashSize
           /\ \A j \in DOMAIN s.zones \ {k} :
                \/ s.zones[j].address + s.zones[j].size <= z.address
                \/ z.address + z.size <= s.zones[j].address

ASSUME OtaAssumption ==
  /\ \A m \in Images : m.size \in Nat \ {0, 1} /\ m.version \in Nat
  /\ Sizes \subseteq Nat /\ Sampled \in Nat
  /\ \A p \in Packets : p.address \in Nat /\ p.length \in Nat
  /\ {Blank, Garbage} \cap {OTA_EXEC_VALID_FLAG, OTA_OTA_VALID_FLAG} = {}
  /\ \A m \in Images : \A i \in 0 .. m.size : <<"data", m, i>> \notin {Blank, Garbage}
  /\ \A s \in Setups : ProductOK(s)

VARIABLES
  zones,     \* the zone table: sequence of id, address, size, signed
  ota_mode,  \* "overwrite" or "switch"
  sent,      \* the files that the device may be sent
  env,       \* ota_env: state, new_ver (an image), base, size, pConfig
  cmd,       \* the command whose flash operation is under way, or "none"
  result,    \* the last answer: confirmed (verify_confirm is told apart) or refused
  skipped,   \* history: a flash command was lost on a busy device
  starts, writes, errors, resets

history == <<skipped, starts, writes, errors, resets>>
otaVars == <<storeVars, zones, ota_mode, sent, env, cmd, result, history>>

ZoneNo == DOMAIN zones
NoImage == [zone_id |-> 0, version |-> 0, size |-> 2, signed |-> FALSE]
ClearEnv == [state |-> "IDLE", new_ver |-> NoImage, base |-> 0, size |-> 0, pConfig |-> FALSE]

(* A file holds 0xffffffff for the flag, the header, and data; what is sent *)
(* behind its end is padding.                                              *)
Unit(m, i) ==
  CASE i = 0 -> Blank
    [] i = 1 -> <<"header", m>>
    [] i > 1 /\ i < m.size -> <<"data", m, i>>
    [] OTHER -> Garbage

OtaInit ==
  /\ \E s \in Setups :
       /\ zones = s.zones /\ ota_mode = s.ota_mode /\ sent = s.sent
       /\ flash = [x \in Addr |->
            LET at == {i \in DOMAIN s.zones : x \in s.zones[i].address ..
                                               s.zones[i].address + s.holds[i].size - 1}
            IN  IF at = {} THEN Blank
                ELSE LET i == Min(at)
                         d == x - s.zones[i].address
                     IN  IF d = 0 THEN OTA_EXEC_VALID_FLAG ELSE Unit(s.holds[i], d)]
  /\ StoreInit
  /\ env = ClearEnv /\ cmd = "none" /\ result = "none"
  /\ skipped = FALSE /\ starts = 0 /\ writes = 0 /\ errors = 0 /\ resets = 0

-----------------------------------------------------------------------------
(* The image whose header is at an address, if one is. *)
HeaderOf(a) == {m \in Images : flash[a + 1] = <<"header", m>>}
Holds(a, m, last) == \A i \in 2 .. last : i < m.size => flash[a + i] = Unit(m, i)

(* ota_check_sum: the flag, and one word in each of the first units. *)
ota_check_sum(a) ==
  flash[a] = OTA_EXEC_VALID_FLAG /\ \E m \in HeaderOf(a) : Holds(a, m, Sampled)

Complete(a) == \E m \in HeaderOf(a) : Holds(a, m, m.size)

(* Mutation: samples are enough for the crc, too. *)
crc_of_samples(a) == \E m \in HeaderOf(a) : Holds(a, m, Sampled)

(* ota_check_zone_crc: all of the image, whatever the flag. *)
ota_check_zone_crc(a) == Complete(a)

Version(i) == (CHOOSE m \in HeaderOf(zones[i].address) : TRUE).version
ZoneId(i) == (CHOOSE m \in HeaderOf(zones[i].address) : TRUE).zone_id
Valid(i) == ota_check_sum(zones[i].address)

(* ota_find_zone: the first zone with the highest version, 0 for none. *)
ota_find_zone(id) ==
  LET C == {i \in ZoneNo : Valid(i) /\ ZoneId(i) = id}
  IN  IF C = {} THEN 0
      ELSE Min({i \in C : \A k \in C : Version(i) >= Version(k)})

FirstOf(S) == IF S = {} THEN 0 ELSE Min(S)

(* Mutation: the newer one of two zones is taken. *)
OlderSwapped(i, j) == IF Version(i) > Version(j) THEN i ELSE j

(* Of two valid zones with the same id the older one may go. *)
Older(i, j) == IF Version(i) > Version(j) THEN j ELSE i

(* ota_find_blank_zone: the first executable zone that is not valid, or one *)
(* of the first pair of valid zones with the same id, if it is large enough. *)
ForZone(i, size) ==
  LET fits(k) == zones[k].size >= size
      pairs == {j \in ZoneNo : j > i /\ Valid(j) /\ ZoneId(j) = ZoneId(i) /\ fits(Older(i, j))}
  IN  IF zones[i].id = OTA_ZONE_ID_BOOT \/ zones[i].id > OTA_ZONE_ID_OTA THEN 0
      ELSE IF ~Valid(i) THEN IF fits(i) THEN i ELSE 0
      ELSE IF pairs = {} THEN 0 ELSE Older(i, Min(pairs))
ota_find_blank_zone(size) ==
  LET i == FirstOf({i \in ZoneNo : ForZone(i, size) # 0})
  IN  IF i = 0 THEN 0 ELSE ForZone(i, size)

(* ota_find_zone_table. *)
TableEntry(id) == FirstOf({i \in ZoneNo : zones[i].id = id})

-----------------------------------------------------------------------------
Ready == env.pConfig /\ cmd = "none"
Same == UNCHANGED <<zones, ota_mode, sent>>

(* ota_initialize: the boot loader holds the zone table. *)
Initialize ==
  /\ cmd = "none"
  /\ IF ota_check_sum(zones[1].address)
       THEN env' = [env EXCEPT !.pConfig = TRUE] /\ result' = "confirmed"
       ELSE result' = "refused" /\ UNCHANGED env
  /\ Same /\ UNCHANGED <<storeVars, cmd, history>>

(* Mutation: the same version is let in again. *)
NewerOrSame(new, old) == new.version >= old

(* What the mode asks of a version, compared with the one in use. *)
Newer(new, old) ==
  IF ota_mode = "overwrite" THEN new.version # old ELSE new.version > old

(* ota_check_version.  Without a zone of this id in use it looks at the     *)
(* version through a null pointer, and finds anything.                      *)
CheckVersion ==
  /\ Ready
  /\ \E m \in sent :
       LET i == ota_find_zone(m.zone_id)
       IN  \E accepted \in IF i = 0 THEN BOOLEAN ELSE {Newer(m, Version(i))} :
             IF accepted
               THEN /\ env' = [env EXCEPT !.state = "VERSION_CHECK", !.new_ver = m]
                    /\ result' = "confirmed"
               ELSE /\ env' = [env EXCEPT !.state = "IDLE"]
                    /\ result' = "refused"
  /\ Same /\ UNCHANGED <<storeVars, cmd, history>>

(* Mutation: an image in overwrite mode goes where its zone is. *)
TargetInPlace(size) ==
  IF ota_mode = "overwrite" THEN TableEntry(env.new_ver.zone_id)
  ELSE ota_find_blank_zone(size)

(* Where the image goes: the zone for updates, or a blank one. *)
Target(size) ==
  IF ota_mode = "overwrite"
    THEN LET Z == {i \in ZoneNo : zones[i].id = OTA_ZONE_ID_OTA /\ size <= zones[i].size}
         IN  IF Z = {} THEN 0 ELSE Max(Z)
    ELSE ota_find_blank_zone(size)

(* Mutation: the state is kept. *)
EnvRefusedKeepState == [env EXCEPT !.base = 0]

EnvRefused == [env EXCEPT !.state = "IDLE", !.base = 0]

(* In overwrite mode the id is compared through the null pointer again. *)
MayStart ==
  IF env.state # "VERSION_CHECK" THEN {FALSE}
  ELSE IF ota_mode = "overwrite" /\ ota_find_zone(env.new_ver.zone_id) = 0 THEN BOOLEAN
  ELSE {TRUE}

(* ota_start_ota. *)
StartOta ==
  /\ Ready /\ starts < MaxStarts
  /\ \E size \in Sizes, may \in MayStart :
       LET i == Target(size)
       IN  IF ~may \/ i = 0
             THEN env' = EnvRefused /\ result' = "refused" /\ UNCHANGED <<storeVars, cmd>>
             ELSE /\ env' = [env EXCEPT !.base = zones[i].address, !.size = size]
                  /\ Begin(Erasure(zones[i].address, size))
                  /\ cmd' = "start" /\ UNCHANGED result
  /\ starts' = starts + 1
  /\ Same /\ UNCHANGED <<skipped, writes, errors, resets>>

(* ota_write_data: padding is cut off. *)
WriteData ==
  /\ Ready /\ writes < MaxWrites
  /\ env.state = "DATA_WRITE"
  /\ \E m \in sent, p \in Packets :
       IF p.address > env.size
         THEN result' = "refused" /\ UNCHANGED <<storeVars, cmd>>
         ELSE /\ LET n == Min({p.length, env.size - p.address})
                     data == [k \in 1 .. n |-> Unit(m, p.address + k - 1)]
                 IN  Begin(Writing(env.base + p.address, data, n))
              /\ cmd' = "write" /\ UNCHANGED result
  /\ writes' = writes + 1
  /\ Same /\ UNCHANGED <<env, skipped, starts, errors, resets>>

(* sign_mode of the zone; what follows the table if the id is not in it. *)
SignMode(id) ==
  LET i == TableEntry(id) IN IF i = 0 THEN BOOLEAN ELSE {zones[i].signed}

(* ota_check_data. *)
CheckData ==
  /\ Ready /\ env.state = "DATA_WRITE"
  /\ \E signed \in SignMode(env.new_ver.zone_id) :
     IF ~ota_check_zone_crc(env.base)
       THEN /\ env' = [env EXCEPT !.state = "DATA_VERIFY"] /\ result' = "refused"
            /\ UNCHANGED <<storeVars, cmd>>
       ELSE IF signed /\ \E m \in HeaderOf(env.base) : ~m.signed
         THEN result' = "refused" /\ UNCHANGED <<storeVars, env, cmd>>
         ELSE /\ Begin(Writing(env.base,
                   <<IF ota_mode = "overwrite" THEN OTA_OTA_VALID_FLAG ELSE OTA_EXEC_VALID_FLAG>>, 1))
              /\ cmd' = "verify" /\ UNCHANGED <<env, result>>
  /\ Same /\ UNCHANGED history

(* A command out of turn is refused. *)
OutOfTurn ==
  /\ Ready /\ env.state # "DATA_WRITE"
  /\ result' = "refused"
  /\ Same /\ UNCHANGED <<storeVars, env, cmd, history>>

-----------------------------------------------------------------------------
FlashStep ==
  /\ \/ (Advance \/ Settle) /\ UNCHANGED skipped
     \/ Skip /\ skipped' = TRUE
  /\ Same /\ UNCHANGED <<env, cmd, result, starts, writes, errors, resets>>

StateAfter(ok) ==
  CASE cmd = "start"  -> IF ok THEN "DATA_WRITE" ELSE "IDLE"
    [] cmd = "write"  -> env.state
    [] cmd = "verify" -> "DATA_VERIFY"

(* Data that came with a crc are read back; the crc of a packet whose       *)
(* padding was cut off is wrong.                                            *)
WriteAnswers ==
  IF /\ op.end < env.base + env.size
     /\ \A x \in op.first .. op.end - 1 : flash[x] = op.data[x - op.first + 1]
    THEN {"confirmed"} ELSE {"confirmed", "refused"}

(* The rest of the command once the flash operation has returned. *)
FlashOk ==
  /\ ReturnOk
  /\ env' = [env EXCEPT !.state = StateAfter(TRUE)]
  /\ result' \in IF cmd = "verify" THEN {"verify_confirm"}
                 ELSE IF cmd = "write" THEN WriteAnswers ELSE {"confirmed"}
  /\ cmd' = "none"
  /\ Same /\ UNCHANGED history

FlashFails ==
  /\ errors < MaxErrors /\ errors' = errors + 1
  /\ ReturnError
  /\ env' = [env EXCEPT !.state = StateAfter(FALSE)]
  /\ result' = "refused"
  /\ cmd' = "none"
  /\ Same /\ UNCHANGED <<skipped, starts, writes, resets>>

(* The statics are lost, and what the device was changing. *)
Reset ==
  /\ resets < MaxResets /\ resets' = resets + 1
  /\ \E cells \in SUBSET (late \cup Working) : flash' = Torn(flash, cells)
  /\ Stop
  /\ env' = ClearEnv /\ cmd' = "none" /\ result' = "none"
  /\ Same /\ UNCHANGED <<skipped, starts, writes, errors>>

OtaNext ==
  \/ Initialize \/ CheckVersion \/ StartOta \/ WriteData \/ CheckData \/ OutOfTurn
  \/ FlashStep \/ FlashOk \/ FlashFails \/ Reset

OtaSpec == OtaInit /\ [][OtaNext]_otaVars

-----------------------------------------------------------------------------
(* The zone is flagged, for good, and complete, and so can be run. *)
Runs(i) ==
  /\ Valid(i) /\ Complete(zones[i].address)
  /\ zones[i].address \notin late \cup Working

OtaTypeOK ==
  /\ env.state \in {"IDLE", "VERSION_CHECK", "DATA_WRITE", "DATA_VERIFY"}
  /\ cmd = "none" <=> op = NoOp
  /\ cmd # "none" => env.pConfig
  /\ env.state = "DATA_WRITE" => \E i \in ZoneNo : env.base = zones[i].address /\ env.base # 0
  /\ env.size \in {0} \cup Sizes

(* In switch mode an update never costs the newest image of any zone id     *)
(* (ota_find_blank_zone): at every moment, with a reset, a loss of power or *)
(* a failing flash operation anywhere, what could be run before can be run  *)
(* or has given way to something newer.  If the flash lost a command this   *)
(* is not certain.                                                          *)
NewestSurvives ==
  [][ota_mode = "switch" /\ ~skipped' =>
       \A i \in ZoneNo : Runs(i) =>
         \E k \in ZoneNo : Runs(k)' /\ ZoneId(k)' = ZoneId(i) /\ Version(k)' >= Version(i)]_otaVars

(* A zone carries a valid flag only with all of its image behind it, which  *)
(* is what lets ota_check_sum be content with samples; START erases the     *)
(* flag first and OTA_OTA_VERIFY sets it last, and no reset comes between   *)
(* in a way that leaves it over anything else.                              *)
FlaggedIsComplete ==
  ~skipped => \A i \in ZoneNo :
    flash[zones[i].address] \in {OTA_EXEC_VALID_FLAG, OTA_OTA_VALID_FLAG} =>
      Complete(zones[i].address)

(* When OTA_OTA_VERIFY is confirmed in switch mode and the image is the one *)
(* announced, it is the image that ota_find_zone finds from then on.  START *)
(* with a size of zero is let in (ota.c:376), erases nothing, and may leave *)
(* something in the flag's place.                                           *)
ConfirmedIsFound ==
  result = "verify_confirm" /\ ota_mode = "switch" /\ ~skipped
    /\ env.size > 0 /\ flash[env.base + 1] = <<"header", env.new_ver>>
  => LET i == ota_find_zone(env.new_ver.zone_id)
     IN  i # 0 /\ zones[i].address = env.base

(* In overwrite mode nothing but the zone for updates is touched: the       *)
(* images in use stay as they are until the boot loader copies.             *)
OverwriteConfined ==
  [][ota_mode = "overwrite" =>
       \A x \in Addr : flash'[x] # flash[x] =>
         \E i \in ZoneNo : /\ zones[i].id = OTA_ZONE_ID_OTA
                           /\ x \in zones[i].address .. zones[i].address + zones[i].size - 1]_otaVars
=============================================================================

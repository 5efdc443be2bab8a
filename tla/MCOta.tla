------------------------------- MODULE MCOta -------------------------------
(***************************************************************************)
(* Ota with sectors of two cells, images of up to five, and devices with    *)
(* two or three zones besides the boot loader.                              *)
(***************************************************************************)
EXTENDS Ota

Image(id, v, n) == [zone_id |-> id, version |-> v, size |-> n, signed |-> v # 3]
Loader == Image(0, 1, 2)
Zone(id, a, n) == [id |-> id, address |-> a, size |-> n, signed |-> id = 1]
Files == {Image(1, 1, 4), Image(1, 2, 3), Image(1, 3, 4), Image(2, 1, 3), Image(2, 2, 3), Loader}

BootZone == Zone(0, 0, 2)

(* Two zones of one program; a program and a second one that share three;   *)
(* a program with a zone for updates.                                       *)
Products ==
  { [ota_mode |-> "switch",
     zones |-> <<BootZone, Zone(1, 2, 4), Zone(1, 6, 4)>>,
     holds |-> <<Loader, Image(1, 2, 3), Image(1, 1, 4)>>,
     sent  |-> {Image(1, 2, 3), Image(1, 3, 4)}],
    [ota_mode |-> "switch",
     zones |-> <<BootZone, Zone(1, 2, 4), Zone(2, 6, 4), Zone(1, 10, 4)>>,
     holds |-> <<Loader, Image(1, 2, 3), Image(2, 1, 3), Image(1, 1, 4)>>,
     sent  |-> {Image(2, 2, 3)}],
    [ota_mode |-> "overwrite",
     zones |-> <<BootZone, Zone(1, 2, 4), Zone(240, 6, 4)>>,
     holds |-> <<Loader, Image(1, 2, 3), [NoImage EXCEPT !.size = 0]>>,
     sent  |-> {Image(1, 1, 4), Image(2, 1, 3)}] }

Parts == [address : {0, 2, 4, 6}, length : {2}]
=============================================================================

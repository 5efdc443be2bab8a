------------------------------- MODULE MCBoot -------------------------------
(***************************************************************************)
(* Boot with images of three blocks, of which two are sampled.             *)
(***************************************************************************)
EXTENDS Boot

Img(kind, holds, mapped) ==
  [kind |-> kind, flag |-> kind = "ota", holds |-> holds, size |-> 3, mapped |-> mapped,
   fits |-> TRUE]
Plain == Img("plain", {}, FALSE)
Signed == Img("ota", {"NONE", "CRC32", "ECSDA256"}, FALSE)
Linked == Img("ota", {"NONE", "CRC32", "ECSDA256"}, TRUE)
Unsigned == Img("ota", {"NONE", "CRC32"}, FALSE)
Damaged == Img("ota", {"NONE"}, FALSE)
Draft == [Signed EXCEPT !.flag = FALSE]
Large == [Signed EXCEPT !.size = 2, !.fits = FALSE]
SomeImages == {Plain, Signed, Linked, Unsigned, Damaged, Draft, Large}

Cell(m, e) == [img |-> m, enc |-> e]
Flashes ==
  {0 :> a @@ 1 :> b :
     a \in {Cell(Plain, FALSE), Cell(Signed, FALSE), Cell(Linked, FALSE),
            Cell(Unsigned, TRUE), Cell(Draft, FALSE)},
     b \in {Cell(Linked, TRUE), Cell(Signed, FALSE), Cell(Damaged, TRUE), Cell(Draft, FALSE)}}

Card(present, wide, boot, images) ==
  [present |-> present, wide |-> wide, boot |-> boot, images |-> images]
Cards ==
  { Card(FALSE, FALSE, 0, <<>>), Card(TRUE, FALSE, 7, 7 :> Signed),
    Card(TRUE, TRUE, 7, 4 :> Damaged @@ 7 :> Signed), Card(TRUE, TRUE, 0, 4 :> Plain),
    Card(TRUE, TRUE, 7, 7 :> Large) }

Fuses ==
  [ap_disable : {FALSE}, protect : {FALSE}, offset : {0, 1},
   secure : {"NONE", "CRC32", "ECSDA256"},
   option : {{"sd", "flash_too"}, {"sd_too", "4bit"}}] \cup
  [ap_disable : BOOLEAN, protect : BOOLEAN, offset : {1}, secure : {"CRC32"},
   option : {{"sd"}, {}}]

SomeDevices ==
  [fuse : Fuses, cell : Flashes, card : Cards, wake : {FALSE}] \cup
  [fuse : {CHOOSE f \in Fuses : TRUE}, cell : {CHOOSE c \in Flashes : TRUE},
   card : {CHOOSE c \in Cards : TRUE}, wake : {TRUE}]
=============================================================================

----------------------------- MODULE BootProofs -----------------------------
(***************************************************************************)
(* The two ways an image gets to run: the device's own decision to boot    *)
(* (module Boot), and the commands of a host over the serial line (module  *)
(* SerialFrame), which load one.                                           *)
(*                                                                         *)
(* Of Boot, for any devices, images and sizes: what runs is the whole of   *)
(* an image that was verified, and the upgrade is offered only when no     *)
(* source has one.  Neither is inductive.  What is missing is, for the     *)
(* first, that the blocks in memory are always a prefix of one image of    *)
(* the card, with the counters of the loop in step with it, and that the   *)
(* region decrypts only what an earlier header asked for; for the second,  *)
(* what the sources that were given up have been found to hold.            *)
(*                                                                         *)
(* Of SerialFrame, for any packets and sizes and however the bytes come    *)
(* in: over a line that damages nothing each packet is dealt with once and *)
(* whole; and over any line nothing is received into an answer, although   *)
(* an abort may leave the channel running.  For the first the turns of the *)
(* parser are followed through a frame, by induction over its bytes, and   *)
(* the bytes of the frame through the places they can be in.  For the      *)
(* second, a channel that runs while the driver is not busy is behind the  *)
(* first block.                                                            *)
(***************************************************************************)
EXTENDS Boot, SerialFrame, WellFoundedInduction, SequenceTheorems, TLAPS

(* Where main stands, in the flash and on the card.                         *)
BootLabel ==
  {"start", "main", "asked", "halted", "source", "upgrade", "flash", "header", "original",
   "sd", "mbr", "block", "load", "running"}
FromFlash == {"flash", "header", "original"}
FromCard == {"sd", "mbr", "block", "load"}

(* The flash, or the card, has been given up.                               *)
FlashPassed == at \in {"source", "upgrade"} \cup FromCard /\ todo \in {<<>>, <<"sd">>}
CardPassed == at \in {"source", "upgrade"} \cup FromFlash /\ todo \in {<<>>, <<"flash">>}

(* The sources still to be tried, and that only a header that was found     *)
(* encrypted makes the region decrypt.                                      *)
PlanOK ==
  /\ board \in Devices /\ at \in BootLabel
  /\ todo \in {<<>>, <<"sd">>, <<"flash">>, <<"sd", "flash">>, <<"flash", "sd">>}
  /\ at \in FromFlash => todo \in {<<"flash">>, <<"flash", "sd">>}
  /\ at \in FromCard => todo \in {<<"sd">>, <<"sd", "flash">>}
  /\ at = "upgrade" => todo = <<>>
  /\ at \in {"start", "main"} => todo = <<>> /\ pins = "flash"
  /\ region = FALSE \/ at \in {"original", "running"} \/ FlashPassed
  /\ at = "original" /\ fuse.offset = 0 => region = FALSE
  /\ at \notin {"start", "main", "asked", "halted", "running"} =>
       /\ "sd" \notin fuse.option => todo # <<"sd", "flash">>
       /\ "sd" \notin fuse.option /\ todo \in {<<"flash">>, <<"flash", "sd">>} => pins = "flash"

(* Where the image of the card is, and its first blocks.                    *)
First == IF board.card.boot = 0 THEN SDCARD_IMAGE_OFFSET_SECTOR ELSE board.card.boot
Prefix(m, k) == [i \in 1 .. k |-> <<m, i>>]

(* The first blocks of the image that starts in a sector have been loaded.  *)
LoadingFrom(a, k) ==
  LET m == board.card.images[a]
  IN  /\ k \in 1 .. m.size
      /\ ram = Prefix(m, k) /\ remaining = m.size - k /\ sector = a + k
      /\ m.kind = "plain" => fuse.secure = "NONE"
      /\ ~faulty => a = First

(* The card that is read, and how far.                                      *)
CardOK ==
  /\ at \in {"mbr", "block", "load"} =>
       board.card.present /\ ("4bit" \in fuse.option => board.card.wide)
  /\ at = "block" => sector \in Nat /\ (~faulty => sector = First)
  /\ at = "load" => \E a \in DOMAIN board.card.images :
       \E k \in 1 .. board.card.images[a].size : LoadingFrom(a, k)

(* What has been found of the sources and headers that were tried.          *)
TriedOK ==
  /\ at = "header" => fuse.offset > 0
  /\ at \in {"header", "original"} => ~(fuse.secure = "NONE" /\ HeaderOk(View(0, FALSE)))
  /\ at = "original" /\ fuse.offset > 0 =>
       ~(Good(board.cell[fuse.offset].img) /\ board.cell[fuse.offset].img.kind = "ota")
  /\ ~faulty /\ CardPassed /\ {"sd", "sd_too"} \cap fuse.option # {} => ~Bootable("sd")
  /\ ~faulty /\ FlashPassed /\ "sd" \notin fuse.option => ~Bootable("flash")

BootInv == PlanOK /\ CardOK /\ TriedOK /\ RunIsVerified

-----------------------------------------------------------------------------
(* What is known of the devices.                                            *)
LEMMA BoardIs ==
  ASSUME board \in Devices
  PROVE  /\ fuse.offset \in Nat /\ First \in Nat
         /\ \A p \in {0, fuse.offset} : board.cell[p].img \in BootImages /\ board.cell[p].enc \in BOOLEAN
         /\ \A a \in DOMAIN board.card.images : a \in Nat /\ board.card.images[a] \in BootImages
         /\ Apart(board.card.images)
         /\ \A m \in BootImages : m.kind \in {"plain", "ota"} /\ m.size \in Nat \ {0}
  BY BootAssumption DEF fuse, First

(* A whole image begins with its own first block, garbage with none.        *)
LEMMA FirstBlock ==
  ASSUME NEW m \in BootImages, NEW n \in BootImages
  PROVE  /\ Whole(m)[1] = <<m, 1>>
         /\ Whole(m)[1] = <<n, 1>> <=> n = m
         /\ Unreadable[1] # <<n, 1>>
<1>1. m.size \in Nat \ {0}
  BY BootAssumption
<1>2. Whole(m)[1] = <<m, 1>>
  BY <1>1 DEF Whole
<1>3. Unreadable[1] = <<"garbage">>
  BY DEF Unreadable
<1>4. Len(<<"garbage">>) = 1 /\ Len(<<n, 1>>) = 2
  OBVIOUS
<1>5. QED
  BY <1>2, <1>3, <1>4

(* What a header says of a place of the flash.                              *)
LEMMA HeaderOfView ==
  ASSUME board \in Devices, NEW p \in {0, fuse.offset}, NEW d \in BOOLEAN
  PROVE  LET c == board.cell[p] IN
         /\ HeaderOk(View(p, d)) <=> c.enc = d /\ c.img.kind = "plain"
         /\ Flagged(View(p, d)) <=> c.enc = d /\ c.img.kind = "ota" /\ c.img.flag
         /\ \A mode : Verified(View(p, d), mode) <=> c.enc = d /\ mode \in c.img.holds
         /\ c.enc = d => View(p, d) = Whole(c.img)
         /\ c.enc # d => View(p, d) = Unreadable
<1> DEFINE c == board.cell[p]
<1>1. c.img \in BootImages /\ c.img.size \in Nat \ {0}
  BY BoardIs
<1>2. CASE c.enc = d
  <2>1. View(p, d) = Whole(c.img)
    BY <1>2 DEF View
  <2>2. \A m \in BootImages : View(p, d)[1] = <<m, 1>> <=> m = c.img
    BY <1>1, <2>1, FirstBlock
  <2>3. \A i \in 1 .. c.img.size : View(p, d)[i] = <<c.img, i>>
    BY <2>1 DEF Whole
  <2>4. HeaderOk(View(p, d)) <=> c.img.kind = "plain"
    BY <1>1, <2>2 DEF HeaderOk, Has
  <2>5. Flagged(View(p, d)) <=> c.img.kind = "ota" /\ c.img.flag
    BY <1>1, <2>2 DEF Flagged, Has
  <2>6. \A mode : Verified(View(p, d), mode) <=> mode \in c.img.holds
    BY <1>1, <2>1, <2>2, <2>3 DEF Verified
  <2>7. QED
    BY <1>2, <2>1, <2>4, <2>5, <2>6
<1>3. CASE c.enc # d
  <2>1. View(p, d) = Unreadable
    BY <1>3 DEF View
  <2>2. \A m \in BootImages : View(p, d)[1] # <<m, 1>>
    BY <2>1, FirstBlock
  <2>3. ~HeaderOk(View(p, d)) /\ ~Flagged(View(p, d))
    BY <2>2 DEF HeaderOk, Flagged, Has
  <2>4. \A mode : ~Verified(View(p, d), mode)
    BY <2>2 DEF Verified
  <2>5. QED
    BY <1>3, <2>1, <2>3, <2>4
<1>4. QED
  BY <1>2, <1>3

(* The images of the card do not overlap: a sector is of one of them.       *)
LEMMA BlockAt ==
  ASSUME board \in Devices, NEW a \in DOMAIN board.card.images,
         NEW i \in 1 .. board.card.images[a].size
  PROVE  Block(a + i - 1) = <<board.card.images[a], i>>
<1> DEFINE images == board.card.images
           s == a + i - 1
           S == {b \in DOMAIN images : s \in b .. b + images[b].size - 1}
<1>1. \A b \in DOMAIN images : b \in Nat /\ images[b].size \in Nat \ {0}
  BY BoardIs
<1>2. \A b, c \in DOMAIN images : c \in b .. b + images[b].size - 1 => c = b
  BY BoardIs DEF Apart
<1>3. a \in S
  BY <1>1
<1>4. ASSUME NEW b \in S PROVE b = a
  <2>1. b \in DOMAIN images /\ b <= s /\ s <= b + images[b].size - 1
        /\ a <= s /\ s <= a + images[a].size - 1
    BY <1>1, <1>4
  <2>2. CASE a <= b
    <3>1. b \in a .. a + images[a].size - 1
      BY <1>1, <2>1, <2>2
    <3>2. QED
      BY <1>2, <2>1, <3>1
  <2>3. CASE b <= a
    <3>1. a \in b .. b + images[b].size - 1
      BY <1>1, <2>1, <2>3
    <3>2. QED
      BY <1>2, <2>1, <3>1
  <2>4. QED
    BY <1>1, <2>1, <2>2, <2>3
<1>5. (CHOOSE b \in S : TRUE) = a
  BY <1>3, <1>4
<1>6. Block(s) = IF S = {} THEN <<"garbage">>
                 ELSE <<images[CHOOSE b \in S : TRUE], s - (CHOOSE b \in S : TRUE) + 1>>
  BY DEF Block
<1>7. s - a + 1 = i
  BY <1>1
<1>8. QED
  BY <1>3, <1>5, <1>6, <1>7

(* A sector that holds a first block is where that image starts.            *)
LEMMA BlockFirst ==
  ASSUME board \in Devices, NEW s \in Nat, NEW m \in BootImages, Block(s) = <<m, 1>>
  PROVE  s \in DOMAIN board.card.images /\ board.card.images[s] = m
<1> DEFINE images == board.card.images
           S == {b \in DOMAIN images : s \in b .. b + images[b].size - 1}
           a == CHOOSE b \in S : TRUE
<1>1. Block(s) = IF S = {} THEN <<"garbage">> ELSE <<images[a], s - a + 1>>
  BY DEF Block
<1>2. S # {}
  <2>1. <<"garbage">> # <<m, 1>>
    <3>1. Len(<<"garbage">>) = 1 /\ Len(<<m, 1>>) = 2
      OBVIOUS
    <3>2. QED
      BY <3>1
  <2>2. QED
    BY <1>1, <2>1
<1>3. a \in S
  BY <1>2
<1>4. a \in DOMAIN images /\ a \in Nat
  BY <1>3, BoardIs
<1>5. images[a] = m /\ s - a + 1 = 1
  BY <1>1, <1>2
<1>6. s = a
  BY <1>4, <1>5
<1>7. QED
  BY <1>4, <1>5, <1>6

(* What has been loaded of an image: its header is that of the image, one   *)
(* block more makes the next prefix, and the last one is the whole.         *)
LEMMA PrefixIs ==
  ASSUME NEW m \in BootImages, NEW k \in 1 .. m.size
  PROVE  /\ HeaderOk(Prefix(m, k)) <=> m.kind = "plain"
         /\ Flagged(Prefix(m, k)) <=> m.kind = "ota" /\ m.flag
         /\ Has(Prefix(m, k), LAMBDA n : n.fits) <=> m.fits
         /\ SizeOf(Prefix(m, k)) = m.size
         /\ k < m.size => Append(Prefix(m, k), <<m, k + 1>>) = Prefix(m, k + 1)
         /\ Prefix(m, m.size) = Whole(m)
         /\ <<<<m, 1>>>> = Prefix(m, 1)
         /\ \A mode : Verified(Whole(m), mode) <=> mode \in m.holds
<1>0. m.size \in Nat \ {0}
  BY BootAssumption
<1>1. \A n \in BootImages : Prefix(m, k)[1] = <<n, 1>> <=> n = m
  <2>1. Prefix(m, k)[1] = <<m, 1>>
    BY <1>0 DEF Prefix
  <2>2. QED
    BY <2>1
<1>2. HeaderOk(Prefix(m, k)) <=> m.kind = "plain"
  BY <1>1 DEF HeaderOk, Has
<1>3. Flagged(Prefix(m, k)) <=> m.kind = "ota" /\ m.flag
  BY <1>1 DEF Flagged, Has
<1>4. Has(Prefix(m, k), LAMBDA n : n.fits) <=> m.fits
  BY <1>1 DEF Has
<1>5. SizeOf(Prefix(m, k)) = m.size
  <2>1. (CHOOSE n \in BootImages : Prefix(m, k)[1] = <<n, 1>>) = m
    BY <1>1
  <2>2. QED
    BY <2>1 DEF SizeOf
<1>6. k < m.size => Append(Prefix(m, k), <<m, k + 1>>) = Prefix(m, k + 1)
  BY <1>0 DEF Prefix
<1>7. Prefix(m, m.size) = Whole(m)
  BY DEF Prefix, Whole
<1>8. <<<<m, 1>>>> = Prefix(m, 1)
  <2>1. Prefix(m, 1) = [i \in 1 .. 1 |-> <<m, i>>]
    BY DEF Prefix
  <2>2. QED
    BY <2>1
<1>9. \A mode : Verified(Whole(m), mode) <=> mode \in m.holds
  <2>1. \A n \in BootImages : Whole(m)[1] = <<n, 1>> <=> n = m
    BY FirstBlock
  <2>2. \A i \in 1 .. m.size : Whole(m)[i] = <<m, i>>
    BY DEF Whole
  <2>3. QED
    BY <2>1, <2>2 DEF Verified
<1>10. QED
  BY <1>2, <1>3, <1>4, <1>5, <1>6, <1>7, <1>8, <1>9

(* What is said of the board alone does not change with the rest.           *)
LEMMA SameBoard ==
  board' = board =>
    /\ fuse' = fuse
    /\ First' = First
    /\ MappedElsewhere' <=> MappedElsewhere
    /\ Bootable("sd")' <=> Bootable("sd")
    /\ Bootable("flash")' <=> Bootable("flash")
    /\ HeaderOk(View(0, FALSE))' <=> HeaderOk(View(0, FALSE))
    /\ \A m : Good(m)' <=> Good(m)
<1> SUFFICES ASSUME board' = board
    PROVE  /\ fuse' = fuse /\ First' = First /\ (MappedElsewhere' <=> MappedElsewhere)
           /\ (Bootable("sd")' <=> Bootable("sd")) /\ (Bootable("flash")' <=> Bootable("flash"))
           /\ (HeaderOk(View(0, FALSE))' <=> HeaderOk(View(0, FALSE)))
           /\ \A m : Good(m)' <=> Good(m)
  OBVIOUS
<1>1. fuse' = fuse
  BY DEF fuse
<1>2. First' = First
  BY DEF First
<1>3. MappedElsewhere' <=> MappedElsewhere
  BY DEF MappedElsewhere, Has, View, fuse
<1>4. \A m : Good(m)' <=> Good(m)
  BY <1>1 DEF Good
<1>5. Bootable("sd")' <=> Bootable("sd")
  BY <1>1 DEF Bootable, Good
<1>6. Bootable("flash")' <=> Bootable("flash")
  BY <1>1 DEF Bootable, Good
<1>7. HeaderOk(View(0, FALSE))' <=> HeaderOk(View(0, FALSE))
  BY DEF HeaderOk, Has, View
<1>8. QED
  BY <1>1, <1>2, <1>3, <1>4, <1>5, <1>6, <1>7

(* A plan without its first source.                                         *)
LEMMA TailOfPlan ==
  /\ Tail(<<"sd">>) = <<>> /\ Tail(<<"flash">>) = <<>>
  /\ Tail(<<"sd", "flash">>) = <<"flash">> /\ Tail(<<"flash", "sd">>) = <<"sd">>
  /\ Head(<<"sd">>) = "sd" /\ Head(<<"flash">>) = "flash"
  /\ Head(<<"sd", "flash">>) = "sd" /\ Head(<<"flash", "sd">>) = "flash"
  /\ <<"sd">> # <<>> /\ <<"flash">> # <<>> /\ <<"sd">> # <<"flash">>
  /\ <<"sd", "flash">> # <<>> /\ <<"flash", "sd">> # <<>>
  /\ <<"sd", "flash">> # <<"flash", "sd">>
  /\ <<"sd">> # <<"sd", "flash">> /\ <<"flash">> # <<"sd", "flash">>
  /\ <<"sd">> # <<"flash", "sd">> /\ <<"flash">> # <<"flash", "sd">>
  OBVIOUS

(* Two sequences of one element, one after the other.                       *)
LEMMA TwoInOrder ==
  ASSUME NEW a, NEW b
  PROVE  <<a>> \o <<b>> = <<a, b>>
<1>1. Len(<<a>> \o <<b>>) = 2 /\ Len(<<a, b>>) = 2
  OBVIOUS
<1>2. (<<a>> \o <<b>>)[1] = a /\ (<<a>> \o <<b>>)[2] = b
  OBVIOUS
<1>3. <<a>> \o <<b>> \in Seq({a, b}) /\ <<a, b>> \in Seq({a, b})
  OBVIOUS
<1>4. Len(<<a>> \o <<b>>) = Len(<<a, b>>)
  BY <1>1
<1>5. \A i \in 1 .. Len(<<a>> \o <<b>>) : (<<a>> \o <<b>>)[i] = <<a, b>>[i]
  BY <1>1, <1>2
<1>6. QED
  BY <1>3, <1>4, <1>5, SeqEqual, Zenon

(* The plans that main can make.                                            *)
LEMMA PlanIs ==
  ASSUME NEW option
  PROVE  Sources(option) =
           IF "sd" \in option THEN IF "flash_too" \in option THEN <<"sd", "flash">> ELSE <<"sd">>
           ELSE IF "sd_too" \in option THEN <<"flash", "sd">> ELSE <<"flash">>
<1>1. <<"sd">> \in Seq({"sd", "flash"}) /\ <<"flash">> \in Seq({"sd", "flash"})
  OBVIOUS
<1>2. <<"sd">> \o <<>> = <<"sd">> /\ <<"flash">> \o <<>> = <<"flash">>
  BY <1>1, ConcatEmptySeq, Zenon
<1>3. <<"sd">> \o <<"flash">> = <<"sd", "flash">>
  BY TwoInOrder
<1>4. <<"flash">> \o <<"sd">> = <<"flash", "sd">>
  BY TwoInOrder
<1>5. QED
  BY <1>2, <1>3, <1>4 DEF Sources

(* The card is given up: it held nothing to run, or something has failed.   *)
LEMMA CardGivenUp ==
  ASSUME BootInv, at \in FromCard, NextSource, board' = board, region' = region,
         faulty => faulty', ~faulty' => ~Bootable("sd")
  PROVE  BootInv'
<1>a. /\ fuse' = fuse /\ (Bootable("sd")' <=> Bootable("sd"))
      /\ (Bootable("flash")' <=> Bootable("flash"))
  BY SameBoard
<1> USE TailOfPlan
<1>1. todo \in {<<"sd">>, <<"sd", "flash">>} /\ todo' = Tail(todo) /\ at' = "source"
  BY DEF BootInv, PlanOK, NextSource
<1>2. PlanOK'
  BY <1>a, <1>1 DEF BootInv, PlanOK, BootLabel, FromFlash, FromCard, FlashPassed
<1>3. CardOK' /\ RunIsVerified'
  BY <1>1 DEF CardOK, RunIsVerified
<1>4. FlashPassed' /\ "sd" \notin fuse.option => FlashPassed
  BY <1>1 DEF FlashPassed, FromCard
<1>5. TriedOK'
  <2>1. ~faulty' /\ CardPassed' /\ {"sd", "sd_too"} \cap fuse'.option # {} => ~Bootable("sd")'
    BY <1>a, <1>1, <1>4 DEF BootInv, TriedOK
  <2>2. ~faulty' /\ FlashPassed' /\ "sd" \notin fuse'.option => ~Bootable("flash")'
    BY <1>a, <1>1, <1>4 DEF BootInv, TriedOK
  <2>3. QED
    BY <1>1, <2>1, <2>2 DEF TriedOK
<1>6. QED
  BY <1>2, <1>3, <1>5 DEF BootInv

(* The flash is given up, for the same reasons.                             *)
LEMMA FlashGivenUp ==
  ASSUME BootInv, at \in FromFlash, NextSource, board' = board, pins' = pins,
         faulty => faulty', ~faulty' /\ "sd" \notin fuse.option => ~Bootable("flash")
  PROVE  BootInv'
<1>a. /\ fuse' = fuse /\ (Bootable("sd")' <=> Bootable("sd"))
      /\ (Bootable("flash")' <=> Bootable("flash"))
  BY SameBoard
<1> USE TailOfPlan
<1>1. todo \in {<<"flash">>, <<"flash", "sd">>} /\ todo' = Tail(todo) /\ at' = "source"
  BY DEF BootInv, PlanOK, NextSource
<1>2. PlanOK'
  BY <1>a, <1>1 DEF BootInv, PlanOK, BootLabel, FromFlash, FromCard, FlashPassed
<1>3. CardOK' /\ RunIsVerified'
  BY <1>1 DEF CardOK, RunIsVerified
<1>4. CardPassed' => CardPassed
  BY <1>1 DEF CardPassed, FromFlash
<1>5. TriedOK'
  <2>1. ~faulty' /\ CardPassed' /\ {"sd", "sd_too"} \cap fuse'.option # {} => ~Bootable("sd")'
    BY <1>a, <1>1, <1>4 DEF BootInv, TriedOK
  <2>2. ~faulty' /\ FlashPassed' /\ "sd" \notin fuse'.option => ~Bootable("flash")'
    BY <1>a, <1>1, <1>4 DEF BootInv, TriedOK
  <2>3. QED
    BY <1>1, <2>1, <2>2 DEF TriedOK
<1>6. QED
  BY <1>2, <1>3, <1>5 DEF BootInv

(* Contents that satisfy what the fuses ask for are run.                    *)
LEMMA RunKeeps ==
  ASSUME BootInv, NEW blocks, Run(blocks), board' = board, todo' = todo,
         ~MappedElsewhere =>
           \/ blocks = Resumed
           \/ \E m \in BootImages :
                /\ blocks = Whole(m)
                /\ IF m.kind = "plain" THEN fuse.secure = "NONE" ELSE fuse.secure \in m.holds
  PROVE  BootInv'
<1>a. fuse' = fuse /\ (MappedElsewhere' <=> MappedElsewhere)
  BY SameBoard
<1>1. at' = "running" /\ running' = blocks
  BY DEF Run
<1>2. PlanOK' /\ CardOK' /\ TriedOK'
  BY <1>1 DEF BootInv, PlanOK, CardOK, TriedOK, BootLabel, FromFlash, FromCard,
       FlashPassed, CardPassed
<1>3. RunIsVerified'
  BY <1>a, <1>1 DEF RunIsVerified
<1>4. QED
  BY <1>2, <1>3 DEF BootInv

-----------------------------------------------------------------------------
(* A program asleep is resumed, or main starts.                             *)
LEMMA WakeupKeeps == BootInv /\ Wakeup => BootInv'
<1> SUFFICES ASSUME BootInv, Wakeup PROVE BootInv'
  OBVIOUS
<1> USE TailOfPlan
<1>0. board' = board /\ todo' = todo
  BY DEF Wakeup, Keep
<1>1. CASE board.wake
  BY <1>0, <1>1, RunKeeps DEF Wakeup
<1>2. CASE ~board.wake
  BY <1>0, <1>2 DEF Wakeup, BootInv, PlanOK, CardOK, TriedOK, RunIsVerified, BootLabel,
       FromFlash, FromCard, FlashPassed, CardPassed
<1>3. QED
  BY <1>1, <1>2

(* The plan that main makes has every source the fuses name.                *)
LEMMA MainKeeps == BootInv /\ Main => BootInv'
<1> SUFFICES ASSUME BootInv, Main PROVE BootInv'
  OBVIOUS
<1> USE TailOfPlan
<1>0. board' = board /\ at = "main" /\ pins' = pins /\ region' = region /\ pins = "flash"
  BY DEF Main, Keep, BootInv, PlanOK
<1>a. /\ fuse' = fuse /\ (Bootable("sd")' <=> Bootable("sd"))
      /\ (Bootable("flash")' <=> Bootable("flash"))
  BY <1>0, SameBoard
<1>1. CASE at' \in {"asked", "halted"} /\ todo' = todo
  BY <1>0, <1>a, <1>1 DEF BootInv, PlanOK, CardOK, TriedOK, RunIsVerified, BootLabel, FromFlash,
       FromCard, FlashPassed, CardPassed
<1>2. CASE at' = "source" /\ todo' = Sources(fuse.option)
  <2>1. todo' = IF "sd" \in fuse.option
                  THEN IF "flash_too" \in fuse.option THEN <<"sd", "flash">> ELSE <<"sd">>
                  ELSE IF "sd_too" \in fuse.option THEN <<"flash", "sd">> ELSE <<"flash">>
    BY <1>2, PlanIs
  <2>2. region' = FALSE
    BY <1>0 DEF BootInv, PlanOK, FlashPassed, FromCard
  <2>3. PlanOK'
    BY <1>0, <1>a, <1>2, <2>1, <2>2 DEF BootInv, PlanOK, BootLabel, FromFlash, FromCard
  <2>4. CardOK' /\ RunIsVerified'
    BY <1>2 DEF CardOK, RunIsVerified
  <2>5. TriedOK'
    BY <1>0, <1>a, <1>2, <2>1 DEF TriedOK, FlashPassed, CardPassed
  <2>6. QED
    BY <2>3, <2>4, <2>5 DEF BootInv
<1>3. QED
  BY <1>1, <1>2 DEF Main

(* The next source is taken up, or the upgrade offered.                     *)
LEMMA SourceKeeps == BootInv /\ Source => BootInv'
<1> SUFFICES ASSUME BootInv, Source PROVE BootInv'
  OBVIOUS
<1> USE TailOfPlan
<1>0. /\ board' = board /\ at = "source" /\ todo' = todo /\ pins' = pins /\ region' = region
      /\ faulty' = faulty
      /\ at' = IF todo = <<>> THEN "upgrade" ELSE Head(todo)
  BY DEF Source, Keep
<1>a. /\ fuse' = fuse /\ (Bootable("sd")' <=> Bootable("sd"))
      /\ (Bootable("flash")' <=> Bootable("flash"))
  BY <1>0, SameBoard
<1>1. at' \in {"upgrade", "flash", "sd"}
  BY <1>0 DEF BootInv, PlanOK
<1>2. PlanOK'
  BY <1>0, <1>a, <1>1 DEF BootInv, PlanOK, BootLabel, FromFlash, FromCard, FlashPassed
<1>3. CardOK' /\ RunIsVerified'
  BY <1>1 DEF CardOK, RunIsVerified
<1>4. (FlashPassed' => FlashPassed) /\ (CardPassed' => CardPassed)
  BY <1>0 DEF FlashPassed, CardPassed
<1>5. TriedOK'
  <2>1. ~faulty' /\ CardPassed' /\ {"sd", "sd_too"} \cap fuse'.option # {} => ~Bootable("sd")'
    BY <1>0, <1>a, <1>4 DEF BootInv, TriedOK
  <2>2. ~faulty' /\ FlashPassed' /\ "sd" \notin fuse'.option => ~Bootable("flash")'
    BY <1>0, <1>a, <1>4 DEF BootInv, TriedOK
  <2>3. QED
    BY <1>1, <2>1, <2>2 DEF TriedOK
<1>6. QED
  BY <1>2, <1>3, <1>5 DEF BootInv

-----------------------------------------------------------------------------
(* A plain image at the start of the flash is run when nothing is asked of  *)
(* it; otherwise its header is looked for.                                  *)
LEMMA FlashInitKeeps == BootInv /\ FlashInit => BootInv'
<1> SUFFICES ASSUME BootInv, FlashInit PROVE BootInv'
  OBVIOUS
<1> USE TailOfPlan
<1>0. /\ board \in Devices /\ board' = board /\ at = "flash" /\ at \in FromFlash
      /\ pins' = pins /\ region' = region
      /\ todo \in {<<"flash">>, <<"flash", "sd">>}
  BY DEF FlashInit, Keep, BootInv, PlanOK, FromFlash
<1>a. /\ fuse' = fuse /\ (Bootable("sd")' <=> Bootable("sd"))
      /\ (Bootable("flash")' <=> Bootable("flash"))
      /\ (HeaderOk(View(0, FALSE))' <=> HeaderOk(View(0, FALSE)))
  BY <1>0, SameBoard
<1>1. CASE /\ fuse.secure = "NONE" /\ HeaderOk(View(0, FALSE))
           /\ Run(View(0, FALSE)) /\ UNCHANGED todo
  <2>1. View(0, FALSE) = Whole(board.cell[0].img) /\ board.cell[0].img.kind = "plain"
        /\ board.cell[0].img \in BootImages
    BY <1>0, <1>1, HeaderOfView, BoardIs
  <2>2. QED
    BY <1>0, <1>1, <2>1, RunKeeps
<1>2. CASE /\ ~(fuse.secure = "NONE" /\ HeaderOk(View(0, FALSE)))
           /\ at' = (IF fuse.offset > 0 THEN "header" ELSE "original")
           /\ UNCHANGED <<todo, running>> /\ faulty' = faulty
  <2>1. fuse.offset \in Nat
    BY <1>0, BoardIs
  <2>2. region = FALSE
    BY <1>0 DEF BootInv, PlanOK, FlashPassed, FromCard
  <2>3. PlanOK'
    BY <1>0, <1>a, <1>2, <2>2 DEF BootInv, PlanOK, BootLabel, FromFlash, FromCard
  <2>4. CardOK' /\ RunIsVerified'
    BY <1>2 DEF CardOK, RunIsVerified
  <2>5. ~faulty' /\ CardPassed' /\ {"sd", "sd_too"} \cap fuse'.option # {} => ~Bootable("sd")'
    BY <1>0, <1>a, <1>2 DEF BootInv, TriedOK, CardPassed, FromFlash
  <2>6. ~FlashPassed'
    BY <1>2 DEF FlashPassed, FromCard
  <2>7. ~(fuse.secure = "NONE" /\ HeaderOk(View(0, FALSE)))'
    BY <1>a, <1>2
  <2>8. at' = "header" => fuse'.offset > 0
    BY <1>a, <1>2
  <2>9. at' = "original" => ~(fuse'.offset > 0)
    BY <1>a, <1>2, <2>1
  <2>10. TriedOK'
    BY <1>2, <2>5, <2>6, <2>7, <2>8, <2>9 DEF TriedOK
  <2>11. QED
    BY <2>3, <2>4, <2>10 DEF BootInv
<1>3. CASE pins = "sdio" /\ NextSource /\ UNCHANGED faulty
  <2>1. "sd" \in fuse.option
    BY <1>0, <1>3 DEF BootInv, PlanOK, FromFlash
  <2>2. QED
    BY <1>0, <1>3, <2>1, FlashGivenUp
<1>4. CASE NextSource /\ Failed
  BY <1>0, <1>4, FlashGivenUp DEF Failed
<1>5. QED
  BY <1>1, <1>2, <1>3, <1>4 DEF FlashInit

(* What flash_ota_header comes to at a place: when the header there, or the *)
(* encrypted one at the offset, is flagged and verified, the whole of that  *)
(* image is run - but for the case that MappedElsewhere names.              *)
LEMMA OtaHeaderRuns ==
  ASSUME BootInv, NEW p \in {0, fuse.offset}, at \in {"header", "original"},
         at = "header" => p = fuse.offset, at = "original" => p = 0,
         HeaderValid(View(p, FALSE),
                     IF Flagged(View(p, FALSE)) THEN View(p, FALSE) ELSE View(fuse.offset, TRUE)),
         NEW decrypted,
         decrypted = (IF Flagged(View(p, FALSE)) THEN region
                      ELSE Flagged(View(p, FALSE)) \/ Flagged(View(fuse.offset, TRUE)))
  PROVE  ~MappedElsewhere =>
           \E m \in BootImages :
             /\ Executed(IF Flagged(View(p, FALSE)) THEN View(p, FALSE)
                         ELSE View(fuse.offset, TRUE), decrypted) = Whole(m)
             /\ m.kind = "ota" /\ fuse.secure \in m.holds
<1> DEFINE plain == View(p, FALSE)
           blocks == IF Flagged(plain) THEN plain ELSE View(fuse.offset, TRUE)
<1> SUFFICES ASSUME ~MappedElsewhere
             PROVE  \E m \in BootImages :
                      /\ Executed(blocks, decrypted) = Whole(m)
                      /\ m.kind = "ota" /\ fuse.secure \in m.holds
  OBVIOUS
<1>0. board \in Devices /\ fuse.offset \in Nat
  BY BoardIs DEF BootInv, PlanOK
<1>1. Flagged(blocks) /\ Verified(blocks, fuse.secure)
  BY DEF HeaderValid
<1>2. CASE Flagged(plain)
  <2> DEFINE c == board.cell[p]
  <2>1. /\ c.enc = FALSE /\ c.img.kind = "ota" /\ fuse.secure \in c.img.holds
        /\ plain = Whole(c.img) /\ c.img \in BootImages
    BY <1>0, <1>1, <1>2, HeaderOfView, BoardIs
  <2>2. CASE Executed(blocks, decrypted) = blocks
    BY <1>2, <2>1, <2>2
  <2>3. CASE /\ Has(blocks, LAMBDA m : m.mapped)
             /\ Executed(blocks, decrypted) = View(fuse.offset, decrypted)
    <3>1. p = fuse.offset
      <4>1. CASE p = 0 /\ fuse.offset > 0
        BY <1>2, <2>3, <4>1 DEF MappedElsewhere
      <4>2. QED
        BY <1>0, <4>1
    <3>2. region = FALSE
      <4>1. CASE at = "header"
        BY <4>1 DEF BootInv, PlanOK, FlashPassed, FromCard
      <4>2. CASE at = "original"
        BY <3>1, <4>2 DEF BootInv, PlanOK
      <4>3. QED
        BY <4>1, <4>2
    <3>3. decrypted = FALSE
      BY <1>2, <3>2
    <3>4. QED
      BY <2>1, <2>3, <3>1, <3>3
  <2>4. QED
    BY <2>2, <2>3 DEF Executed
<1>3. CASE ~Flagged(plain)
  <2> DEFINE c == board.cell[fuse.offset]
  <2>1. blocks = View(fuse.offset, TRUE)
    BY <1>3
  <2>2. /\ c.enc = TRUE /\ c.img.kind = "ota" /\ fuse.secure \in c.img.holds
        /\ blocks = Whole(c.img) /\ c.img \in BootImages
    BY <1>0, <1>1, <2>1, HeaderOfView, BoardIs
  <2>3. decrypted = TRUE
    BY <1>1, <1>3, <2>1
  <2>4. Executed(blocks, decrypted) = Whole(c.img)
    BY <2>1, <2>2, <2>3 DEF Executed
  <2>5. QED
    BY <2>2, <2>4
<1>4. QED
  BY <1>2, <1>3

(* The header at the offset of the fuses, and then the one at the start.    *)
LEMMA HeaderAtOffsetKeeps == BootInv /\ HeaderAtOffset => BootInv'
<1> SUFFICES ASSUME BootInv, HeaderAtOffset PROVE BootInv'
  OBVIOUS
<1> DEFINE plain == View(fuse.offset, FALSE)
           blocks == IF Flagged(plain) THEN plain ELSE View(fuse.offset, TRUE)
           c == board.cell[fuse.offset]
<1>0. /\ board \in Devices /\ board' = board /\ at = "header" /\ pins' = pins
      /\ faulty' = faulty /\ todo \in {<<"flash">>, <<"flash", "sd">>}
      /\ fuse.offset > 0 /\ fuse.offset \in {0, fuse.offset} /\ fuse.offset \in Nat
  BY BoardIs DEF HeaderAtOffset, Keep, BootInv, PlanOK, FromFlash, TriedOK
<1>a. /\ fuse' = fuse /\ (Bootable("sd")' <=> Bootable("sd"))
      /\ (HeaderOk(View(0, FALSE))' <=> HeaderOk(View(0, FALSE)))
      /\ \A m : Good(m)' <=> Good(m)
  BY <1>0, SameBoard
<1>1. region' = IF Flagged(plain) THEN region ELSE Flagged(plain) \/ Flagged(View(fuse.offset, TRUE))
  BY DEF HeaderAtOffset, OtaHeader
<1>2. CASE HeaderValid(plain, blocks)
  <2>1. Run(Executed(blocks, region')) /\ todo' = todo
    BY <1>2 DEF HeaderAtOffset, OtaHeader
  <2>2. ~MappedElsewhere => \E m \in BootImages :
          /\ Executed(blocks, region') = Whole(m) /\ m.kind = "ota" /\ fuse.secure \in m.holds
    BY <1>0, <1>1, <1>2, OtaHeaderRuns
  <2>3. QED
    BY <1>0, <2>1, <2>2, RunKeeps
<1>3. CASE ~HeaderValid(plain, blocks)
  <2>1. at' = "original" /\ todo' = todo
    BY <1>3 DEF HeaderAtOffset, OtaHeader
  <2>2. PlanOK'
    BY <1>0, <1>a, <2>1 DEF BootInv, PlanOK, BootLabel, FromFlash, FromCard
  <2>3. CardOK' /\ RunIsVerified'
    BY <2>1 DEF CardOK, RunIsVerified
  <2>4. ~faulty' /\ CardPassed' /\ {"sd", "sd_too"} \cap fuse'.option # {} => ~Bootable("sd")'
    BY <1>0, <1>a, <2>1 DEF BootInv, TriedOK, CardPassed, FromFlash
  <2>5. ~FlashPassed'
    BY <2>1 DEF FlashPassed, FromCard
  <2>6. ~(fuse'.secure = "NONE" /\ HeaderOk(View(0, FALSE))')
    BY <1>0, <1>a DEF BootInv, TriedOK
  <2>7. ~(Good(c.img) /\ c.img.kind = "ota")
    <3>1. SUFFICES ASSUME Good(c.img), c.img.kind = "ota" PROVE HeaderValid(plain, blocks)
      BY <1>3
    <3>2. c.img.flag /\ fuse.secure \in c.img.holds /\ c.enc \in BOOLEAN
      BY <1>0, <3>1, BoardIs DEF Good
    <3>3. Flagged(blocks) /\ Verified(blocks, fuse.secure)
      BY <1>0, <3>1, <3>2, HeaderOfView
    <3>4. QED
      BY <3>3 DEF HeaderValid
  <2>8. ~(Good(board.cell[fuse.offset].img) /\ board.cell[fuse.offset].img.kind = "ota")'
    BY <1>0, <1>a, <2>7 DEF Good
  <2>9. TriedOK'
    BY <2>1, <2>4, <2>5, <2>6, <2>8 DEF TriedOK
  <2>10. QED
    BY <2>2, <2>3, <2>9 DEF BootInv
<1>4. QED
  BY <1>2, <1>3

(* After that one the flash is given up.                                    *)
LEMMA OriginalHeaderKeeps == BootInv /\ OriginalHeader => BootInv'
<1> SUFFICES ASSUME BootInv, OriginalHeader PROVE BootInv'
  OBVIOUS
<1> DEFINE plain == View(0, FALSE)
           blocks == IF Flagged(plain) THEN plain ELSE View(fuse.offset, TRUE)
           c == board.cell[0]
           o == board.cell[fuse.offset]
<1>0. /\ board \in Devices /\ board' = board /\ at = "original" /\ at \in FromFlash
      /\ pins' = pins /\ faulty' = faulty /\ 0 \in {0, fuse.offset}
      /\ fuse.offset \in Nat
  BY BoardIs DEF OriginalHeader, Keep, BootInv, PlanOK, FromFlash
<1>1. region' = IF Flagged(plain) THEN region ELSE Flagged(plain) \/ Flagged(View(fuse.offset, TRUE))
  BY DEF OriginalHeader, OtaHeader
<1>2. CASE HeaderValid(plain, blocks)
  <2>1. Run(Executed(blocks, region')) /\ todo' = todo
    BY <1>2 DEF OriginalHeader, OtaHeader
  <2>2. ~MappedElsewhere => \E m \in BootImages :
          /\ Executed(blocks, region') = Whole(m) /\ m.kind = "ota" /\ fuse.secure \in m.holds
    BY <1>0, <1>1, <1>2, OtaHeaderRuns
  <2>3. QED
    BY <1>0, <2>1, <2>2, RunKeeps
<1>3. CASE ~HeaderValid(plain, blocks)
  <2>1. NextSource
    BY <1>3 DEF OriginalHeader, OtaHeader
  <2>2. ~(fuse.secure = "NONE" /\ HeaderOk(plain))
    BY <1>0 DEF BootInv, TriedOK
  <2>3. fuse.offset > 0 => ~(Good(o.img) /\ o.img.kind = "ota")
    BY <1>0 DEF BootInv, TriedOK
  <2>4. c.img \in BootImages /\ c.img.kind \in {"plain", "ota"}
        /\ c.enc \in BOOLEAN
    BY <1>0, BoardIs
  <2>5. ~(Good(c.img) /\ c.enc = FALSE)
    <3>1. SUFFICES ASSUME Good(c.img), c.enc = FALSE PROVE FALSE
      OBVIOUS
    <3>2. CASE c.img.kind = "plain"
      BY <1>0, <2>2, <3>1, <3>2, HeaderOfView DEF Good
    <3>3. CASE c.img.kind = "ota"
      <4>1. c.img.flag /\ fuse.secure \in c.img.holds
        BY <3>1, <3>3 DEF Good
      <4>2. Flagged(plain) /\ Verified(plain, fuse.secure)
        BY <1>0, <3>1, <3>3, <4>1, HeaderOfView
      <4>3. QED
        BY <1>3, <4>2 DEF HeaderValid
    <3>4. QED
      BY <2>4, <3>2, <3>3
  <2>6. ~(fuse.offset = 0 /\ Good(o.img) /\ o.img.kind = "ota")
    <3>1. SUFFICES ASSUME fuse.offset = 0, Good(c.img), c.img.kind = "ota" PROVE FALSE
      OBVIOUS
    <3>2. c.enc = TRUE
      BY <2>4, <2>5, <3>1
    <3>3. c.img.flag /\ fuse.secure \in c.img.holds
      BY <3>1 DEF Good
    <3>4. ~Flagged(plain) /\ Flagged(View(0, TRUE)) /\ Verified(View(0, TRUE), fuse.secure)
      BY <1>0, <3>1, <3>2, <3>3, HeaderOfView
    <3>5. QED
      BY <1>3, <3>1, <3>4 DEF HeaderValid
  <2>7. ~Bootable("flash")
    BY <1>0, <2>3, <2>4, <2>5, <2>6 DEF Bootable
  <2>8. QED
    BY <1>0, <2>1, <2>7, FlashGivenUp
<1>4. QED
  BY <1>2, <1>3

-----------------------------------------------------------------------------
(* The card answers, or is given up.                                        *)
LEMMA ProbeKeeps == BootInv /\ Probe => BootInv'
<1> SUFFICES ASSUME BootInv, Probe PROVE BootInv'
  OBVIOUS
<1>0. /\ board' = board /\ at = "sd" /\ at \in FromCard /\ region' = region
      /\ todo \in {<<"sd">>, <<"sd", "flash">>}
  BY DEF Probe, Keep, BootInv, PlanOK, FromCard
<1>a. /\ fuse' = fuse /\ (Bootable("sd")' <=> Bootable("sd"))
      /\ (Bootable("flash")' <=> Bootable("flash"))
  BY <1>0, SameBoard
<1>1. CASE /\ board.card.present /\ ("4bit" \in fuse.option => board.card.wide)
           /\ at' = "mbr" /\ UNCHANGED <<todo, running, faulty>>
  <2>1. PlanOK'
    BY <1>0, <1>a, <1>1, TailOfPlan
       DEF BootInv, PlanOK, BootLabel, FromFlash, FromCard, FlashPassed
  <2>2. CardOK' /\ RunIsVerified'
    BY <1>0, <1>a, <1>1 DEF CardOK, RunIsVerified
  <2>3. ~CardPassed'
    BY <1>1 DEF CardPassed, FromFlash
  <2>4. FlashPassed' => FlashPassed
    BY <1>0, <1>1 DEF FlashPassed
  <2>5. ~faulty' /\ FlashPassed' /\ "sd" \notin fuse'.option => ~Bootable("flash")'
    BY <1>a, <1>1, <2>4 DEF BootInv, TriedOK
  <2>6. TriedOK'
    BY <1>1, <2>3, <2>5 DEF TriedOK
  <2>7. QED
    BY <2>1, <2>2, <2>6 DEF BootInv
<1>2. CASE NextSource /\ faulty' = (faulty \/ board.card.present)
  <2>1. faulty => faulty'
    BY <1>2
  <2>2. ~faulty' => ~Bootable("sd")
    BY <1>2 DEF Bootable
  <2>3. QED
    BY <1>0, <1>2, <2>1, <2>2, CardGivenUp
<1>3. QED
  BY <1>1, <1>2 DEF Probe

(* The first sector of the image, which a read error makes the default one. *)
LEMMA ReadMbrKeeps == BootInv /\ ReadMbr => BootInv'
<1> SUFFICES ASSUME BootInv, ReadMbr PROVE BootInv'
  OBVIOUS
<1>0. /\ board \in Devices /\ board' = board /\ at = "mbr" /\ at \in FromCard
      /\ region' = region /\ at' = "block" /\ todo' = todo /\ running' = running
      /\ pins' = pins /\ todo \in {<<"sd">>, <<"sd", "flash">>}
  BY DEF ReadMbr, Keep, BootInv, PlanOK, FromCard
<1>a. /\ fuse' = fuse /\ (Bootable("flash")' <=> Bootable("flash")) /\ First' = First
  BY <1>0, SameBoard
<1>1. (faulty => faulty') /\ (~faulty' => sector' = First)
  BY DEF ReadMbr, Failed, First
<1>2. sector' \in Nat
  BY <1>0, BoardIs, BootAssumption DEF ReadMbr, First
<1>3. PlanOK'
  BY <1>0, <1>a, TailOfPlan DEF BootInv, PlanOK, BootLabel, FromFlash, FromCard, FlashPassed
<1>4. CardOK' /\ RunIsVerified'
  BY <1>0, <1>a, <1>1, <1>2 DEF BootInv, CardOK, RunIsVerified
<1>5. ~CardPassed' /\ (FlashPassed' => FlashPassed)
  BY <1>0 DEF CardPassed, FlashPassed, FromFlash
<1>6. ~faulty' /\ FlashPassed' /\ "sd" \notin fuse'.option => ~Bootable("flash")'
  BY <1>a, <1>1, <1>5 DEF BootInv, TriedOK
<1>7. TriedOK'
  BY <1>0, <1>5, <1>6 DEF TriedOK
<1>8. QED
  BY <1>3, <1>4, <1>7 DEF BootInv

(* The first block is one that an image starts with, or the card is given   *)
(* up.                                                                      *)
LEMMA ReadHeaderKeeps == BootInv /\ ReadHeader => BootInv'
<1> SUFFICES ASSUME BootInv, ReadHeader PROVE BootInv'
  OBVIOUS
<1> DEFINE first == <<Block(sector)>>
           load == \/ fuse.secure = "NONE" /\ HeaderOk(first)
                   \/ Flagged(first) /\ Has(first, LAMBDA m : m.fits)
<1>0. /\ board \in Devices /\ board' = board /\ at = "block" /\ at \in FromCard
      /\ region' = region /\ pins' = pins /\ todo \in {<<"sd">>, <<"sd", "flash">>}
      /\ sector \in Nat /\ sector' = sector + 1 /\ (~faulty => sector = First)
  BY DEF ReadHeader, Keep, BootInv, PlanOK, CardOK, FromCard
<1>a. /\ fuse' = fuse /\ (Bootable("flash")' <=> Bootable("flash")) /\ First' = First
  BY <1>0, SameBoard
<1>b. first[1] = Block(sector)
  OBVIOUS
<1>1. CASE /\ load
           /\ ram' = first /\ remaining' = SizeOf(first) - 1 /\ retry' = Retries
           /\ at' = "load" /\ UNCHANGED <<todo, running, faulty>>
  <2>1. PICK m \in BootImages : Block(sector) = <<m, 1>>
    BY <1>1, <1>b DEF HeaderOk, Flagged, Has
  <2>2. PICK a \in DOMAIN board.card.images : a = sector /\ board.card.images[a] = m
    BY <1>0, <2>1, BlockFirst
  <2>3. m.size \in Nat \ {0} /\ first = Prefix(m, 1)
    <3>1. m.size \in Nat \ {0} /\ 1 \in 1 .. m.size
      BY BootAssumption
    <3>2. QED
      BY <2>1, <3>1, PrefixIs
  <2>4. m.kind = "plain" => fuse.secure = "NONE"
    <3>1. 1 \in 1 .. m.size
      BY <2>3
    <3>2. Flagged(first) => m.kind = "ota"
      BY <2>3, <3>1, PrefixIs
    <3>3. QED
      BY <1>1, <3>2
  <2>5. SizeOf(first) = m.size
    <3>1. 1 \in 1 .. m.size
      BY <2>3
    <3>2. QED
      BY <2>3, <3>1, PrefixIs
  <2>6. LoadingFrom(a, 1)'
    BY <1>0, <1>a, <1>1, <2>2, <2>3, <2>4, <2>5 DEF LoadingFrom
  <2>7. CardOK'
    <3>1. a \in DOMAIN board'.card.images /\ 1 \in 1 .. board'.card.images[a].size
      BY <1>0, <2>2, <2>3
    <3>2. \E b \in DOMAIN board'.card.images :
            \E k \in 1 .. board'.card.images[b].size : LoadingFrom(b, k)'
      BY <2>6, <3>1
    <3>3. board'.card.present /\ ("4bit" \in fuse'.option => board'.card.wide)
      BY <1>0, <1>a DEF BootInv, CardOK
    <3>4. QED
      BY <1>1, <3>2, <3>3 DEF CardOK
  <2>8. PlanOK'
    BY <1>0, <1>a, <1>1, TailOfPlan
       DEF BootInv, PlanOK, BootLabel, FromFlash, FromCard, FlashPassed
  <2>9. RunIsVerified'
    BY <1>1 DEF RunIsVerified
  <2>10. ~CardPassed' /\ (FlashPassed' => FlashPassed)
    BY <1>0, <1>1 DEF CardPassed, FlashPassed, FromFlash
  <2>11. ~faulty' /\ FlashPassed' /\ "sd" \notin fuse'.option => ~Bootable("flash")'
    BY <1>a, <1>1, <2>10 DEF BootInv, TriedOK
  <2>12. TriedOK'
    BY <1>1, <2>10, <2>11 DEF TriedOK
  <2>13. QED
    BY <2>7, <2>8, <2>9, <2>12 DEF BootInv
<1>2. CASE ~load /\ NextSource /\ faulty' = faulty
  <2>1. ASSUME ~faulty', Bootable("sd") PROVE FALSE
    <3> DEFINE m == board.card.images[First]
    <3>1. /\ sector = First /\ First \in DOMAIN board.card.images /\ Good(m) /\ m.fits
      BY <1>0, <1>2, <2>1 DEF Bootable, First
    <3>2. First \in Nat /\ m \in BootImages /\ m.kind \in {"plain", "ota"} /\ 1 \in 1 .. m.size
      BY <1>0, <3>1, BoardIs
    <3>3. Block(First) = <<m, 1>>
      <4>1. Block(First + 1 - 1) = <<m, 1>>
        BY <1>0, <3>1, <3>2, BlockAt
      <4>2. First + 1 - 1 = First
        BY <3>2
      <4>3. QED
        BY <4>1, <4>2
    <3>4. first = Prefix(m, 1)
      BY <3>1, <3>2, <3>3, PrefixIs
    <3>5. HeaderOk(first) <=> m.kind = "plain"
      BY <3>2, <3>4, PrefixIs
    <3>6. Flagged(first) <=> m.kind = "ota" /\ m.flag
      BY <3>2, <3>4, PrefixIs
    <3>7. Has(first, LAMBDA n : n.fits)
      BY <1>b, <3>1, <3>2, <3>3 DEF Has
    <3>8. QED
      BY <1>2, <3>1, <3>2, <3>5, <3>6, <3>7 DEF Good
  <2>2. QED
    BY <1>0, <1>2, <2>1, CardGivenUp
<1>3. CASE NextSource /\ Failed
  BY <1>0, <1>3, CardGivenUp DEF Failed
<1>4. QED
  BY <1>1, <1>2, <1>3 DEF ReadHeader

(* One block more of the same image, or a read that failed.                 *)
LEMMA LoadBlockKeeps == BootInv /\ LoadBlock => BootInv'
<1> SUFFICES ASSUME BootInv, LoadBlock PROVE BootInv'
  OBVIOUS
<1>0. /\ board \in Devices /\ board' = board /\ at = "load" /\ at \in FromCard
      /\ region' = region /\ pins' = pins /\ remaining > 0
      /\ todo \in {<<"sd">>, <<"sd", "flash">>}
  BY DEF LoadBlock, Keep, BootInv, PlanOK, FromCard
<1>a. /\ fuse' = fuse /\ (Bootable("flash")' <=> Bootable("flash")) /\ First' = First
  BY <1>0, SameBoard
<1>1. PICK a \in DOMAIN board.card.images :
        \E k \in 1 .. board.card.images[a].size : LoadingFrom(a, k)
  BY <1>0 DEF BootInv, CardOK
<1>2. PICK k \in 1 .. board.card.images[a].size : LoadingFrom(a, k)
  BY <1>1
<1> DEFINE m == board.card.images[a]
<1>3. a \in Nat /\ m \in BootImages /\ m.size \in Nat \ {0}
  BY <1>0, BoardIs
<1>4. ASSUME at' = at, todo' = todo, running' = running, faulty => faulty',
             NEW j \in 1 .. m.size, LoadingFrom(a, j)'
      PROVE  BootInv'
  <2>1. CardOK'
    <3>1. \E b \in DOMAIN board'.card.images :
            \E i \in 1 .. board'.card.images[b].size : LoadingFrom(b, i)'
      BY <1>0, <1>4
    <3>2. board'.card.present /\ ("4bit" \in fuse'.option => board'.card.wide)
      BY <1>0, <1>a DEF BootInv, CardOK
    <3>3. QED
      BY <1>0, <1>4, <3>1, <3>2 DEF CardOK
  <2>2. PlanOK'
    BY <1>0, <1>a, <1>4, TailOfPlan
       DEF BootInv, PlanOK, BootLabel, FromFlash, FromCard, FlashPassed
  <2>3. RunIsVerified'
    BY <1>0, <1>4 DEF RunIsVerified
  <2>4. ~CardPassed' /\ (FlashPassed' => FlashPassed)
    BY <1>0, <1>4 DEF CardPassed, FlashPassed, FromFlash
  <2>5. ~faulty' /\ FlashPassed' /\ "sd" \notin fuse'.option => ~Bootable("flash")'
    BY <1>a, <1>4, <2>4 DEF BootInv, TriedOK
  <2>6. TriedOK'
    BY <1>0, <1>4, <2>4, <2>5 DEF TriedOK
  <2>7. QED
    BY <2>1, <2>2, <2>3, <2>6 DEF BootInv
<1>5. CASE /\ ram' = Append(ram, Block(sector))
           /\ sector' = sector + 1 /\ remaining' = remaining - 1 /\ retry' = Retries
           /\ UNCHANGED <<at, todo, running, faulty>>
  <2>1. k + 1 \in 1 .. m.size
    BY <1>0, <1>2, <1>3 DEF LoadingFrom
  <2>2. Block(sector) = <<m, k + 1>>
    <3>1. Block(a + (k + 1) - 1) = <<m, k + 1>>
      BY <1>0, <2>1, BlockAt
    <3>2. a + (k + 1) - 1 = sector
      BY <1>2, <1>3 DEF LoadingFrom
    <3>3. QED
      BY <3>1, <3>2
  <2>3. Append(Prefix(m, k), <<m, k + 1>>) = Prefix(m, k + 1)
    <3>1. k < m.size
      BY <1>3, <2>1
    <3>2. QED
      BY <1>2, <1>3, <3>1, PrefixIs
  <2>4. PICK j \in 1 .. m.size : j = k + 1
    BY <2>1
  <2>5. ram' = Prefix(m, j) /\ remaining' = m.size - j /\ sector' = a + j
    <3>1. ram = Prefix(m, k) /\ remaining = m.size - k /\ sector = a + k
      BY <1>2 DEF LoadingFrom
    <3>2. ram' = Append(Prefix(m, k), <<m, k + 1>>)
      BY <1>5, <2>2, <3>1
    <3>3. ram' = Prefix(m, j)
      BY <2>3, <2>4, <3>2
    <3>4. remaining' = m.size - j /\ sector' = a + j
      <4>1. a \in Nat /\ k \in Nat /\ m.size \in Nat /\ j = k + 1
        BY <1>2, <1>3, <2>4
      <4>2. remaining' = (m.size - k) - 1 /\ sector' = (a + k) + 1
        BY <1>5, <3>1
      <4> HIDE DEF m
      <4>3. QED
        BY <4>1, <4>2
    <3>5. QED
      BY <3>3, <3>4
  <2>6. (m.kind = "plain" => fuse'.secure = "NONE") /\ (~faulty' => a = First')
    BY <1>a, <1>2, <1>5 DEF LoadingFrom
  <2>7. LoadingFrom(a, j)'
    BY <1>0, <2>4, <2>5, <2>6 DEF LoadingFrom
  <2>8. QED
    BY <1>4, <1>5, <2>4, <2>7
<1>6. CASE ReadFailed /\ Failed /\ UNCHANGED ram
  <2>1. CASE NextSource
    BY <1>0, <1>6, <2>1, CardGivenUp DEF Failed
  <2>2. CASE UNCHANGED <<at, todo, running, sector, remaining>>
    <3>1. LoadingFrom(a, k)'
      BY <1>0, <1>a, <1>2, <1>6, <2>2 DEF LoadingFrom, Failed
    <3>2. QED
      BY <1>4, <1>6, <2>2, <3>1 DEF Failed
  <2>3. QED
    BY <1>6, <2>1, <2>2 DEF ReadFailed
<1>7. QED
  BY <1>5, <1>6 DEF LoadBlock

(* The whole image is in memory: it is run, or is none that may be.         *)
LEMMA LoadedKeeps == BootInv /\ Loaded => BootInv'
<1> SUFFICES ASSUME BootInv, Loaded PROVE BootInv'
  OBVIOUS
<1>0. /\ board \in Devices /\ board' = board /\ at = "load" /\ at \in FromCard
      /\ region' = region /\ remaining = 0 /\ faulty' = faulty
  BY DEF Loaded, Keep, BootInv, PlanOK, FromCard
<1>1. PICK a \in DOMAIN board.card.images :
        \E k \in 1 .. board.card.images[a].size : LoadingFrom(a, k)
  BY <1>0 DEF BootInv, CardOK
<1> DEFINE m == board.card.images[a]
<1>2. m \in BootImages /\ m.size \in Nat \ {0} /\ m.kind \in {"plain", "ota"}
  BY <1>0, BoardIs
<1>3. /\ ram = Prefix(m, m.size) /\ (m.kind = "plain" => fuse.secure = "NONE")
      /\ (~faulty => a = First)
  BY <1>0, <1>1, <1>2 DEF LoadingFrom
<1>4. ram = Whole(m) /\ (HeaderOk(ram) <=> m.kind = "plain")
      /\ \A mode : Verified(ram, mode) <=> mode \in m.holds
  <2>1. m.size \in 1 .. m.size
    BY <1>2
  <2>2. QED
    BY <1>2, <1>3, <2>1, PrefixIs
<1>5. CASE HeaderOk(ram) \/ Verified(ram, fuse.secure)
  <2>1. Run(ram) /\ todo' = todo
    BY <1>5 DEF Loaded
  <2>2. IF m.kind = "plain" THEN fuse.secure = "NONE" ELSE fuse.secure \in m.holds
    BY <1>3, <1>4, <1>5
  <2>3. QED
    BY <1>0, <1>2, <1>4, <2>1, <2>2, RunKeeps
<1>6. CASE ~(HeaderOk(ram) \/ Verified(ram, fuse.secure))
  <2>1. NextSource
    BY <1>6 DEF Loaded
  <2>2. ASSUME ~faulty', Bootable("sd") PROVE FALSE
    <3>1. a = First /\ Good(m)
      BY <1>0, <1>3, <2>2 DEF Bootable, First
    <3>2. QED
      BY <1>2, <1>4, <1>6, <3>1 DEF Good
  <2>3. QED
    BY <1>0, <2>1, <2>2, CardGivenUp
<1>7. QED
  BY <1>5, <1>6

-----------------------------------------------------------------------------
(* What starts satisfies the invariant.                                     *)
LEMMA BootInitOK == BootInit => BootInv
<1> SUFFICES ASSUME NEW d \in Devices, BootStart(d) PROVE BootInv
  BY DEF BootInit
<1>1. board \in Devices /\ at = "start" /\ todo = <<>> /\ pins = "flash" /\ region = FALSE
  BY DEF BootStart
<1>2. PlanOK
  BY <1>1, TailOfPlan DEF PlanOK, BootLabel, FromFlash, FromCard
<1>3. CardOK /\ TriedOK /\ RunIsVerified
  BY <1>1 DEF CardOK, TriedOK, RunIsVerified, FlashPassed, CardPassed, FromFlash, FromCard
<1>4. QED
  BY <1>2, <1>3 DEF BootInv

(* The pin and the serial line are of no concern to what is booted.         *)
LEMMA OthersKeep ==
  ASSUME BootInv,
         UNCHANGED <<board, at, todo, pins, region, sector, remaining, ram, running, faulty>>
  PROVE  BootInv'
<1>a. /\ fuse' = fuse /\ (Bootable("sd")' <=> Bootable("sd")) /\ First' = First
      /\ (Bootable("flash")' <=> Bootable("flash")) /\ (MappedElsewhere' <=> MappedElsewhere)
      /\ (HeaderOk(View(0, FALSE))' <=> HeaderOk(View(0, FALSE)))
  BY SameBoard
<1>1. (FlashPassed' <=> FlashPassed) /\ (CardPassed' <=> CardPassed)
  BY DEF FlashPassed, CardPassed
<1>2. PlanOK'
  BY <1>a, <1>1 DEF BootInv, PlanOK
<1>3. CardOK'
  BY <1>a DEF BootInv, CardOK, LoadingFrom
<1>4. TriedOK'
  <2>1. ~faulty' /\ CardPassed' /\ {"sd", "sd_too"} \cap fuse'.option # {} => ~Bootable("sd")'
    BY <1>a, <1>1 DEF BootInv, TriedOK
  <2>2. ~faulty' /\ FlashPassed' /\ "sd" \notin fuse'.option => ~Bootable("flash")'
    BY <1>a, <1>1 DEF BootInv, TriedOK
  <2>3. /\ at' = "header" => fuse'.offset > 0
        /\ at' \in {"header", "original"} =>
             ~(fuse'.secure = "NONE" /\ HeaderOk(View(0, FALSE))')
    BY <1>a DEF BootInv, TriedOK
  <2>4. at' = "original" /\ fuse'.offset > 0 =>
          ~(Good(board.cell[fuse.offset].img) /\ board.cell[fuse.offset].img.kind = "ota")'
    BY <1>a DEF BootInv, TriedOK, Good
  <2>5. QED
    BY <2>1, <2>2, <2>3, <2>4 DEF TriedOK
<1>5. RunIsVerified'
  BY <1>a DEF BootInv, RunIsVerified
<1>6. QED
  BY <1>2, <1>3, <1>4, <1>5 DEF BootInv

(* Every step keeps the invariant.                                          *)
LEMMA BootNextKeeps == BootInv /\ [BootNext]_bootVars => BootInv'
<1> SUFFICES ASSUME BootInv, [BootNext]_bootVars PROVE BootInv'
  OBVIOUS
<1>1. CASE LedProcess \/ Release \/ UNCHANGED bootVars
  BY <1>1, OthersKeep DEF LedProcess, Release, bootVars
<1>2. QED
  BY <1>1, WakeupKeeps, MainKeeps, SourceKeeps, FlashInitKeeps, HeaderAtOffsetKeeps,
     OriginalHeaderKeeps, ProbeKeeps, ReadMbrKeeps, ReadHeaderKeeps, LoadBlockKeeps,
     LoadedKeeps DEF BootNext, BootStep

(* The invariant holds of every start of every device.                      *)
THEOREM BootInvHolds == BootSpec => []BootInv
<1>1. BootInit => BootInv
  BY BootInitOK
<1>2. BootInv /\ [BootNext]_bootVars => BootInv'
  BY BootNextKeeps
<1>3. QED
  BY <1>1, <1>2, PTL DEF BootSpec

(* What runs is the whole of an image that satisfies the check the fuses    *)
(* ask for, for whatever lies on flash and card and whatever fails          *)
(* (flash_ota_header, boot_sdcard): the loop that loads block by block, with *)
(* its retries, has the whole image or runs nothing.                        *)
THEOREM BootRunIsVerified == BootSpec => []RunIsVerified
<1>1. BootInv => RunIsVerified
  BY DEF BootInv
<1>2. QED
  BY <1>1, BootInvHolds, PTL

(* Without the pin, and when nothing fails, the upgrade is offered only     *)
(* when the sources that the fuses name have no image that may run (main).  *)
THEOREM BootUpgradeIsLastResort == BootSpec => []UpgradeIsLastResort
<1>1. BootInv => UpgradeIsLastResort
  BY DEF BootInv, PlanOK, TriedOK, UpgradeIsLastResort, FlashPassed, CardPassed
<1>2. QED
  BY <1>1, BootInvHolds, PTL

-----------------------------------------------------------------------------
(* The serial line.  Bytes.                                                 *)
Byte == 0 .. 255

-----------------------------------------------------------------------------
(* Induction over the naturals, for a set of them.                          *)
LEMMA EveryNatural ==
  ASSUME NEW S \in SUBSET Nat, 0 \in S, \A n \in S : n + 1 \in S
  PROVE  S = Nat
<1> DEFINE R == OpToRel(<, Nat)
           T == Nat \ S
<1>1. SUFFICES ASSUME T # {} PROVE FALSE
  OBVIOUS
<1>2. IsWellFoundedOn(R, Nat)
  BY NatLessThanWellFounded
<1>3. \A x, y \in Nat : x < y => <<x, y>> \in R
  BY DEF OpToRel
<1>4. T \subseteq Nat
  OBVIOUS
<1> HIDE DEF R, T
<1>5. PICK x \in T : \A y \in T : <<y, x>> \notin R
  BY <1>1, <1>2, <1>4, WFMin
<1>6. x \in Nat /\ x # 0 /\ x - 1 \in Nat
  BY <1>5, <1>4 DEF T
<1>7. x - 1 \notin T
  <2>1. <<x - 1, x>> \in R
    BY <1>3, <1>6
  <2>2. QED
    BY <1>5, <2>1
<1>8. x - 1 \in S
  BY <1>6, <1>7 DEF T
<1>9. (x - 1) + 1 = x
  BY <1>6
<1>10. x \in S
  BY <1>8, <1>9
<1>11. QED
  BY <1>5, <1>10 DEF T

-----------------------------------------------------------------------------
(* What uart_receive_bytes makes of bytes, one turn after the other.        *)
FirstTurn == [finished |-> FALSE, ub |-> ub]

(* A turn does nothing once a frame is finished.                            *)
LEMMA ReceiveByteIs ==
  ASSUME NEW s, NEW byte
  PROVE  ReceiveByte(s, byte) = IF s.finished THEN s ELSE After(s, byte)
BY DEF ReceiveByte

(* The turns for any bytes exist.                                           *)
LEMMA TurnsExist ==
  ASSUME NEW q \in Seq(Byte)
  PROVE  \E t : t = [k \in 0 .. Len(q) |->
                       IF k = 0 THEN FirstTurn ELSE ReceiveByte(t[k - 1], q[k])]
<1> DEFINE Turns(n) == \E t : t = [k \in 0 .. n |->
                         IF k = 0 THEN FirstTurn ELSE ReceiveByte(t[k - 1], q[k])]
           S == {n \in Nat : Turns(n)}
<1>1. 0 \in S
  <2> DEFINE t == [k \in 0 .. 0 |-> FirstTurn]
  <2>1. t = [k \in 0 .. 0 |-> IF k = 0 THEN FirstTurn ELSE ReceiveByte(t[k - 1], q[k])]
    OBVIOUS
  <2>2. Turns(0)
    BY <2>1
  <2>3. QED
    BY <2>2
<1>2. ASSUME NEW n \in S PROVE n + 1 \in S
  <2>1. n \in Nat
    OBVIOUS
  <2>2. PICK f : f = [k \in 0 .. n |->
                       IF k = 0 THEN FirstTurn ELSE ReceiveByte(f[k - 1], q[k])]
    OBVIOUS
  <2> DEFINE t == [k \in 0 .. n + 1 |-> IF k <= n THEN f[k] ELSE ReceiveByte(f[n], q[n + 1])]
  <2>3. \A k \in 0 .. n : f[k] = IF k = 0 THEN FirstTurn ELSE ReceiveByte(f[k - 1], q[k])
    BY <2>2
  <2>4. \A k \in 0 .. n : t[k] = f[k]
    BY <2>1
  <2>5. ASSUME NEW k \in 0 .. n + 1
        PROVE  t[k] = IF k = 0 THEN FirstTurn ELSE ReceiveByte(t[k - 1], q[k])
    <3>1. CASE k <= n
      <4>1. k \in 0 .. n /\ (k # 0 => k - 1 \in 0 .. n)
        BY <2>1, <3>1
      <4>2. QED
        BY <2>3, <2>4, <4>1
    <3>2. CASE k = n + 1
      <4>1. t[k] = ReceiveByte(f[n], q[n + 1]) /\ n \in 0 .. n /\ k - 1 = n /\ k # 0
        BY <2>1, <3>2
      <4>2. QED
        BY <2>4, <3>2, <4>1
    <3>3. QED
      BY <2>1, <3>1, <3>2
  <2>6. t = [k \in 0 .. n + 1 |-> t[k]]
    OBVIOUS
  <2> HIDE DEF t
  <2>7. t = [k \in 0 .. n + 1 |-> IF k = 0 THEN FirstTurn ELSE ReceiveByte(t[k - 1], q[k])]
    BY <2>5, <2>6
  <2>8. Turns(n + 1)
    BY <2>7
  <2>9. QED
    BY <2>1, <2>8
<1>3. S = Nat
  <2>1. S \subseteq Nat
    OBVIOUS
  <2> HIDE DEF S
  <2>2. QED
    BY <1>1, <1>2, <2>1, EveryNatural
<1>4. Len(q) \in S
  BY <1>3
<1>5. QED
  BY <1>4

(* The last of them is the result.                                          *)
LEMMA ReceivedIs ==
  ASSUME NEW q \in Seq(Byte)
  PROVE  \E t : /\ t[0] = FirstTurn
                /\ \A k \in 1 .. Len(q) : t[k] = ReceiveByte(t[k - 1], q[k])
                /\ uart_receive_bytes(q) = t[Len(q)]
<1> DEFINE t == CHOOSE t : t = [k \in 0 .. Len(q) |->
                  IF k = 0 THEN FirstTurn ELSE ReceiveByte(t[k - 1], q[k])]
<1>1. t = [k \in 0 .. Len(q) |-> IF k = 0 THEN FirstTurn ELSE ReceiveByte(t[k - 1], q[k])]
  BY TurnsExist
<1>2. uart_receive_bytes(q) = t[Len(q)]
  BY DEF uart_receive_bytes, FirstTurn
<1> HIDE DEF t
<1>3. Len(q) \in Nat
  OBVIOUS
<1>4. t[0] = FirstTurn /\ \A k \in 1 .. Len(q) : t[k] = ReceiveByte(t[k - 1], q[k])
  BY <1>1, <1>3
<1>5. QED
  BY <1>2, <1>4

-----------------------------------------------------------------------------
(* A frame: what the first bytes of a packet are escaped to, for any number *)
(* of them.                                                                 *)
Pieces(p, e) ==
  /\ e \in [0 .. Len(p) -> Seq(Byte)] /\ e[0] = <<>>
  /\ \A i \in 1 .. Len(p) : e[i] = e[i - 1] \o Escaped(p[i])

(* A byte is escaped to itself, or to two bytes of which the second says    *)
(* which it is.                                                             *)
LEMMA EscapedIs ==
  ASSUME NEW b \in Byte
  PROVE  /\ Escaped(b) \in Seq(Byte)
         /\ b \notin {END, ESC} => Escaped(b) = <<b>>
         /\ b = END => Escaped(b) = <<ESC, ESC_END>>
         /\ b = ESC => Escaped(b) = <<ESC, ESC_ESC>>
<1>1. b = END \/ b = ESC \/ b \notin {END, ESC}
  OBVIOUS
<1>2. ASSUME b \notin {END, ESC} PROVE Escaped(b) = <<b>> /\ Escaped(b) \in Seq(Byte)
  BY <1>2 DEF Escaped
<1>3. ASSUME b = END PROVE Escaped(b) = <<ESC, ESC_END>> /\ Escaped(b) \in Seq(Byte)
  BY <1>3 DEF Escaped, END, ESC, ESC_END, Byte
<1>4. ASSUME b = ESC PROVE Escaped(b) = <<ESC, ESC_ESC>> /\ Escaped(b) \in Seq(Byte)
  BY <1>4 DEF Escaped, END, ESC, ESC_ESC, Byte
<1>5. QED
  BY <1>1, <1>2, <1>3, <1>4

(* The frame of a packet is put together of them.                           *)
LEMMA FrameIs ==
  ASSUME NEW p \in Seq(Byte), p # <<>>
  PROVE  \E e : Pieces(p, e) /\ Frame(p) = <<END>> \o e[Len(p)] \o <<END>>
<1> DEFINE seqs == [i \in DOMAIN p |-> Escaped(p[i])]
           Flat(f, n) == f = [i \in 1 .. n |-> IF i = 1 THEN seqs[i] ELSE f[i - 1] \o seqs[i]]
           Flattened(n) == \E f : Flat(f, n) /\ \A i \in 1 .. n : f[i] \in Seq(Byte)
           S == {n \in Nat : n <= Len(p) => Flattened(n)}
<1>1. Len(p) \in Nat \ {0} /\ DOMAIN p = 1 .. Len(p)
  OBVIOUS
<1>2. \A i \in 1 .. Len(p) : seqs[i] = Escaped(p[i]) /\ seqs[i] \in Seq(Byte)
  BY <1>1, EscapedIs
<1>3. seqs \in Seq(Seq(Byte)) /\ Len(seqs) = Len(p)
  <2>1. seqs = [i \in 1 .. Len(p) |-> seqs[i]]
    BY <1>1
  <2> HIDE DEF seqs
  <2>2. QED
    BY <1>1, <1>2, <2>1
<1> HIDE DEF seqs
<1>4. 0 \in S
  <2> DEFINE f == [i \in 1 .. 0 |-> seqs[i]]
  <2>1. Flat(f, 0)
    OBVIOUS
  <2>2. \A i \in 1 .. 0 : f[i] \in Seq(Byte)
    OBVIOUS
  <2>3. Flattened(0)
    BY <2>1, <2>2
  <2> HIDE DEF Flattened
  <2>4. QED
    BY <2>3
<1>5. ASSUME NEW n \in S PROVE n + 1 \in S
  <2>1. n \in Nat /\ (n <= Len(p) => Flattened(n))
    <3> HIDE DEF Flattened
    <3>1. QED
      OBVIOUS
  <2>2. SUFFICES ASSUME n + 1 <= Len(p) PROVE Flattened(n + 1)
    <3> HIDE DEF Flattened
    <3>1. QED
      BY <2>1
  <2>3. n \in Nat /\ n <= Len(p) /\ Flattened(n)
    <3> HIDE DEF Flattened
    <3>1. QED
      BY <1>1, <2>1, <2>2
  <2>4. PICK g : Flat(g, n) /\ \A i \in 1 .. n : g[i] \in Seq(Byte)
    BY <2>3
  <2>5. \A i \in 1 .. n : g[i] = IF i = 1 THEN seqs[i] ELSE g[i - 1] \o seqs[i]
    BY <2>4
  <2> DEFINE f == [i \in 1 .. n + 1 |-> IF i <= n THEN g[i]
                                        ELSE IF n = 0 THEN seqs[1] ELSE g[n] \o seqs[n + 1]]
  <2>6. \A i \in 1 .. n : f[i] = g[i]
    BY <2>3
  <2>7. f[n + 1] = IF n = 0 THEN seqs[1] ELSE g[n] \o seqs[n + 1]
    BY <2>3
  <2>8. f = [i \in 1 .. n + 1 |-> f[i]]
    OBVIOUS
  <2> HIDE DEF f
  <2>9. ASSUME NEW i \in 1 .. n + 1
        PROVE  (f[i] = IF i = 1 THEN seqs[i] ELSE f[i - 1] \o seqs[i]) /\ f[i] \in Seq(Byte)
    <3>1. CASE i <= n
      <4>1. i \in 1 .. n /\ (i # 1 => i - 1 \in 1 .. n)
        BY <2>3, <3>1
      <4>2. QED
        BY <2>4, <2>5, <2>6, <4>1
    <3>2. CASE i = n + 1
      <4>1. CASE n = 0
        <5>1. i = 1 /\ 1 \in 1 .. Len(p)
          BY <1>1, <3>2, <4>1
        <5>2. QED
          BY <1>2, <2>7, <3>2, <4>1, <5>1
      <4>2. CASE n # 0
        <5>1. i # 1 /\ i - 1 = n /\ n \in 1 .. n /\ i \in 1 .. Len(p)
          BY <2>2, <2>3, <3>2, <4>2
        <5>2. f[i] = f[i - 1] \o seqs[i]
          BY <2>6, <2>7, <3>2, <4>2, <5>1
        <5>3. f[i - 1] \in Seq(Byte) /\ seqs[i] \in Seq(Byte)
          BY <1>2, <2>4, <2>6, <5>1
        <5>4. f[i] \in Seq(Byte)
          BY <5>2, <5>3
        <5>5. QED
          BY <5>1, <5>2, <5>4
      <4>3. QED
        BY <4>1, <4>2
    <3>3. QED
      BY <2>3, <3>1, <3>2
  <2>10. Flat(f, n + 1)
    BY <2>8, <2>9
  <2>11. QED
    BY <2>9, <2>10
<1>6. S = Nat
  <2>1. S \subseteq Nat
    OBVIOUS
  <2> HIDE DEF S
  <2>2. QED
    BY <1>4, <1>5, <2>1, EveryNatural
<1>7. \E f : Flat(f, Len(p))
  <2>1. Flattened(Len(p))
    <3> HIDE DEF Flattened
    <3>1. QED
      BY <1>1, <1>6
  <2>2. QED
    BY <2>1
<1> DEFINE flat == CHOOSE f : Flat(f, Len(p))
           e == [i \in 0 .. Len(p) |-> IF i = 0 THEN <<>> ELSE flat[i]]
<1>8. FlattenSeq(seqs) = flat[Len(p)]
  BY <1>1, <1>3 DEF FlattenSeq
<1>9. \A i \in 1 .. Len(p) : flat[i] = IF i = 1 THEN seqs[i] ELSE flat[i - 1] \o seqs[i]
  <2>1. Flat(flat, Len(p))
    BY <1>7
  <2> HIDE DEF flat
  <2>2. QED
    BY <1>1, <2>1
<1> HIDE DEF flat
<1>10. e[0] = <<>> /\ \A i \in 1 .. Len(p) : e[i] = flat[i]
  BY <1>1
<1>11. e = [i \in 0 .. Len(p) |-> e[i]]
  OBVIOUS
<1> HIDE DEF e
<1>12. ASSUME NEW i \in 1 .. Len(p) PROVE e[i] = e[i - 1] \o Escaped(p[i])
  <2>1. CASE i = 1
    <3>1. e[i] = seqs[i] /\ seqs[i] \in Seq(Byte)
      BY <1>2, <1>9, <1>10, <2>1
    <3>2. e[i - 1] = <<>>
      BY <1>10, <2>1
    <3>3. QED
      BY <1>2, <3>1, <3>2
  <2>2. CASE i # 1
    <3>1. i - 1 \in 1 .. Len(p)
      BY <1>1, <2>2
    <3>2. QED
      BY <1>2, <1>9, <1>10, <2>2, <3>1
  <2>3. QED
    BY <2>1, <2>2
<1> DEFINE Q == {n \in Nat : n <= Len(p) => e[n] \in Seq(Byte)}
<1>13. 0 \in Q
  <2>1. e[0] \in Seq(Byte)
    BY <1>10
  <2>2. QED
    BY <2>1
<1>14. ASSUME NEW n \in Q PROVE n + 1 \in Q
  <2>1. SUFFICES ASSUME n + 1 <= Len(p) PROVE e[n + 1] \in Seq(Byte)
    OBVIOUS
  <2>2. n \in Nat /\ n <= Len(p) /\ n + 1 \in 1 .. Len(p) /\ (n + 1) - 1 = n
    BY <1>1, <2>1
  <2>3. e[n] \in Seq(Byte) /\ Escaped(p[n + 1]) \in Seq(Byte)
    BY <1>2, <2>2
  <2>4. e[n + 1] = e[n] \o Escaped(p[n + 1])
    BY <1>12, <2>2
  <2>5. QED
    BY <2>3, <2>4
<1>15. Q = Nat
  <2>1. Q \subseteq Nat
    OBVIOUS
  <2> HIDE DEF Q
  <2>2. QED
    BY <1>13, <1>14, <2>1, EveryNatural
<1>16. \A i \in 0 .. Len(p) : e[i] \in Seq(Byte)
  BY <1>1, <1>15
<1>17. Pieces(p, e)
  <2>1. e \in [0 .. Len(p) -> Seq(Byte)]
    BY <1>11, <1>16
  <2>2. QED
    BY <1>10, <1>12, <2>1 DEF Pieces
<1>18. Frame(p) = <<END>> \o e[Len(p)] \o <<END>>
  <2>1. Frame(p) = <<END>> \o FlattenSeq(seqs) \o <<END>>
    BY DEF Frame, seqs
  <2>2. FlattenSeq(seqs) = e[Len(p)]
    BY <1>1, <1>8, <1>10
  <2>3. QED
    BY <2>1, <2>2
<1>19. QED
  BY <1>17, <1>18

(* They are longer and longer, and each begins as the one before.           *)
LEMMA PiecesGrow ==
  ASSUME NEW p \in Seq(Byte), NEW e, Pieces(p, e)
  PROVE  \A n, m \in 0 .. Len(p) : n <= m =>
           /\ Len(e[n]) <= Len(e[m]) /\ Len(e[m]) >= m
           /\ \A j \in 1 .. Len(e[n]) : e[m][j] = e[n][j]
<1> DEFINE Grown(n, m) == /\ Len(e[n]) <= Len(e[m]) /\ Len(e[m]) >= m
                          /\ \A j \in 1 .. Len(e[n]) : e[m][j] = e[n][j]
           S == {m \in Nat : m <= Len(p) => \A n \in 0 .. m : Grown(n, m)}
<1>1. Len(p) \in Nat /\ \A i \in 0 .. Len(p) : e[i] \in Seq(Byte)
  BY DEF Pieces
<1>2. 0 \in S
  <2>1. e[0] = <<>>
    BY DEF Pieces
  <2>2. Grown(0, 0)
    BY <2>1
  <2>3. QED
    BY <2>2
<1>3. ASSUME NEW m \in S PROVE m + 1 \in S
  <2>1. SUFFICES ASSUME m + 1 <= Len(p), NEW n \in 0 .. m + 1 PROVE Grown(n, m + 1)
    OBVIOUS
  <2>2. m \in Nat /\ m \in 0 .. Len(p) /\ m + 1 \in 1 .. Len(p) /\ (m + 1) - 1 = m
    BY <1>1, <2>1
  <2>3. /\ e[m + 1] = e[m] \o Escaped(p[m + 1])
        /\ e[m] \in Seq(Byte) /\ Escaped(p[m + 1]) \in Seq(Byte) /\ e[m + 1] \in Seq(Byte)
    <3>1. p[m + 1] \in Byte
      BY <2>2
    <3>2. e[m + 1] = e[m] \o Escaped(p[m + 1])
      BY <2>2 DEF Pieces
    <3>3. Escaped(p[m + 1]) \in Seq(Byte)
      BY <3>1, EscapedIs
    <3>4. e[m] \in Seq(Byte) /\ e[m + 1] \in Seq(Byte)
      BY <1>1, <2>2
    <3>5. QED
      BY <3>2, <3>3, <3>4
  <2>4. Len(Escaped(p[m + 1])) >= 1
    <3>1. p[m + 1] \in Byte
      BY <2>2
    <3>2. CASE p[m + 1] \notin {END, ESC}
      <4>1. Escaped(p[m + 1]) = <<p[m + 1]>>
        BY <3>1, <3>2, EscapedIs
      <4>2. QED
        BY <4>1
    <3>3. CASE p[m + 1] = END
      <4>1. Escaped(p[m + 1]) = <<ESC, ESC_END>>
        BY <3>1, <3>3, EscapedIs
      <4>2. QED
        BY <4>1
    <3>4. CASE p[m + 1] = ESC
      <4>1. Escaped(p[m + 1]) = <<ESC, ESC_ESC>>
        BY <3>1, <3>4, EscapedIs
      <4>2. QED
        BY <4>1
    <3>5. QED
      BY <3>2, <3>3, <3>4
  <2>5. Len(e[m + 1]) = Len(e[m]) + Len(Escaped(p[m + 1]))
        /\ \A j \in 1 .. Len(e[m]) : e[m + 1][j] = e[m][j]
    <3> DEFINE x == e[m]
               y == Escaped(p[m + 1])
    <3>1. x \in Seq(Byte) /\ y \in Seq(Byte) /\ e[m + 1] = x \o y
      BY <2>3
    <3> HIDE DEF x, y
    <3>2. /\ Len(x) \in Nat /\ Len(y) \in Nat /\ Len(x \o y) = Len(x) + Len(y)
          /\ \A j \in 1 .. Len(x) + Len(y) : (x \o y)[j] = IF j <= Len(x) THEN x[j] ELSE y[j - Len(x)]
      BY <3>1, ConcatProperties, LenProperties
    <3>3. \A j \in 1 .. Len(x) : (x \o y)[j] = x[j]
      BY <3>2
    <3>4. QED
      BY <3>1, <3>2, <3>3 DEF x, y
  <2>6. Grown(m, m)
    BY <2>2
  <2>7. Len(e[m + 1]) >= m + 1 /\ Len(e[m]) <= Len(e[m + 1])
    <3>1. Len(e[m]) \in Nat /\ Len(Escaped(p[m + 1])) \in Nat /\ Len(e[m]) >= m
      BY <2>3, <2>6
    <3>2. Len(e[m + 1]) = Len(e[m]) + Len(Escaped(p[m + 1]))
      BY <2>5
    <3>3. m \in Nat /\ Len(Escaped(p[m + 1])) >= 1
      BY <2>2, <2>4
    <3> DEFINE x == Len(e[m])
               y == Len(Escaped(p[m + 1]))
               z == Len(e[m + 1])
    <3>4. x \in Nat /\ y \in Nat /\ x >= m /\ y >= 1 /\ z = x + y
      BY <3>1, <3>2, <3>3
    <3> HIDE DEF x, y, z
    <3>5. z >= m + 1 /\ x <= z
      BY <3>3, <3>4
    <3>6. QED
      BY <3>5 DEF x, z
  <2>8. CASE n = m + 1
    <3>1. e[m + 1] \in Seq(Byte)
      BY <2>3
    <3>2. Len(e[m + 1]) \in Nat
      BY <3>1, LenProperties
    <3>3. QED
      BY <2>7, <2>8, <3>2
  <2>9. CASE n \in 0 .. m
    <3>1. Grown(n, m)
      BY <2>2, <2>9
    <3>2. Len(e[n]) \in Nat /\ Len(e[m]) \in Nat /\ Len(e[m + 1]) \in Nat
      <4>1. e[n] \in Seq(Byte) /\ e[m] \in Seq(Byte) /\ e[m + 1] \in Seq(Byte)
        BY <1>1, <2>2, <2>9
      <4>2. QED
        BY <4>1
    <3>3. Len(e[n]) <= Len(e[m + 1])
      BY <2>7, <3>1, <3>2
    <3>4. \A j \in 1 .. Len(e[n]) : e[m + 1][j] = e[n][j]
      BY <2>5, <3>1, <3>2
    <3>5. QED
      BY <2>7, <3>3, <3>4
  <2>10. QED
    BY <2>2, <2>8, <2>9
<1>4. S = Nat
  <2>1. S \subseteq Nat
    OBVIOUS
  <2> HIDE DEF S
  <2>2. QED
    BY <1>2, <1>3, <2>1, EveryNatural
<1>5. QED
  BY <1>1, <1>4

-----------------------------------------------------------------------------
(* One turn of the loop on a byte of a frame, and the next.                 *)
UartBuf == [read : Nat, state : {"no frame", "frame", "escaping"}, buf : [1 .. MAX_WRITE_BLOCK -> Byte]]

(* The byte got is put behind the others.                                   *)
Stored(u, byte) ==
  [read |-> u.read + 1, state |-> "frame", buf |-> [u.buf EXCEPT ![u.read + 1] = byte]]

(* What a turn does, by the state of the parser.                            *)
LEMMA AfterIs ==
  ASSUME NEW s, s.ub \in UartBuf, s.ub.read + 1 < MAX_WRITE_BLOCK, NEW byte \in Byte
  PROVE  /\ s.ub.state = "no frame" /\ byte = END =>
              After(s, byte) = [finished |-> FALSE, ub |-> [s.ub EXCEPT !.state = "frame"]]
         /\ s.ub.state = "frame" /\ byte = END =>
              After(s, byte) = [finished |-> TRUE,
                                ub |-> [read |-> 0, state |-> "no frame", buf |-> s.ub.buf]]
         /\ s.ub.state = "frame" /\ byte = ESC =>
              After(s, byte) = [finished |-> FALSE, ub |-> [s.ub EXCEPT !.state = "escaping"]]
         /\ s.ub.state = "frame" /\ byte \notin {END, ESC} =>
              After(s, byte) = [finished |-> FALSE, ub |-> Stored(s.ub, byte)]
         /\ s.ub.state = "escaping" /\ byte = ESC_END =>
              After(s, byte) = [finished |-> FALSE, ub |-> Stored(s.ub, END)]
         /\ s.ub.state = "escaping" /\ byte = ESC_ESC =>
              After(s, byte) = [finished |-> FALSE, ub |-> Stored(s.ub, ESC)]
<1> DEFINE u == s.ub
           got == RecvByte(byte, u.state)
           read == IF got[1] >= 0 THEN u.read + 1 ELSE u.read
           over == got[1] = FINISHED_FRAME \/ (got[1] >= 0 /\ read = MAX_WRITE_BLOCK)
           a == After(s, byte)
<1>1. a = [finished |-> over,
           ub |-> [read  |-> IF over THEN 0 ELSE read,
                   state |-> got[2],
                   buf   |-> IF got[1] >= 0 THEN [u.buf EXCEPT ![read] = got[1]] ELSE u.buf]]
  BY DEF After
<1>2. /\ \E r0, s0, b0 : u = [read |-> r0, state |-> s0, buf |-> b0]
      /\ u.read \in Nat /\ u.read + 1 # MAX_WRITE_BLOCK
  <2>1. u \in UartBuf /\ MAX_WRITE_BLOCK \in Nat
    BY FrameAssumption
  <2> HIDE DEF u
  <2>2. \E r0, s0, b0 : u = [read |-> r0, state |-> s0, buf |-> b0]
    <3>1. u = [read |-> u.read, state |-> u.state, buf |-> u.buf]
      BY <2>1 DEF UartBuf
    <3>2. QED
      BY <3>1
  <2>3. u.read \in Nat
    BY <2>1 DEF UartBuf
  <2>4. u.read + 1 < MAX_WRITE_BLOCK
    BY DEF u
  <2>5. u.read + 1 # MAX_WRITE_BLOCK
    BY <2>1, <2>3, <2>4
  <2>6. QED
    BY <2>2, <2>3, <2>5
<1>3. /\ byte \in 0 .. 255 /\ END \in Byte /\ ESC \in Byte /\ ESC_END \in Byte /\ ESC_ESC \in Byte
      /\ END # ESC /\ ESC_END # END /\ ESC_ESC # END /\ ESC_ESC # ESC_END
  BY DEF Byte, END, ESC, ESC_END, ESC_ESC
<1> HIDE DEF u, a
(* Nothing got, in the middle of a frame.                                   *)
<1>4. ASSUME NEW st, got = <<NO_BYTE, st>>
      PROVE  a = [finished |-> FALSE, ub |-> [u EXCEPT !.state = st]]
  <2>1. got[1] = -1 /\ got[2] = st
    BY <1>4 DEF NO_BYTE
  <2>2. FINISHED_FRAME = -2
    BY DEF FINISHED_FRAME
  <2> HIDE DEF got
  <2>3. over = FALSE /\ read = u.read /\ ~(got[1] >= 0)
    BY <2>2, <2>1
  <2>4. a = [finished |-> FALSE, ub |-> [read |-> u.read, state |-> st, buf |-> u.buf]]
    BY <1>1, <2>1, <2>3
  <2>5. [u EXCEPT !.state = st] = [read |-> u.read, state |-> st, buf |-> u.buf]
    BY <1>2
  <2>6. QED
    BY <2>4, <2>5
(* A byte got, with room behind it.                                         *)
<1>5. ASSUME NEW b \in Byte, got = <<b, "frame">>
      PROVE  a = [finished |-> FALSE, ub |-> Stored(u, b)]
  <2>1. got[1] = b /\ got[2] = "frame" /\ b \in 0 .. 255
    BY <1>5 DEF Byte
  <2> HIDE DEF got
  <2>2. read = u.read + 1 /\ got[1] >= 0
    BY <2>1
  <2>3. over = FALSE
    BY <1>2, <2>1, <2>2 DEF FINISHED_FRAME
  <2> HIDE DEF read, over
  <2>4. QED
    BY <1>1, <2>1, <2>2, <2>3 DEF Stored
<1>6. ASSUME u.state = "no frame", byte = END PROVE got = <<NO_BYTE, "frame">>
  BY <1>6 DEF RecvByte
<1>7. ASSUME u.state = "frame", byte = ESC PROVE got = <<NO_BYTE, "escaping">>
  BY <1>3, <1>7 DEF RecvByte
<1>8. ASSUME u.state = "frame", byte \notin {END, ESC} PROVE got = <<byte, "frame">>
  BY <1>8 DEF RecvByte
<1>9. ASSUME u.state = "escaping", byte = ESC_END PROVE got = <<END, "frame">>
  BY <1>3, <1>9 DEF RecvByte
<1>10. ASSUME u.state = "escaping", byte = ESC_ESC PROVE got = <<ESC, "frame">>
  BY <1>3, <1>10 DEF RecvByte
<1>11. ASSUME u.state = "frame", byte = END
       PROVE  a = [finished |-> TRUE, ub |-> [read |-> 0, state |-> "no frame", buf |-> u.buf]]
  <2>1. got = <<FINISHED_FRAME, "no frame">>
    BY <1>3, <1>11 DEF RecvByte
  <2> HIDE DEF got
  <2>2. got[1] = FINISHED_FRAME /\ got[2] = "no frame"
    BY <2>1
  <2>3. ~(FINISHED_FRAME >= 0)
    BY DEF FINISHED_FRAME
  <2>4. ~(got[1] >= 0)
    BY <2>2, <2>3
  <2>5. over = TRUE
    BY <2>2
  <2> HIDE DEF over
  <2>6. a = [finished |-> TRUE, ub |-> [read |-> 0, state |-> "no frame", buf |-> u.buf]]
    BY <1>1, <2>2, <2>4, <2>5
  <2>7. QED
    BY <2>6
<1> HIDE DEF got
<1>12. /\ u.state = "no frame" /\ byte = END =>
              a = [finished |-> FALSE, ub |-> [u EXCEPT !.state = "frame"]]
       /\ u.state = "frame" /\ byte = ESC =>
              a = [finished |-> FALSE, ub |-> [u EXCEPT !.state = "escaping"]]
  BY <1>4, <1>6, <1>7
<1>13. /\ u.state = "frame" /\ byte \notin {END, ESC} => a = [finished |-> FALSE, ub |-> Stored(u, byte)]
       /\ u.state = "escaping" /\ byte = ESC_END => a = [finished |-> FALSE, ub |-> Stored(u, END)]
       /\ u.state = "escaping" /\ byte = ESC_ESC => a = [finished |-> FALSE, ub |-> Stored(u, ESC)]
  BY <1>3, <1>5, <1>8, <1>9, <1>10
<1>14. QED
  BY <1>11, <1>12, <1>13 DEF u, a

(* A byte stored leaves those before it.                                    *)
LEMMA StoredIs ==
  ASSUME NEW u \in UartBuf, u.read + 1 < MAX_WRITE_BLOCK, NEW byte \in Byte
  PROVE  /\ Stored(u, byte) \in UartBuf
         /\ Stored(u, byte).read = u.read + 1 /\ Stored(u, byte).state = "frame"
         /\ Stored(u, byte).buf[u.read + 1] = byte
         /\ \A i \in 1 .. u.read : Stored(u, byte).buf[i] = u.buf[i]
<1>1. u.read \in Nat /\ u.buf \in [1 .. MAX_WRITE_BLOCK -> Byte] /\ MAX_WRITE_BLOCK \in Nat
  BY FrameAssumption DEF UartBuf
<1>2. u.read + 1 \in 1 .. MAX_WRITE_BLOCK /\ \A i \in 1 .. u.read : i \in 1 .. MAX_WRITE_BLOCK /\ i # u.read + 1
  BY <1>1
<1> DEFINE b == [u.buf EXCEPT ![u.read + 1] = byte]
<1>3. /\ b \in [1 .. MAX_WRITE_BLOCK -> Byte] /\ b[u.read + 1] = byte
      /\ \A i \in 1 .. u.read : b[i] = u.buf[i]
  BY <1>1, <1>2
<1>4. Stored(u, byte) = [read |-> u.read + 1, state |-> "frame", buf |-> b]
  BY DEF Stored
<1> HIDE DEF b
<1>5. u.read + 1 \in Nat
  BY <1>1
<1>6. Stored(u, byte) \in UartBuf
  <2>1. [read |-> u.read + 1, state |-> "frame", buf |-> b] \in UartBuf
    BY <1>3, <1>5 DEF UartBuf
  <2>2. QED
    BY <1>4, <2>1
<1>7. QED
  BY <1>3, <1>4, <1>6

-----------------------------------------------------------------------------
(* A frame in turns.                                                        *)

(* A frame is not finished, and what has been stored is the packet's.       *)
Begun(s, p) ==
  /\ s.finished = FALSE /\ s.ub \in UartBuf
  /\ s.ub.read <= Len(p) /\ \A i \in 1 .. s.ub.read : s.ub.buf[i] = p[i]

(* After k bytes: as many bytes of the packet as e says, in their places;   *)
(* or all of it, and the frame finished.                                    *)
Parsed(s, p, e, k) ==
  /\ Begun(s, p)
  /\ \/ s.ub.state = "no frame" /\ s.ub.read = 0 /\ k = 0
     \/ s.ub.state = "frame" /\ k = Len(e[s.ub.read]) + 1
     \/ /\ s.ub.state = "escaping" /\ k = Len(e[s.ub.read]) + 2
        /\ s.ub.read < Len(p) /\ p[s.ub.read + 1] \in {END, ESC}

(* A result: the frame is finished, and its packet is in the buffer.        *)
Dealt(s, p) ==
  /\ s.finished = TRUE /\ s.ub \in UartBuf
  /\ s.ub.read = 0 /\ s.ub.state = "no frame" /\ \A i \in 1 .. Len(p) : s.ub.buf[i] = p[i]

(* Where bytes lie in others.                                               *)
LiesAt(c, f, d) == \A j \in 1 .. Len(c) : f[d + j] = c[j]

(* The bytes of a frame: END, the escapes of all bytes, and END.            *)
LEMMA FrameBytes ==
  ASSUME NEW p \in Seq(Byte), p # <<>>, NEW e, Pieces(p, e), NEW f, f = <<END>> \o e[Len(p)] \o <<END>>
  PROVE  /\ f \in Seq(Byte) /\ Len(f) = Len(e[Len(p)]) + 2
         /\ Len(p) <= Len(e[Len(p)])
         /\ f[1] = END /\ f[Len(e[Len(p)]) + 2] = END
         /\ LiesAt(e[Len(p)], f, 1)
<1> DEFINE x == e[Len(p)]
<1>1. Len(p) \in Nat \ {0} /\ x \in Seq(Byte) /\ \A n \in 0 .. Len(p) : e[n] \in Seq(Byte)
  <2>1. Len(p) \in Nat \ {0}
    OBVIOUS
  <2>2. \A n \in 0 .. Len(p) : e[n] \in Seq(Byte)
    BY DEF Pieces
  <2>3. Len(p) \in 0 .. Len(p)
    BY <2>1
  <2>4. QED
    BY <2>1, <2>2, <2>3
<1>2. <<END>> \in Seq(Byte) /\ Len(<<END>>) = 1 /\ <<END>>[1] = END
  BY DEF Byte, END
<1>3. f = (<<END>> \o x) \o <<END>>
  OBVIOUS
<1> HIDE DEF x
<1> DEFINE y == <<END>> \o x
<1>4. /\ y \in Seq(Byte) /\ Len(y) = 1 + Len(x) /\ Len(x) \in Nat
      /\ \A i \in 1 .. 1 + Len(x) : y[i] = IF i <= 1 THEN <<END>>[i] ELSE x[i - 1]
  BY <1>1, <1>2, ConcatProperties, LenProperties
<1> HIDE DEF y
<1>5. /\ f \in Seq(Byte) /\ Len(f) = Len(x) + 2
      /\ \A i \in 1 .. 2 + Len(x) : f[i] = IF i <= 1 + Len(x) THEN y[i] ELSE <<END>>[i - (1 + Len(x))]
  <2>1. f = y \o <<END>>
    BY <1>3 DEF y
  <2>2. /\ y \o <<END>> \in Seq(Byte) /\ Len(y \o <<END>>) = Len(y) + 1
        /\ \A i \in 1 .. Len(y) + 1 :
             (y \o <<END>>)[i] = IF i <= Len(y) THEN y[i] ELSE <<END>>[i - Len(y)]
    BY <1>2, <1>4, ConcatProperties
  <2>3. QED
    BY ONLY <1>4, <2>1, <2>2
<1>6. LiesAt(x, f, 1)
  <2>1. SUFFICES ASSUME NEW j \in 1 .. Len(x) PROVE f[1 + j] = x[j]
    BY DEF LiesAt
  <2>2. j + 1 \in 1 .. 2 + Len(x) /\ j + 1 <= 1 + Len(x) /\ j + 1 \in 1 .. 1 + Len(x)
        /\ ~(j + 1 <= 1) /\ (j + 1) - 1 = j /\ 1 + j = j + 1
    BY <1>4
  <2>3. f[j + 1] = y[j + 1]
    BY <1>5, <2>2
  <2>4. y[j + 1] = x[j]
    BY <1>4, <2>2
  <2>5. QED
    BY <2>2, <2>3, <2>4
<1>7. f[1] = END /\ f[Len(x) + 2] = END
  <2>1. 1 \in 1 .. 2 + Len(x) /\ 1 <= 1 + Len(x) /\ 1 \in 1 .. 1 + Len(x) /\ Len(x) + 2 \in 1 .. 2 + Len(x)
        /\ ~(Len(x) + 2 <= 1 + Len(x)) /\ (Len(x) + 2) - (1 + Len(x)) = 1
    BY <1>4
  <2>2. f[1] = y[1] /\ y[1] = END
    BY <1>2, <1>4, <1>5, <2>1
  <2>3. f[Len(x) + 2] = <<END>>[1]
    BY <1>5, <2>1
  <2>4. QED
    BY <1>2, <2>2, <2>3
<1>8. Len(p) <= Len(x)
  <2>1. Len(e[Len(p)]) >= Len(p)
    BY <1>1, PiecesGrow
  <2>2. QED
    BY <1>1, <1>4, <2>1 DEF x
<1>9. QED
  BY <1>5, <1>6, <1>7, <1>8 DEF x

(* A packet that fits, and the pieces of its frame.                         *)
Framed(p, e, f) ==
  /\ p \in Seq(Byte) /\ p # <<>> /\ Fits(p)
  /\ Pieces(p, e) /\ f = <<END>> \o e[Len(p)] \o <<END>> /\ f = Frame(p)

(* Every packet that fits has such pieces.                                  *)
LEMMA FramedIs ==
  ASSUME NEW p \in Seq(Byte), p # <<>>, Fits(p)
  PROVE  \E e, f : Framed(p, e, f)
BY FrameIs DEF Framed

(* Where the escape of each byte lies in the frame.                         *)
LEMMA PieceOf ==
  ASSUME NEW p, NEW e, NEW f, Framed(p, e, f), NEW n \in 0 .. Len(p) - 1
  PROVE  /\ Len(e[n + 1]) = Len(e[n]) + Len(Escaped(p[n + 1]))
         /\ Len(e[n + 1]) <= Len(e[Len(p)])
         /\ LiesAt(Escaped(p[n + 1]), f, Len(e[n]) + 1)
<1> DEFINE x == e[Len(p)]
<1>1. p \in Seq(Byte) /\ p # <<>> /\ Pieces(p, e) /\ Len(p) \in Nat \ {0}
  BY DEF Framed
<1>2. \A m \in 0 .. Len(p) : e[m] \in Seq(Byte)
  BY <1>1 DEF Pieces
<1>3. Len(x) \in Nat
  <2>1. Len(p) \in 0 .. Len(p)
    BY <1>1
  <2>2. QED
    BY <1>2, <2>1
<1>4. LiesAt(x, f, 1)
  BY FrameBytes DEF Framed
<1> HIDE DEF x
<1>5. n \in 0 .. Len(p) /\ n + 1 \in 1 .. Len(p) /\ n + 1 \in 0 .. Len(p) /\ (n + 1) - 1 = n
      /\ Len(p) \in 0 .. Len(p) /\ n + 1 <= Len(p)
  BY <1>1
<1> DEFINE d == e[n]
           c == Escaped(p[n + 1])
           g == e[n + 1]
<1>6. g = d \o c
  BY <1>1, <1>5 DEF Pieces
<1>7. d \in Seq(Byte) /\ g \in Seq(Byte) /\ c \in Seq(Byte)
  <2>1. p[n + 1] \in Byte
    BY <1>1, <1>5
  <2>2. QED
    BY <1>1, <1>2, <1>5, <2>1, EscapedIs
<1>8. Len(g) <= Len(x) /\ \A j \in 1 .. Len(g) : x[j] = g[j]
  <2>1. /\ Len(e[n + 1]) <= Len(e[Len(p)])
        /\ \A j \in 1 .. Len(e[n + 1]) : e[Len(p)][j] = e[n + 1][j]
    <3> HIDE DEF d, c, g
    <3>1. QED
      BY <1>1, <1>5, PiecesGrow
  <2>2. QED
    BY <2>1 DEF x
<1> HIDE DEF d, c, g
<1>9. /\ Len(d) \in Nat /\ Len(c) \in Nat /\ Len(g) = Len(d) + Len(c)
      /\ \A i \in 1 .. Len(d) + Len(c) : g[i] = IF i <= Len(d) THEN d[i] ELSE c[i - Len(d)]
  BY <1>6, <1>7, ConcatProperties, LenProperties
<1>10. ASSUME NEW j \in 1 .. Len(c) PROVE f[Len(d) + 1 + j] = c[j]
  <2>1. Len(d) + j \in 1 .. Len(d) + Len(c) /\ ~(Len(d) + j <= Len(d)) /\ (Len(d) + j) - Len(d) = j
        /\ Len(d) + j \in 1 .. Len(g) /\ Len(d) + j \in 1 .. Len(x)
        /\ 1 + (Len(d) + j) = Len(d) + 1 + j
    BY <1>3, <1>8, <1>9
  <2>2. g[Len(d) + j] = c[j]
    BY <1>9, <2>1
  <2>3. x[Len(d) + j] = g[Len(d) + j]
    BY <1>8, <2>1
  <2>4. f[1 + (Len(d) + j)] = x[Len(d) + j]
    BY <1>4, <2>1 DEF LiesAt
  <2>5. QED
    BY <2>1, <2>2, <2>3, <2>4
<1>11. LiesAt(c, f, Len(d) + 1)
  BY <1>10 DEF LiesAt
<1>12. QED
  BY <1>8, <1>9, <1>11 DEF d, c, g, x

(* A turn changes the state of the parser and nothing else.                 *)
LEMMA StateSet ==
  ASSUME NEW u \in UartBuf, NEW st \in {"no frame", "frame", "escaping"}
  PROVE  /\ [u EXCEPT !.state = st] \in UartBuf /\ [u EXCEPT !.state = st].read = u.read
         /\ [u EXCEPT !.state = st].state = st /\ [u EXCEPT !.state = st].buf = u.buf
BY DEF UartBuf

(* A byte of the frame that is the next of the packet is stored.            *)
LEMMA ByteStored ==
  ASSUME NEW p, NEW e, NEW f, Framed(p, e, f), NEW s, NEW k, s.ub \in UartBuf,
         s.ub.read \in 0 .. Len(p) - 1, \A i \in 1 .. s.ub.read : s.ub.buf[i] = p[i],
         k = Len(e[s.ub.read + 1])
  PROVE  Parsed([finished |-> FALSE, ub |-> Stored(s.ub, p[s.ub.read + 1])], p, e, k + 1)
<1> DEFINE u == s.ub
           n == u.read
           v == Stored(u, p[n + 1])
<1>1. /\ Len(p) \in Nat \ {0} /\ u \in UartBuf /\ n \in 0 .. Len(p) - 1 /\ n + 1 < MAX_WRITE_BLOCK
      /\ p[n + 1] \in Byte
  <2>1. Len(p) <= Len(e[Len(p)]) /\ Len(f) = Len(e[Len(p)]) + 2
    BY FrameBytes DEF Framed
  <2>2. Len(f) < MAX_WRITE_BLOCK /\ MAX_WRITE_BLOCK \in Nat
    BY FrameAssumption DEF Framed, Fits
  <2>3. p \in Seq(Byte) /\ p # <<>>
    BY DEF Framed
  <2>4. Len(p) \in Nat \ {0} /\ p[n + 1] \in Byte
    BY <2>3
  <2>5. Len(e[Len(p)]) \in Nat
    <3>1. Len(p) \in 0 .. Len(p)
      BY <2>4
    <3>2. e[Len(p)] \in Seq(Byte)
      BY <3>1 DEF Framed, Pieces
    <3>3. QED
      BY <3>2
  <2> HIDE DEF u
  <2>6. n + 1 < MAX_WRITE_BLOCK
    <3> DEFINE l == Len(e[Len(p)])
               m == Len(f)
    <3>1. l \in Nat /\ Len(p) <= l /\ m = l + 2 /\ m < MAX_WRITE_BLOCK /\ MAX_WRITE_BLOCK \in Nat
      BY <2>1, <2>2, <2>5
    <3> HIDE DEF l, m
    <3>2. n \in 0 .. Len(p) - 1
      BY DEF u
    <3>3. QED
      BY <2>4, <3>1, <3>2
  <2>7. QED
    BY <2>4, <2>6 DEF u
<1> HIDE DEF u
<1>2. /\ v \in UartBuf /\ v.read = n + 1 /\ v.state = "frame" /\ v.buf[n + 1] = p[n + 1]
      /\ \A i \in 1 .. n : v.buf[i] = u.buf[i]
  BY <1>1, StoredIs
<1> HIDE DEF v
<1>3. \A i \in 1 .. n + 1 : v.buf[i] = p[i]
  <2>1. \A i \in 1 .. n : u.buf[i] = p[i]
    BY DEF u
  <2>2. \A i \in 1 .. n + 1 : i \in 1 .. n \/ i = n + 1
    BY <1>1
  <2>3. QED
    BY <1>2, <2>1, <2>2
<1>4. n + 1 <= Len(p)
  BY <1>1
<1>5. k = Len(e[v.read])
  BY <1>2 DEF u
<1> DEFINE t == [finished |-> FALSE, ub |-> v]
<1>6. t.finished = FALSE /\ t.ub = v
  OBVIOUS
<1> HIDE DEF t
<1>7. Parsed(t, p, e, k + 1)
  BY <1>2, <1>3, <1>4, <1>5, <1>6 DEF Parsed, Begun
<1>8. QED
  BY <1>7 DEF t, u, v

(* Each byte of the frame takes one turn, and the last finishes it.         *)
LEMMA TurnIs ==
  ASSUME NEW p, NEW e, NEW f, Framed(p, e, f), NEW s, NEW k \in 0 .. Len(f) - 1, Parsed(s, p, e, k)
  PROVE  /\ k = Len(f) - 1 => Dealt(After(s, f[k + 1]), p)
         /\ k # Len(f) - 1 => Parsed(After(s, f[k + 1]), p, e, k + 1)
<1> DEFINE u == s.ub
           n == u.read
           L == Len(e[Len(p)])
           byte == f[k + 1]
           a == After(s, byte)
<1>1. /\ Len(p) \in Nat \ {0} /\ L \in Nat /\ Len(p) <= L /\ Len(f) = L + 2 /\ L + 2 < MAX_WRITE_BLOCK
      /\ f \in Seq(Byte) /\ f[1] = END /\ f[L + 2] = END /\ MAX_WRITE_BLOCK \in Nat
  <2>1. Len(p) \in Nat \ {0}
    BY DEF Framed
  <2>2. /\ f \in Seq(Byte) /\ Len(f) = L + 2 /\ Len(p) <= L /\ f[1] = END /\ f[L + 2] = END
    BY FrameBytes DEF Framed
  <2>3. Len(f) < MAX_WRITE_BLOCK /\ MAX_WRITE_BLOCK \in Nat
    BY FrameAssumption DEF Framed, Fits
  <2>4. L \in Nat
    <3>1. Len(p) \in 0 .. Len(p)
      BY <2>1
    <3>2. e[Len(p)] \in Seq(Byte)
      BY <3>1 DEF Framed, Pieces
    <3>3. QED
      BY <3>2
  <2> HIDE DEF L
  <2>5. L + 2 < MAX_WRITE_BLOCK
    BY <2>2, <2>3
  <2>6. QED
    BY <2>1, <2>2, <2>3, <2>4, <2>5
<1>2. /\ s.finished = FALSE /\ u \in UartBuf /\ n \in Nat /\ n <= Len(p)
      /\ \A i \in 1 .. n : u.buf[i] = p[i]
  BY DEF Parsed, Begun, UartBuf
<1>3. byte \in Byte /\ k \in 0 .. L + 1 /\ (k = Len(f) - 1 <=> k = L + 1)
  <2>1. k \in 0 .. Len(f) - 1
    OBVIOUS
  <2> HIDE DEF L
  <2>2. k + 1 \in 1 .. Len(f) /\ k \in 0 .. L + 1 /\ (k = Len(f) - 1 <=> k = L + 1)
    BY <1>1, <2>1
  <2>3. byte \in Byte
    BY <1>1, <2>2
  <2>4. QED
    BY <2>2, <2>3
<1>4. u.read + 1 < MAX_WRITE_BLOCK
  <2> HIDE DEF L, u
  <2>1. QED
    BY <1>1, <1>2
<1>5. SUFFICES (k = L + 1 => Dealt(a, p)) /\ (k # L + 1 => Parsed(a, p, e, k + 1))
  <2>1. k = Len(f) - 1 <=> k = L + 1
    BY <1>3
  <2> HIDE DEF L
  <2>2. QED
    BY <2>1, Zenon
<1>6. /\ u.state = "no frame" /\ byte = END => a = [finished |-> FALSE, ub |-> [u EXCEPT !.state = "frame"]]
      /\ u.state = "frame" /\ byte = END =>
           a = [finished |-> TRUE, ub |-> [read |-> 0, state |-> "no frame", buf |-> u.buf]]
      /\ u.state = "frame" /\ byte = ESC => a = [finished |-> FALSE, ub |-> [u EXCEPT !.state = "escaping"]]
      /\ u.state = "frame" /\ byte \notin {END, ESC} => a = [finished |-> FALSE, ub |-> Stored(u, byte)]
      /\ u.state = "escaping" /\ byte = ESC_END => a = [finished |-> FALSE, ub |-> Stored(u, END)]
      /\ u.state = "escaping" /\ byte = ESC_ESC => a = [finished |-> FALSE, ub |-> Stored(u, ESC)]
  <2> HIDE DEF byte, a, L, u
  <2>1. s.ub \in UartBuf /\ s.ub.read + 1 < MAX_WRITE_BLOCK
    BY <1>2, <1>4 DEF u
  <2>2. byte \in Byte
    BY <1>3
  <2>3. /\ s.ub.state = "no frame" /\ byte = END =>
              After(s, byte) = [finished |-> FALSE, ub |-> [s.ub EXCEPT !.state = "frame"]]
        /\ s.ub.state = "frame" /\ byte = END =>
              After(s, byte) = [finished |-> TRUE,
                                ub |-> [read |-> 0, state |-> "no frame", buf |-> s.ub.buf]]
        /\ s.ub.state = "frame" /\ byte = ESC =>
              After(s, byte) = [finished |-> FALSE, ub |-> [s.ub EXCEPT !.state = "escaping"]]
        /\ s.ub.state = "frame" /\ byte \notin {END, ESC} =>
              After(s, byte) = [finished |-> FALSE, ub |-> Stored(s.ub, byte)]
        /\ s.ub.state = "escaping" /\ byte = ESC_END =>
              After(s, byte) = [finished |-> FALSE, ub |-> Stored(s.ub, END)]
        /\ s.ub.state = "escaping" /\ byte = ESC_ESC =>
              After(s, byte) = [finished |-> FALSE, ub |-> Stored(s.ub, ESC)]
    BY <2>1, <2>2, AfterIs
  <2>4. QED
    BY <2>3 DEF a, u
<1>7. \A m \in 0 .. Len(p) - 1 :
        /\ Len(e[m + 1]) = Len(e[m]) + Len(Escaped(p[m + 1])) /\ Len(e[m + 1]) <= L
        /\ LiesAt(Escaped(p[m + 1]), f, Len(e[m]) + 1)
  BY PieceOf
<1>8. CASE u.state = "no frame"
  <2>1. k = 0 /\ n = 0
    BY <1>8 DEF Parsed, Begun
  <2>2. a = [finished |-> FALSE, ub |-> [u EXCEPT !.state = "frame"]]
    <3>1. byte = END
      BY <1>1, <2>1
    <3>2. QED
      BY <1>2, <1>3, <1>4, <1>8, <3>1, <1>6
  <2>3. e[0] = <<>>
    BY DEF Framed, Pieces
  <2> DEFINE v == [u EXCEPT !.state = "frame"]
  <2>4. v \in UartBuf /\ v.read = n /\ v.state = "frame" /\ v.buf = u.buf
    BY <1>2, StateSet
  <2>5. a.finished = FALSE /\ a.ub = v
    BY <2>2
  <2> HIDE DEF u, a, v
  <2>6. k + 1 = Len(e[v.read]) + 1
    BY <2>1, <2>3, <2>4
  <2>7. Parsed(a, p, e, k + 1)
    BY <1>2, <2>4, <2>5, <2>6 DEF Parsed, Begun
  <2>8. k # L + 1
    <3> HIDE DEF L
    <3>1. QED
      BY <1>1, <2>1
  <2>9. QED
    BY <2>7, <2>8
<1>9. ASSUME n < Len(p)
      PROVE  /\ n \in 0 .. Len(p) - 1 /\ p[n + 1] \in Byte
             /\ Len(e[n]) \in Nat
             /\ Len(e[n + 1]) = Len(e[n]) + Len(Escaped(p[n + 1])) /\ Len(e[n + 1]) <= L
             /\ LiesAt(Escaped(p[n + 1]), f, Len(e[n]) + 1)
  <2>1. n \in 0 .. Len(p) - 1 /\ n \in 0 .. Len(p)
    BY <1>1, <1>2, <1>9
  <2>2. p[n + 1] \in Byte
    <3>1. n + 1 \in 1 .. Len(p) /\ p \in Seq(Byte)
      BY <1>1, <2>1 DEF Framed
    <3>2. QED
      BY <3>1
  <2>3. Len(e[n]) \in Nat
    <3>1. e[n] \in Seq(Byte)
      BY <2>1 DEF Framed, Pieces
    <3>2. QED
      BY <3>1
  <2> DEFINE m == n
  <2>4. m \in 0 .. Len(p) - 1
    BY <2>1
  <2> HIDE DEF m
  <2>5. /\ Len(e[m + 1]) = Len(e[m]) + Len(Escaped(p[m + 1])) /\ Len(e[m + 1]) <= L
        /\ LiesAt(Escaped(p[m + 1]), f, Len(e[m]) + 1)
    BY <1>7, <2>4
  <2>6. QED
    BY <2>1, <2>2, <2>3, <2>5 DEF m
<1>10. CASE u.state = "frame" /\ n = Len(p)
  <2>1. k = L + 1
    BY <1>10 DEF Parsed, Begun
  <2>2. byte = END
    <3> HIDE DEF L
    <3>1. k + 1 = L + 2
      BY <1>1, <2>1
    <3>2. QED
      BY <1>1, <3>1
  <2>3. a = [finished |-> TRUE, ub |-> [read |-> 0, state |-> "no frame", buf |-> u.buf]]
    BY <1>2, <1>3, <1>4, <1>10, <2>2, <1>6
  <2>4. u.buf \in [1 .. MAX_WRITE_BLOCK -> Byte]
    BY <1>2 DEF UartBuf
  <2>5. a.finished = TRUE /\ a.ub.read = 0 /\ a.ub.state = "no frame" /\ a.ub.buf = u.buf
        /\ a.ub \in UartBuf
    <3> HIDE DEF u, a
    <3>1. QED
      BY <2>3, <2>4 DEF UartBuf
  <2> HIDE DEF u, a
  <2>6. Dealt(a, p)
    BY <1>2, <1>10, <2>5 DEF Dealt
  <2>7. QED
    BY <2>1, <2>6
<1>11. CASE u.state = "frame" /\ n # Len(p)
  <2>1. n < Len(p)
    <3> HIDE DEF u
    <3>1. QED
      BY <1>1, <1>2, <1>11
  <2>2. k = Len(e[n]) + 1
    BY <1>11 DEF Parsed, Begun
  <2> DEFINE b == p[n + 1]
             c == Escaped(b)
             d == Len(e[n])
             g == Len(e[n + 1])
  <2>3. /\ n \in 0 .. Len(p) - 1 /\ b \in Byte /\ d \in Nat /\ g = d + Len(c) /\ g <= L /\ k = d + 1
        /\ LiesAt(c, f, d + 1)
    BY <1>9, <2>1, <2>2
  <2>4. CASE b \notin {END, ESC}
    <3>1. c = <<b>>
      BY <2>3, <2>4, EscapedIs
    <3> HIDE DEF c, b, d, g, L, u, a, byte
    <3>2. Len(c) = 1 /\ c[1] = b
      BY <3>1
    <3>3. k + 1 = (d + 1) + 1 /\ k = g /\ k # L + 1 /\ 1 \in 1 .. Len(c)
      BY <1>1, <2>3, <3>2
    <3>4. byte = b
      BY <2>3, <3>2, <3>3 DEF byte, LiesAt
    <3>5. a = [finished |-> FALSE, ub |-> Stored(u, b)]
      BY <1>2, <1>4, <1>11, <2>3, <2>4, <3>4, <1>6
    <3>6. Parsed([finished |-> FALSE, ub |-> Stored(u, b)], p, e, k + 1)
      BY <1>2, <2>3, <3>3, ByteStored DEF u, b, g
    <3>7. QED
      BY <3>3, <3>5, <3>6
  <2>5. CASE b \in {END, ESC}
    <3>1. c[1] = ESC /\ Len(c) = 2
      <4>1. CASE b = END
        <5>1. c = <<ESC, ESC_END>>
          BY <2>3, <4>1, EscapedIs
        <5> HIDE DEF c
        <5>2. QED
          BY <5>1
      <4>2. CASE b = ESC
        <5>1. c = <<ESC, ESC_ESC>>
          BY <2>3, <4>2, EscapedIs
        <5> HIDE DEF c
        <5>2. QED
          BY <5>1
      <4>3. QED
        BY <2>5, <4>1, <4>2
    <3> HIDE DEF c, b, d, g, L, u, a, byte
    <3>2. k + 1 = (d + 1) + 1 /\ k + 1 = d + 2 /\ k # L + 1 /\ 1 \in 1 .. Len(c)
      BY <1>1, <2>3, <3>1
    <3>3. byte = ESC
      BY <2>3, <3>1, <3>2 DEF byte, LiesAt
    <3> DEFINE v == [u EXCEPT !.state = "escaping"]
    <3>4. a = [finished |-> FALSE, ub |-> v]
      BY <1>2, <1>3, <1>4, <1>11, <3>3, <1>6
    <3>5. v \in UartBuf /\ v.read = n /\ v.state = "escaping" /\ v.buf = u.buf
      BY <1>2, StateSet
    <3>6. a.finished = FALSE /\ a.ub = v
      BY <3>4
    <3> HIDE DEF v
    <3>7. k + 1 = Len(e[v.read]) + 2 /\ p[v.read + 1] \in {END, ESC}
      BY <2>5, <3>2, <3>5 DEF d, b
    <3>8. Parsed(a, p, e, k + 1)
      BY <1>2, <2>1, <3>5, <3>6, <3>7 DEF Parsed, Begun
    <3>9. QED
      BY <3>2, <3>8
  <2>6. QED
    BY <2>4, <2>5
<1>12. CASE u.state = "escaping"
  <2>1. n < Len(p) /\ k = Len(e[n]) + 2 /\ p[n + 1] \in {END, ESC}
    BY <1>12 DEF Parsed, Begun
  <2> DEFINE b == p[n + 1]
             c == Escaped(b)
             d == Len(e[n])
             g == Len(e[n + 1])
  <2>2. /\ n \in 0 .. Len(p) - 1 /\ b \in Byte /\ d \in Nat /\ g = d + Len(c) /\ g <= L /\ k = d + 2
        /\ LiesAt(c, f, d + 1)
    BY <1>9, <2>1
  <2>3. b \in {END, ESC}
    BY <2>1
  <2>4. Len(c) = 2 /\ (b = END => c[2] = ESC_END) /\ (b = ESC => c[2] = ESC_ESC)
    <3>1. END # ESC
      BY DEF END, ESC
    <3>2. CASE b = END
      <4>1. c = <<ESC, ESC_END>>
        BY <2>2, <3>2, EscapedIs
      <4> HIDE DEF c, b
      <4>2. QED
        BY <3>1, <3>2, <4>1
    <3>3. CASE b = ESC
      <4>1. c = <<ESC, ESC_ESC>>
        BY <2>2, <3>3, EscapedIs
      <4> HIDE DEF c, b
      <4>2. QED
        BY <3>1, <3>3, <4>1
    <3>4. QED
      BY <2>3, <3>2, <3>3
  <2> HIDE DEF c, b, d, g, L, u, a, byte
  <2>5. k + 1 = (d + 1) + 2 /\ k = g /\ k # L + 1 /\ 2 \in 1 .. Len(c)
    BY <1>1, <2>2, <2>4
  <2>6. byte = c[2]
    BY <2>2, <2>5 DEF byte, LiesAt
  <2>7. a = [finished |-> FALSE, ub |-> Stored(u, b)]
    <3>1. CASE b = END
      BY <1>2, <1>3, <1>4, <1>12, <2>4, <2>6, <3>1, <1>6
    <3>2. CASE b = ESC
      BY <1>2, <1>3, <1>4, <1>12, <2>4, <2>6, <3>2, <1>6
    <3>3. QED
      BY <2>3, <3>1, <3>2
  <2>8. Parsed([finished |-> FALSE, ub |-> Stored(u, b)], p, e, k + 1)
    BY <1>2, <2>2, <2>5, ByteStored DEF u, b, g
  <2>9. QED
    BY <2>5, <2>7, <2>8
<1>13. u.state \in {"no frame", "frame", "escaping"}
  BY <1>2 DEF UartBuf
<1>14. QED
  BY <1>8, <1>10, <1>11, <1>12, <1>13

(* No frame is being parsed.                                                *)
NoFrame == ub \in UartBuf /\ ub.read = 0 /\ ub.state = "no frame"

(* The turns for the bytes of a frame that have come.                       *)
LEMMA ReceivedAs ==
  ASSUME NEW p, NEW e, NEW f, Framed(p, e, f), NoFrame,
         NEW q \in Seq(Byte), Len(q) <= Len(f), LiesAt(q, f, 0)
  PROVE  /\ Len(q) = Len(f) => Dealt(uart_receive_bytes(q), p)
         /\ Len(q) # Len(f) => Begun(uart_receive_bytes(q), p)
<1>1. PICK t : /\ t[0] = FirstTurn
               /\ \A k \in 1 .. Len(q) : t[k] = ReceiveByte(t[k - 1], q[k])
               /\ uart_receive_bytes(q) = t[Len(q)]
  BY ReceivedIs
<1>2. Len(q) \in Nat /\ Len(f) \in Nat /\ Len(f) >= 2 /\ Len(p) \in Nat
  <2>1. f \in Seq(Byte) /\ Len(f) = Len(e[Len(p)]) + 2 /\ p \in Seq(Byte)
    BY FrameBytes DEF Framed
  <2>2. Len(p) \in Nat /\ Len(p) \in 0 .. Len(p)
    BY <2>1
  <2>3. e[Len(p)] \in Seq(Byte)
    BY <2>2 DEF Framed, Pieces
  <2> DEFINE l == Len(e[Len(p)])
  <2>4. l \in Nat /\ Len(f) = l + 2
    BY <2>1, <2>3
  <2> HIDE DEF l
  <2>5. Len(q) \in Nat
    OBVIOUS
  <2>6. QED
    BY <2>2, <2>4, <2>5
<1> DEFINE At(k) == IF k = Len(f) THEN Dealt(t[k], p) ELSE Parsed(t[k], p, e, k)
           S == {k \in Nat : k <= Len(q) => At(k)}
<1>3. 0 \in S
  <2>1. t[0].finished = FALSE /\ t[0].ub = ub
    <3>1. FirstTurn.finished = FALSE /\ FirstTurn.ub = ub
      BY DEF FirstTurn
    <3>2. QED
      BY <1>1, <3>1
  <2>2. t[0].ub.read = 0
    BY <2>1 DEF NoFrame
  <2>3. t[0].ub \in UartBuf
    BY <2>1 DEF NoFrame
  <2>4. t[0].ub.state = "no frame"
    BY <2>1 DEF NoFrame
  <2>5. Begun(t[0], p)
    <3>1. t[0].ub.read <= Len(p)
      BY <1>2, <2>2
    <3>2. \A i \in 1 .. t[0].ub.read : t[0].ub.buf[i] = p[i]
      BY <2>2
    <3>3. QED
      BY <2>1, <2>3, <3>1, <3>2 DEF Begun
  <2>6. Parsed(t[0], p, e, 0)
    BY <2>5, <2>2, <2>4 DEF Parsed
  <2>7. At(0)
    BY <1>2, <2>6
  <2> HIDE DEF At
  <2>8. QED
    BY <2>7
<1>4. ASSUME NEW k \in S PROVE k + 1 \in S
  <2>1. k \in Nat /\ (k <= Len(q) => At(k))
    <3> HIDE DEF At
    <3>1. QED
      OBVIOUS
  <2>2. SUFFICES ASSUME k + 1 <= Len(q) PROVE At(k + 1)
    <3> HIDE DEF At
    <3>1. QED
      BY <2>1
  <2>3. /\ k \in Nat /\ k <= Len(q) /\ k # Len(f) /\ k \in 0 .. Len(f) - 1
        /\ k + 1 \in 1 .. Len(q) /\ (k + 1) - 1 = k /\ (k = Len(f) - 1 <=> k + 1 = Len(f))
    BY <1>2, <2>1, <2>2
  <2>4. Parsed(t[k], p, e, k)
    BY <2>1, <2>3
  <2>5. t[k + 1] = After(t[k], f[k + 1])
    <3>1. q[k + 1] = f[k + 1]
      <4>1. 0 + (k + 1) = k + 1
        BY <2>3
      <4>2. QED
        BY <2>3, <4>1 DEF LiesAt
    <3>2. t[k + 1] = ReceiveByte(t[k], f[k + 1])
      BY <1>1, <2>3, <3>1
    <3>3. t[k].finished = FALSE
      BY <2>4 DEF Parsed, Begun
    <3>4. ReceiveByte(t[k], f[k + 1]) = IF t[k].finished THEN t[k] ELSE After(t[k], f[k + 1])
      BY ReceiveByteIs
    <3>5. QED
      BY <3>2, <3>3, <3>4
  <2>6. /\ k = Len(f) - 1 => Dealt(After(t[k], f[k + 1]), p)
        /\ k # Len(f) - 1 => Parsed(After(t[k], f[k + 1]), p, e, k + 1)
    <3>1. f = Frame(p)
      BY DEF Framed
    <3>2. QED
      BY <2>3, <2>4, <3>1, TurnIs
  <2>7. QED
    BY <2>3, <2>5, <2>6
<1>5. S = Nat
  <2>1. S \subseteq Nat
    OBVIOUS
  <2> HIDE DEF S
  <2>2. QED
    BY <1>3, <1>4, <2>1, EveryNatural
<1>6. At(Len(q))
  <2> HIDE DEF At
  <2>1. QED
    BY <1>2, <1>5
<1>7. QED
  BY <1>1, <1>6 DEF Parsed

-----------------------------------------------------------------------------
(* The loop, with nothing damaged: it never refuses, and between two events *)
(* the parser stands where it stood.                                        *)
LoopOK ==
  /\ upc \in {"receive", "wait", "abort", "answer"}
  /\ rx_busy \in BOOLEAN /\ (rx_busy <=> upc \in {"wait", "abort"})
  /\ dma_on = rx_busy /\ base = 0
  /\ acc \in Nat /\ NoFrame

(* Only pauses have been posted.                                            *)
EventsOK == events \in Seq({"timeout"}) /\ Len(events) <= HalfQueue

(* What moves between host and loop is bytes.                               *)
BytesOK == wire \in Seq(Byte) /\ fifo \in Seq(Byte) /\ cmd \in Seq(Byte)

(* Nothing is on its way any more.                                          *)
AllArrived == wire = <<>> /\ fifo = <<>>

(* The pauses of this frame and the events left over are not too many.      *)
Patient == AllArrived \/ acc + Len(events) <= HalfQueue + hurt.pauses

(* A packet is in the buffer, with every byte as it was sent.               *)
Copied(p) == \A i \in 1 .. Len(p) : ub.buf[i] = p[i]

(* Where the packet that waits for its answer is.                           *)
Arriving(p) == upc = "receive" /\ done = <<>> /\ fifo \o wire = Frame(p)
(* Its bytes are being collected.                                           *)
Receiving(p) == upc = "wait" /\ done = <<>> /\ (cmd \o fifo) \o wire = Frame(p) /\ Patient
(* It is complete.                                                          *)
Executing(p) == upc = "abort" /\ done = <<>> /\ AllArrived /\ Copied(p)
(* It has been dealt with.                                                  *)
Answering == upc = "answer" /\ done = sent /\ AllArrived

(* The host waits for the answer to one packet.                             *)
Underway ==
  \E p \in Packets :
    /\ Fits(p) /\ sent = <<p>>
    /\ Arriving(p) \/ Receiving(p) \/ Executing(p) \/ Answering

(* The host waits for nothing.                                              *)
Quiet ==
  /\ upc \in {"receive", "wait"} /\ done = sent /\ AllArrived
  /\ upc = "wait" => cmd = <<>> /\ acc = 0

(* All of that, as long as nothing is damaged.                              *)
Undamaged ==
  /\ LoopOK /\ EventsOK /\ BytesOK
  /\ IF host = "waits" THEN Underway ELSE Quiet

(* What has been damaged is counted, and the pauses are bounded.            *)
HurtOK ==
  /\ hurt \in [bytes : Nat, answers : Nat, pauses : Nat, after : Nat]
  /\ hurt.pauses <= MaxPauses

(* The invariant.                                                           *)
FrameInv == HurtOK /\ (hurt.bytes = 0 => Undamaged)

-----------------------------------------------------------------------------
(* Bytes in three places.                                                   *)
LEMMA Places ==
  ASSUME NEW a \in Seq(Byte), NEW b \in Seq(Byte), NEW c \in Seq(Byte)
  PROVE  (a \o b) \o c = a \o (b \o c)
BY ConcatAssociative

(* Bytes that move from one place to the next.                              *)
LEMMA HeadMoves ==
  ASSUME NEW a \in Seq(Byte), NEW b \in Seq(Byte), b # <<>>
  PROVE  /\ Append(a, Head(b)) \in Seq(Byte) /\ Tail(b) \in Seq(Byte)
         /\ Append(a, Head(b)) \o Tail(b) = a \o b
<1>1. Head(b) \in Byte /\ Tail(b) \in Seq(Byte)
  BY HeadTailProperties
<1>2. Append(a, Head(b)) \in Seq(Byte) /\ Append(a, Head(b)) = a \o <<Head(b)>>
  BY <1>1, AppendProperties, AppendIsConcat
<1>3. <<Head(b)>> \o Tail(b) = b
  <2>1. b = SubSeq(b, 1, Len(b))
    BY SubSeqFull
  <2>2. Len(b) \in Nat \ {0}
    BY EmptySeq
  <2>3. SubSeq(b, 1, Len(b)) = <<b[1]>> \o SubSeq(b, 1 + 1, Len(b))
    <3>1. 1 \in 1 .. Len(b) /\ Len(b) \in 1 .. Len(b)
      BY <2>2
    <3>2. QED
      BY <3>1, SubSeqRecursiveFirst
  <2>4. Tail(b) = SubSeq(b, 2, Len(b))
    BY TailIsSubSeq
  <2>5. Head(b) = b[1]
    BY <2>2
  <2>6. QED
    BY <2>1, <2>3, <2>4, <2>5
<1>4. <<Head(b)>> \in Seq(Byte)
  BY <1>1
<1>5. (a \o <<Head(b)>>) \o Tail(b) = a \o (<<Head(b)>> \o Tail(b))
  BY <1>1, <1>4, ConcatAssociative
<1>6. QED
  BY <1>1, <1>2, <1>3, <1>5

(* A buffer that has been cleared.                                          *)
LEMMA ClearedIs ==
  ASSUME NEW s \in Seq(Byte)
  PROVE  /\ [i \in DOMAIN s |-> 0] \in Seq(Byte)
         /\ Len([i \in DOMAIN s |-> 0]) = Len(s)
<1>1. DOMAIN s = 1 .. Len(s) /\ Len(s) \in Nat
  OBVIOUS
<1>2. 0 \in Byte
  BY DEF Byte
<1> DEFINE l == Len(s)
<1> HIDE DEF l
<1>3. l \in Nat => [i \in 1 .. l |-> 0] \in Seq(Byte) /\ Len([i \in 1 .. l |-> 0]) = l
  BY <1>2
<1>4. QED
  BY <1>1, <1>3 DEF l

(* What has come of bytes is their beginning.                               *)
LEMMA BeginningOf ==
  ASSUME NEW a \in Seq(Byte), NEW b \in Seq(Byte), NEW f, f = a \o b
  PROVE  /\ Len(a) \in Nat /\ Len(b) \in Nat /\ Len(f) = Len(a) + Len(b) /\ LiesAt(a, f, 0)
<1>1. /\ Len(a) \in Nat /\ Len(b) \in Nat /\ Len(a \o b) = Len(a) + Len(b)
      /\ \A i \in 1 .. Len(a) + Len(b) : (a \o b)[i] = IF i <= Len(a) THEN a[i] ELSE b[i - Len(a)]
  BY ConcatProperties, LenProperties
<1>2. \A i \in 1 .. Len(a) : (a \o b)[0 + i] = a[i]
  BY <1>1
<1>3. QED
  BY <1>1, <1>2 DEF LiesAt

(* A packet that fits, and its frame.                                       *)
LEMMA PacketIs ==
  ASSUME NEW p \in Packets, Fits(p)
  PROVE  /\ p \in Seq(Byte) /\ p # <<>> /\ Len(p) \in Nat /\ Len(p) >= 4 /\ p[1] = 0
         /\ Len(p) = HeaderSize + DataLen(p) /\ Len(p) < MAX_WRITE_BLOCK
         /\ Frame(p) \in Seq(Byte) /\ Len(Frame(p)) \in Nat /\ Len(Frame(p)) < MAX_WRITE_BLOCK
         /\ Frame(p) # <<>> /\ p[3] \in Byte /\ p[4] \in Byte
         /\ \E e : Framed(p, e, Frame(p))
<1>1. /\ p \in Seq(Byte) /\ p[1] = 0 /\ Len(p) >= HeaderSize /\ Len(p) = HeaderSize + DataLen(p)
  <2>1. p \in Seq(0 .. 255) /\ p[1] = 0 /\ Len(p) >= HeaderSize /\ Len(p) = HeaderSize + DataLen(p)
    BY PacketAssumption
  <2>2. QED
    BY <2>1 DEF Byte
<1>2. HeaderSize >= 4 /\ HeaderSize \in Nat /\ MAX_WRITE_BLOCK \in Nat
  BY FrameAssumption
<1>3. Len(p) \in Nat
  BY <1>1
<1>4. Len(p) >= 4
  BY <1>1, <1>2, <1>3
<1>5. p # <<>>
  <2>1. Len(<<>>) = 0
    OBVIOUS
  <2>2. QED
    BY <1>4, <2>1
<1>6. PICK e : Framed(p, e, Frame(p))
  <2>1. PICK e, f : Framed(p, e, f)
    BY <1>1, <1>5, FramedIs
  <2>2. f = Frame(p)
    BY <2>1 DEF Framed
  <2>3. QED
    BY <2>1, <2>2
<1> DEFINE f == Frame(p)
<1>7. f \in Seq(Byte) /\ Len(f) = Len(e[Len(p)]) + 2 /\ Len(p) <= Len(e[Len(p)]) /\ Len(e[Len(p)]) \in Nat
  <2>1. Framed(p, e, f)
    BY <1>6
  <2> HIDE DEF f
  <2>2. f \in Seq(Byte) /\ Len(f) = Len(e[Len(p)]) + 2 /\ Len(p) <= Len(e[Len(p)])
    BY <2>1, FrameBytes DEF Framed
  <2>3. Len(p) \in 0 .. Len(p)
    BY <1>3
  <2>4. e[Len(p)] \in Seq(Byte)
    BY <2>1, <2>3 DEF Framed, Pieces
  <2>5. Len(e[Len(p)]) \in Nat
    BY <2>4
  <2>6. QED
    BY <2>2, <2>5
<1>8. Len(f) < MAX_WRITE_BLOCK
  BY DEF Fits
<1> HIDE DEF f
<1> DEFINE l == Len(e[Len(p)])
           m == Len(f)
<1>9. l \in Nat /\ m = l + 2 /\ Len(p) <= l /\ m < MAX_WRITE_BLOCK
  BY <1>7, <1>8
<1> HIDE DEF l, m
<1>10. m \in Nat /\ m # 0 /\ Len(p) < MAX_WRITE_BLOCK
  BY <1>2, <1>3, <1>9
<1>11. f # <<>>
  <2>1. Len(<<>>) = 0
    OBVIOUS
  <2>2. QED
    BY <1>10, <2>1 DEF m
<1>12. f \in Seq(Byte) /\ Len(f) \in Nat /\ Len(f) < MAX_WRITE_BLOCK /\ f # <<>>
  BY <1>7, <1>8, <1>10, <1>11 DEF m
<1>13. p[3] \in Byte /\ p[4] \in Byte
  BY <1>1, <1>3, <1>4
<1>14. QED
  BY <1>1, <1>3, <1>4, <1>5, <1>6, <1>10, <1>12, <1>13 DEF f

(* A command that is being received is not refused, once its header has     *)
(* come.                                                                    *)
LEMMA NotRefused ==
  ASSUME NEW p \in Packets, Fits(p), NEW n \in 4 .. Len(p), NEW count \in Nat, count < MAX_WRITE_BLOCK,
         NEW u, u.read = n, u.buf[1] = p[1], u.buf[3] = p[3], u.buf[4] = p[4]
  PROVE  ~Refused(u, count)
<1>1. p[1] = 0 /\ Len(p) = HeaderSize + DataLen(p) /\ Len(p) < MAX_WRITE_BLOCK
  BY PacketIs
<1>2. Len(p) \in Nat /\ p[3] \in Byte /\ p[4] \in Byte
  BY PacketIs
<1>3. n \in Nat /\ n <= Len(p)
  BY <1>2
<1> DEFINE d == DataLen(p)
<1>4. d \in Nat /\ DataLen(u.buf) = d /\ Len(p) = HeaderSize + d
  <2>1. DataLen(p) = p[3] + 256 * p[4] /\ DataLen(u.buf) = u.buf[3] + 256 * u.buf[4]
    BY DEF DataLen
  <2> DEFINE x == p[3]
             y == p[4]
  <2>2. x \in 0 .. 255 /\ y \in 0 .. 255
    BY <1>2 DEF Byte
  <2>3. d = x + 256 * y /\ DataLen(u.buf) = d
    BY <2>1
  <2> HIDE DEF x, y
  <2>4. x + 256 * y \in Nat
    BY <2>2
  <2>5. QED
    BY <1>1, <2>3, <2>4
<1> HIDE DEF d
<1>5. {HeaderSize, ExtraBytes, MAX_WRITE_BLOCK} \subseteq Nat /\ ExtraBytes >= HeaderSize
  BY FrameAssumption
<1>6. ~(d >= MAX_WRITE_BLOCK) /\ ~(n > d + ExtraBytes)
  BY <1>1, <1>2, <1>3, <1>4, <1>5
<1>7. ~(count >= MAX_WRITE_BLOCK)
  BY <1>5
<1>8. QED
  BY <1>1, <1>4, <1>6, <1>7 DEF Refused

(* What do_cmd takes is the packet.                                         *)
LEMMA CommandIs ==
  ASSUME NEW p \in Packets, Fits(p), NEW b \in [1 .. MAX_WRITE_BLOCK -> Byte],
         \A i \in 1 .. Len(p) : b[i] = p[i]
  PROVE  CommandIn(b) = p
<1>1. /\ p \in Seq(Byte) /\ Len(p) \in Nat /\ Len(p) >= 4
      /\ Len(p) = HeaderSize + DataLen(p) /\ Len(p) < MAX_WRITE_BLOCK /\ MAX_WRITE_BLOCK \in Nat
  BY PacketIs, FrameAssumption
<1>2. DataLen(b) = DataLen(p)
  <2>1. b[3] = p[3] /\ b[4] = p[4]
    BY <1>1
  <2>2. QED
    BY <2>1 DEF DataLen
<1>3. CommandIn(b) = SubSeq(b, 1, Len(p))
  <2>1. HeaderSize + DataLen(b) = Len(p)
    BY <1>1, <1>2
  <2>2. QED
    BY <1>1, <2>1 DEF CommandIn
<1>4. \A i \in 1 .. Len(p) : b[i] \in Byte /\ b[i] = p[i]
  BY <1>1
<1>5. /\ SubSeq(b, 1, Len(p)) \in Seq(Byte) /\ Len(SubSeq(b, 1, Len(p))) = Len(p)
      /\ \A i \in 1 .. Len(p) : SubSeq(b, 1, Len(p))[i] = b[i]
  <2> DEFINE n == Len(p)
  <2>1. n \in Nat /\ n >= 4 /\ \A i \in 1 .. n : b[i] \in Byte
    BY <1>1, <1>4
  <2> HIDE DEF n
  <2>2. 1 \in Int /\ n \in Int /\ 1 <= n /\ n - 1 + 1 = n /\ \A i \in 1 .. n : 1 + i - 1 = i
    BY <2>1
  <2>3. /\ SubSeq(b, 1, n) \in Seq(Byte)
        /\ Len(SubSeq(b, 1, n)) = IF 1 <= n THEN n - 1 + 1 ELSE 0
        /\ \A i \in 1 .. n - 1 + 1 : SubSeq(b, 1, n)[i] = b[1 + i - 1]
    BY <2>1, <2>2, SubSeqProperties
  <2>4. QED
    BY <2>2, <2>3 DEF n
<1> DEFINE q == SubSeq(b, 1, Len(p))
<1>6. q \in Seq(Byte) /\ Len(q) = Len(p) /\ \A i \in 1 .. Len(q) : q[i] = p[i]
  BY <1>4, <1>5
<1> HIDE DEF q
<1>7. q = p
  BY <1>1, <1>6, SeqEqual
<1>8. QED
  BY <1>3, <1>7 DEF q

(* ub_state_recovery gives the parser its state back.                       *)
LEMMA RecoveredIs ==
  ASSUME NEW u \in UartBuf, NEW v \in UartBuf
  PROVE  /\ [v EXCEPT !.read = u.read, !.state = u.state] \in UartBuf
         /\ [v EXCEPT !.read = u.read, !.state = u.state].read = u.read
         /\ [v EXCEPT !.read = u.read, !.state = u.state].state = u.state
BY DEF UartBuf

-----------------------------------------------------------------------------
(* What each step preserves.  Damage is never undone, so that a state that  *)
(* follows with none follows a state with none.                             *)
LEMMA ReceiveKeeps == FrameInv /\ Receive => FrameInv'
<1>1. SUFFICES ASSUME FrameInv, Receive PROVE FrameInv'
  OBVIOUS
<1>2. HurtOK' /\ UNCHANGED hurt
  BY <1>1 DEF FrameInv, HurtOK, Receive
<1>3. SUFFICES ASSUME hurt.bytes = 0 PROVE Undamaged'
  BY <1>2 DEF FrameInv
<1>4. Undamaged
  BY <1>1, <1>3 DEF FrameInv
<1>5. /\ upc = "receive" /\ upc' = "wait" /\ rx_busy' = TRUE /\ cmd' = <<>> /\ acc' = 0
      /\ dma_on' = TRUE /\ base' = 0
      /\ UNCHANGED <<wire, fifo, events, ub, host, sent, done>>
  <2>1. upc = "receive" => ~dma_on
    BY <1>4 DEF Undamaged, LoopOK
  <2>2. QED
    BY <1>1, <2>1 DEF Receive, StartReception
<1>6. LoopOK'
  BY <1>4, <1>5 DEF Undamaged, LoopOK, NoFrame
<1>7. EventsOK' /\ BytesOK'
  BY <1>4, <1>5 DEF Undamaged, EventsOK, BytesOK
<1>8. CASE host = "waits"
  <2>1. PICK p \in Packets : Fits(p) /\ sent = <<p>> /\ Arriving(p)
    BY <1>4, <1>5, <1>8 DEF Undamaged, Underway, Receiving, Executing, Answering
  <2>2. done' = <<>> /\ (cmd' \o fifo') \o wire' = Frame(p)
    <3>1. <<>> \o fifo = fifo
      BY <1>4, ConcatEmptySeq DEF Undamaged, BytesOK
    <3>2. QED
      BY <1>5, <2>1, <3>1 DEF Arriving
  <2>3. Patient'
    <3>1. Len(events) <= HalfQueue /\ Len(events) \in Nat
      BY <1>4 DEF Undamaged, EventsOK
    <3>2. hurt.pauses \in Nat /\ HalfQueue \in Nat
      BY <1>1, FrameAssumption DEF FrameInv, HurtOK
    <3> DEFINE l == Len(events)
               h == hurt.pauses
    <3>3. l \in Nat /\ h \in Nat /\ l <= HalfQueue
      BY <3>1, <3>2
    <3>4. acc' = 0 /\ Len(events') = l /\ hurt'.pauses = h
      BY <1>2, <1>5
    <3> HIDE DEF l, h
    <3>5. 0 + l <= HalfQueue + h
      BY <3>2, <3>3
    <3>6. QED
      BY <3>4, <3>5 DEF Patient
  <2>4. Receiving(p)'
    BY <1>5, <2>2, <2>3 DEF Receiving
  <2>5. Underway'
    BY <1>5, <2>1, <2>4 DEF Underway
  <2>6. QED
    BY <1>5, <1>6, <1>7, <1>8, <2>5 DEF Undamaged
<1>9. CASE host # "waits"
  <2>1. Quiet'
    BY <1>4, <1>5, <1>9 DEF Undamaged, Quiet, AllArrived
  <2>2. QED
    BY <1>5, <1>6, <1>7, <1>9, <2>1 DEF Undamaged
<1>10. QED
  BY <1>8, <1>9

(* A reception is never refused.                                            *)
LEMMA RefuseKeeps == FrameInv /\ Refuse => FrameInv'
<1>1. SUFFICES ASSUME FrameInv, Refuse PROVE FrameInv'
  OBVIOUS
<1>2. HurtOK' /\ UNCHANGED hurt
  BY <1>1 DEF FrameInv, HurtOK, Refuse
<1>3. hurt.bytes # 0
  BY <1>1 DEF FrameInv, Undamaged, LoopOK, Refuse
<1>4. QED
  BY <1>2, <1>3 DEF FrameInv

(* A frame that is complete is the packet.                                  *)
LEMMA DoCmdKeeps == FrameInv /\ DoCmd => FrameInv'
<1>1. SUFFICES ASSUME FrameInv, DoCmd PROVE FrameInv'
  OBVIOUS
<1>2. HurtOK' /\ UNCHANGED hurt
  BY <1>1 DEF FrameInv, HurtOK, DoCmd
<1>3. SUFFICES ASSUME hurt.bytes = 0 PROVE Undamaged'
  BY <1>2 DEF FrameInv
<1>4. Undamaged
  BY <1>1, <1>3 DEF FrameInv
<1>5. /\ upc = "abort" /\ upc' = "answer" /\ rx_busy' = FALSE /\ done' = Append(done, CommandIn(ub.buf))
      /\ UNCHANGED <<base, events, acc, ub, host, sent>>
  BY <1>1, <1>3 DEF DoCmd, Abort
<1>6. host = "waits"
  BY <1>4, <1>5 DEF Undamaged, Quiet
<1>9. PICK p \in Packets : Fits(p) /\ sent = <<p>> /\ Executing(p)
  BY <1>4, <1>5, <1>6 DEF Undamaged, Underway, Arriving, Receiving, Answering
<1>15. dma_on' = FALSE /\ UNCHANGED <<wire, fifo, cmd>>
  <2>1. ~Miss
    BY <1>9 DEF Executing, AllArrived, Miss
  <2>2. rx_busy
    BY <1>4, <1>5 DEF Undamaged, LoopOK
  <2>3. QED
    BY <1>1, <2>1, <2>2 DEF DoCmd, Abort, Stop
<1>7. LoopOK'
  BY <1>4, <1>5, <1>15 DEF Undamaged, LoopOK, NoFrame
<1>8. EventsOK' /\ BytesOK'
  BY <1>4, <1>5, <1>15 DEF Undamaged, EventsOK, BytesOK
<1>10. CommandIn(ub.buf) = p
  <2>1. ub.buf \in [1 .. MAX_WRITE_BLOCK -> Byte]
    BY <1>4 DEF Undamaged, LoopOK, NoFrame, UartBuf
  <2>2. \A i \in 1 .. Len(p) : ub.buf[i] = p[i]
    BY <1>9 DEF Executing, Copied
  <2> DEFINE b == ub.buf
  <2>3. b \in [1 .. MAX_WRITE_BLOCK -> Byte] /\ \A i \in 1 .. Len(p) : b[i] = p[i]
    BY <2>1, <2>2
  <2> HIDE DEF b
  <2>4. CommandIn(b) = p
    BY <1>9, <2>3, CommandIs
  <2>5. QED
    BY <2>4 DEF b
<1>11. done' = sent'
  <2>1. done = <<>>
    BY <1>9 DEF Executing
  <2>2. Append(<<>>, p) = <<p>>
    OBVIOUS
  <2>3. QED
    BY <1>5, <1>9, <1>10, <2>1, <2>2
<1>12. Answering'
  BY <1>5, <1>9, <1>11, <1>15 DEF Executing, Answering, AllArrived
<1>13. Underway'
  BY <1>5, <1>9, <1>12 DEF Underway
<1>14. QED
  BY <1>5, <1>6, <1>7, <1>8, <1>13 DEF Undamaged

(* The answer, lost or not, ends the packet.                                *)
LEMMA AnswerKeeps == FrameInv /\ Answer => FrameInv'
<1>1. SUFFICES ASSUME FrameInv, Answer PROVE FrameInv'
  OBVIOUS
<1>2. HurtOK' /\ hurt'.bytes = hurt.bytes
  BY <1>1 DEF FrameInv, HurtOK, Answer
<1>3. SUFFICES ASSUME hurt.bytes = 0 PROVE Undamaged'
  BY <1>2 DEF FrameInv
<1>4. Undamaged
  BY <1>1, <1>3 DEF FrameInv
<1>5. /\ upc = "answer" /\ upc' = "receive"
      /\ UNCHANGED <<wire, fifo, rx_busy, dma_on, base, events, acc, ub, sent, done>>
  BY <1>1 DEF Answer
<1>6. host = "waits"
  BY <1>4, <1>5 DEF Undamaged, Quiet
<1>7. host' # "waits"
  BY <1>1, <1>6 DEF Answer
<1>8. LoopOK'
  BY <1>4, <1>5 DEF Undamaged, LoopOK, NoFrame
<1>9. EventsOK' /\ BytesOK'
  <2>1. cmd' = [i \in DOMAIN cmd |-> 0]
    BY <1>1 DEF Answer
  <2>2. cmd \in Seq(Byte)
    BY <1>4 DEF Undamaged, BytesOK
  <2>3. cmd' \in Seq(Byte)
    BY <2>1, <2>2, ClearedIs
  <2>4. QED
    BY <1>4, <1>5, <2>3 DEF Undamaged, EventsOK, BytesOK
<1>10. Answering
  BY <1>4, <1>5, <1>6 DEF Undamaged, Underway, Arriving, Receiving, Executing
<1>11. Quiet'
  BY <1>5, <1>10 DEF Answering, Quiet, AllArrived
<1>12. QED
  BY <1>7, <1>8, <1>9, <1>11 DEF Undamaged

(* The host sends only while nothing is under way.                          *)
LEMMA HostSendKeeps == FrameInv /\ HostSend => FrameInv'
<1>1. SUFFICES ASSUME FrameInv, HostSend PROVE FrameInv'
  OBVIOUS
<1>2. PICK p \in Packets :
        /\ sent' = <<p>> /\ done' = <<>> /\ wire' = Frame(p)
        /\ hurt' = [hurt EXCEPT !.bytes = IF Fits(p) THEN @ ELSE @ + 1, !.pauses = 0,
                                !.after = IF hurt.bytes = 0 THEN 0 ELSE @ + 1]
  BY <1>1 DEF HostSend
<1>3. /\ host = "idle" /\ host' = "waits"
      /\ UNCHANGED <<fifo, cmd, rx_busy, dma_on, base, events, upc, acc, ub>>
  BY <1>1 DEF HostSend, loopVars
<1>4. hurt \in [bytes : Nat, answers : Nat, pauses : Nat, after : Nat] /\ MaxPauses \in Nat
  BY <1>1, FrameAssumption DEF FrameInv, HurtOK
<1>5. HurtOK' /\ hurt'.pauses = 0 /\ hurt'.bytes = IF Fits(p) THEN hurt.bytes ELSE hurt.bytes + 1
  <2> DEFINE b == IF Fits(p) THEN hurt.bytes ELSE hurt.bytes + 1
             a == IF hurt.bytes = 0 THEN 0 ELSE hurt.after + 1
  <2>1. b \in Nat /\ a \in Nat
    BY <1>4
  <2>2. hurt' = [hurt EXCEPT !.bytes = b, !.pauses = 0, !.after = a]
    BY <1>2
  <2> HIDE DEF a, b
  <2>3. /\ hurt' \in [bytes : Nat, answers : Nat, pauses : Nat, after : Nat]
        /\ hurt'.pauses = 0 /\ hurt'.bytes = b
    BY <1>4, <2>1, <2>2
  <2>4. HurtOK'
    BY <1>4, <2>3 DEF HurtOK
  <2>5. QED
    BY <2>3, <2>4 DEF b
<1>6. SUFFICES ASSUME hurt'.bytes = 0 PROVE Undamaged'
  BY <1>5 DEF FrameInv
<1>7. hurt.bytes \in Nat
  BY <1>4
<1>8. Fits(p) /\ hurt.bytes = 0
  <2>1. CASE Fits(p)
    BY <1>5, <1>6, <2>1
  <2>2. CASE ~Fits(p)
    <3>1. hurt.bytes + 1 = 0
      BY <1>5, <1>6, <2>2
    <3>2. QED
      BY <1>7, <3>1
  <2>3. QED
    BY <2>1, <2>2
<1>9. Undamaged
  BY <1>1, <1>8 DEF FrameInv
<1>10. Quiet /\ BytesOK /\ EventsOK
  BY <1>3, <1>9 DEF Undamaged
<1>11. LoopOK'
  BY <1>3, <1>9 DEF Undamaged, LoopOK, NoFrame
<1>12. Frame(p) \in Seq(Byte)
  BY <1>8, PacketIs
<1>13. EventsOK' /\ BytesOK'
  BY <1>2, <1>3, <1>10, <1>12 DEF EventsOK, BytesOK
<1>14. <<>> \o Frame(p) = Frame(p) /\ <<>> \o <<>> = <<>>
  BY <1>12, ConcatEmptySeq
<1>15. CASE upc = "receive"
  <2>1. Arriving(p)'
    BY <1>2, <1>3, <1>10, <1>14, <1>15 DEF Quiet, AllArrived, Arriving
  <2>2. Underway'
    BY <1>2, <1>8, <2>1 DEF Underway
  <2>3. QED
    BY <1>3, <1>11, <1>13, <2>2 DEF Undamaged
<1>16. CASE upc = "wait"
  <2>1. cmd' = <<>> /\ fifo' = <<>> /\ acc' = 0
    BY <1>3, <1>10, <1>16 DEF Quiet, AllArrived
  <2>2. (cmd' \o fifo') \o wire' = Frame(p)
    BY <1>2, <1>14, <2>1
  <2>3. Patient'
    <3> DEFINE l == Len(events')
    <3>1. l \in Nat /\ l <= HalfQueue /\ HalfQueue \in Nat
      BY <1>13, FrameAssumption DEF EventsOK
    <3>2. acc' = 0 /\ hurt'.pauses = 0
      BY <1>5, <2>1
    <3> HIDE DEF l
    <3>3. 0 + l <= HalfQueue + 0
      BY <3>1
    <3>4. QED
      BY <3>2, <3>3 DEF Patient, l
  <2>4. Receiving(p)'
    BY <1>2, <1>3, <1>16, <2>2, <2>3 DEF Receiving
  <2>5. Underway'
    BY <1>2, <1>8, <2>4 DEF Underway
  <2>6. QED
    BY <1>3, <1>11, <1>13, <2>5 DEF Undamaged
<1>17. QED
  BY <1>10, <1>15, <1>16 DEF Quiet

(* A host that was not answered gives up.                                   *)
LEMMA HostTimeoutKeeps == FrameInv /\ HostTimeout => FrameInv'
<1>1. SUFFICES ASSUME FrameInv, HostTimeout PROVE FrameInv'
  OBVIOUS
<1>2. /\ host = "deaf" /\ host' = "idle"
      /\ UNCHANGED <<wire, fifo, cmd, rx_busy, dma_on, base, events, upc, acc, ub, sent, done, hurt>>
  BY <1>1 DEF HostTimeout, uartVars, loopVars
<1>3. HurtOK'
  BY <1>1, <1>2 DEF FrameInv, HurtOK
<1>4. SUFFICES ASSUME hurt.bytes = 0 PROVE Undamaged'
  BY <1>2, <1>3 DEF FrameInv
<1>5. Undamaged
  BY <1>1, <1>4 DEF FrameInv
<1>6. LoopOK' /\ EventsOK' /\ BytesOK'
  BY <1>2, <1>5 DEF Undamaged, LoopOK, NoFrame, EventsOK, BytesOK
<1>7. Quiet'
  BY <1>2, <1>5 DEF Undamaged, Quiet, AllArrived
<1>8. QED
  BY <1>2, <1>6, <1>7 DEF Undamaged

(* An event taken is a pause waited for.                                    *)
LEMMA EventTaken ==
  ASSUME EventsOK, events # <<>>
  PROVE  /\ Head(events) = "timeout" /\ Tail(events) \in Seq({"timeout"})
         /\ Len(events) \in Nat \ {0} /\ Len(Tail(events)) = Len(events) - 1
         /\ Len(Tail(events)) <= HalfQueue
<1>1. events \in Seq({"timeout"}) /\ Len(events) <= HalfQueue /\ HalfQueue \in Nat
  BY FrameAssumption DEF EventsOK
<1>2. /\ Head(events) \in {"timeout"} /\ Tail(events) \in Seq({"timeout"})
      /\ Len(Tail(events)) = Len(events) - 1
  BY <1>1, HeadTailProperties
<1>3. Len(events) \in Nat \ {0}
  BY <1>1, EmptySeq
<1> DEFINE l == Len(events)
           m == Len(Tail(events))
<1>4. l \in Nat \ {0} /\ m = l - 1 /\ l <= HalfQueue
  BY <1>1, <1>2, <1>3
<1> HIDE DEF l, m
<1>5. m <= HalfQueue
  BY <1>1, <1>4
<1>6. QED
  BY <1>2, <1>3, <1>5 DEF m

(* Two places of bytes as one.                                              *)
LEMMA ToCome ==
  ASSUME BytesOK, NEW p \in Packets, Fits(p), (cmd \o fifo) \o wire = Frame(p)
  PROVE  /\ Len(cmd) \in Nat /\ Len(cmd) <= Len(Frame(p)) /\ Len(cmd) < MAX_WRITE_BLOCK
         /\ LiesAt(cmd, Frame(p), 0) /\ (Len(cmd) = Len(Frame(p)) <=> AllArrived)
<1>1. cmd \in Seq(Byte) /\ fifo \in Seq(Byte) /\ wire \in Seq(Byte)
  BY DEF BytesOK
<1> DEFINE b == fifo \o wire
           f == Frame(p)
<1>2. b \in Seq(Byte) /\ f = cmd \o b
  <2>1. b \in Seq(Byte)
    BY <1>1, ConcatProperties
  <2>2. (cmd \o fifo) \o wire = cmd \o (fifo \o wire)
    BY <1>1, Places
  <2>3. QED
    BY <2>1, <2>2
<1>3. b = <<>> <=> fifo = <<>> /\ wire = <<>>
  BY <1>1, ConcatEqualIffEmpty
<1> HIDE DEF b
<1>4. Len(cmd) \in Nat /\ Len(b) \in Nat /\ Len(f) = Len(cmd) + Len(b) /\ LiesAt(cmd, f, 0)
  <2> HIDE DEF f
  <2>1. QED
    BY <1>1, <1>2, BeginningOf
<1>5. Len(b) = 0 <=> b = <<>>
  BY <1>2, EmptySeq
<1>6. Len(f) < MAX_WRITE_BLOCK /\ MAX_WRITE_BLOCK \in Nat
  BY PacketIs, FrameAssumption
<1> DEFINE c == Len(cmd)
           l == Len(b)
           m == Len(f)
<1>7. c \in Nat /\ l \in Nat /\ m = c + l /\ m < MAX_WRITE_BLOCK
  BY <1>4, <1>6
<1> HIDE DEF c, l, m, f
<1>8. c <= m /\ c < MAX_WRITE_BLOCK /\ (c = m <=> l = 0)
  BY <1>6, <1>7
<1>9. QED
  BY <1>3, <1>4, <1>5, <1>8 DEF c, l, m, f, AllArrived

(* Either the frame has come, or what has come of it is not refused, and    *)
(* the time it may take is not over.                                        *)
LEMMA RxdKeeps == FrameInv /\ Rxd => FrameInv'
<1>1. SUFFICES ASSUME FrameInv, Rxd PROVE FrameInv'
  OBVIOUS
<1>2. HurtOK' /\ UNCHANGED hurt
  BY <1>1 DEF FrameInv, HurtOK, Rxd
<1>3. SUFFICES ASSUME hurt.bytes = 0 PROVE Undamaged'
  BY <1>2 DEF FrameInv
<1>4. Undamaged
  BY <1>1, <1>3 DEF FrameInv
<1>5. /\ upc = "wait" /\ events # <<>> /\ events' = Tail(events)
      /\ UNCHANGED <<wire, fifo, cmd, rx_busy, dma_on, base, host, sent, done>>
  BY <1>1 DEF Rxd
<1>13. /\ RxCount = Len(cmd) /\ SubSeq(cmd, 1, RxCount) = cmd
       /\ dma_on' = rx_busy' /\ base' = 0 /\ rx_busy' = TRUE
  <2>1. base = 0 /\ dma_on = rx_busy /\ rx_busy = TRUE
    BY <1>4, <1>5 DEF Undamaged, LoopOK
  <2>2. cmd \in Seq(Byte)
    BY <1>4 DEF Undamaged, BytesOK
  <2>3. RxCount = Len(cmd)
    <3>1. Len(cmd) \in Nat
      BY <2>2
    <3>2. RxCount = Len(cmd) - base
      BY DEF RxCount
    <3>3. QED
      BY <2>1, <3>1, <3>2
  <2>4. QED
    BY <1>5, <2>1, <2>2, <2>3, SubSeqFull
<1>6. /\ Head(events) = "timeout" /\ Tail(events) \in Seq({"timeout"})
      /\ Len(events) \in Nat \ {0} /\ Len(Tail(events)) = Len(events) - 1
      /\ Len(Tail(events)) <= HalfQueue
  BY <1>4, <1>5, EventTaken DEF Undamaged
<1>7. EventsOK' /\ BytesOK'
  <2>1. EventsOK'
    BY <1>5, <1>6 DEF EventsOK
  <2>2. BytesOK'
    BY <1>4, <1>5 DEF Undamaged, BytesOK
  <2>3. QED
    BY <2>1, <2>2
<1>8. ASSUME RxCount = 0 PROVE UNCHANGED <<upc, acc, ub>>
  BY <1>1, <1>6, <1>8 DEF Rxd, loopVars
<1>9. ASSUME UNCHANGED <<upc, acc, ub>> PROVE LoopOK'
  BY <1>4, <1>5, <1>9 DEF Undamaged, LoopOK, NoFrame
<1>10. CASE host # "waits"
  <2>1. Quiet /\ cmd = <<>>
    BY <1>4, <1>5, <1>10 DEF Undamaged, Quiet
  <2>2. UNCHANGED <<upc, acc, ub>>
    <3>1. RxCount = 0
      BY <1>13, <2>1
    <3>2. QED
      BY <1>8, <3>1
  <2>3. Quiet'
    BY <1>5, <2>1, <2>2 DEF Quiet, AllArrived
  <2>4. QED
    BY <1>5, <1>7, <1>9, <1>10, <2>2, <2>3 DEF Undamaged
<1>11. CASE host = "waits"
  <2>1. PICK p \in Packets : Fits(p) /\ sent = <<p>> /\ Receiving(p)
    BY <1>4, <1>5, <1>11 DEF Undamaged, Underway, Arriving, Executing, Answering
  <2>2. done = <<>> /\ (cmd \o fifo) \o wire = Frame(p) /\ Patient
    BY <2>1 DEF Receiving
  <2>3. /\ Len(cmd) \in Nat /\ Len(cmd) <= Len(Frame(p)) /\ Len(cmd) < MAX_WRITE_BLOCK
        /\ LiesAt(cmd, Frame(p), 0) /\ (Len(cmd) = Len(Frame(p)) <=> AllArrived)
    BY <1>4, <2>1, <2>2, ToCome DEF Undamaged
  <2> DEFINE a == acc
             l == Len(events)
             h == hurt.pauses
  <2>4. a \in Nat /\ l \in Nat \ {0} /\ h \in Nat /\ HalfQueue \in Nat /\ MaxPauses \in Nat
        /\ h <= MaxPauses /\ uart_time_out_max \in Nat /\ uart_time_out_max >= MaxPauses + HalfQueue
        /\ Len(events') = l - 1 /\ hurt'.pauses = h
    <3>1. a \in Nat
      BY <1>4 DEF Undamaged, LoopOK
    <3>2. h \in Nat /\ h <= MaxPauses
      BY <1>1 DEF FrameInv, HurtOK
    <3>3. /\ HalfQueue \in Nat /\ MaxPauses \in Nat /\ uart_time_out_max \in Nat
          /\ uart_time_out_max >= MaxPauses + HalfQueue
      BY FrameAssumption
    <3>4. QED
      BY <1>2, <1>5, <1>6, <3>1, <3>2, <3>3
  <2>5. AllArrived \/ a + l <= HalfQueue + h
    BY <2>2 DEF Patient
  <2>6. ASSUME UNCHANGED acc \/ (~AllArrived /\ acc' = acc + 1) \/ acc' = 0 PROVE Patient'
    <3>1. AllArrived' <=> AllArrived
      BY <1>5 DEF AllArrived
    <3>2. CASE AllArrived
      BY <3>1, <3>2 DEF Patient
    <3>3. CASE ~AllArrived
      <4>1. acc' = a \/ acc' = a + 1 \/ acc' = 0
        BY <2>6
      <4> HIDE DEF a, l, h
      <4>2. a + l <= HalfQueue + h
        BY <2>5, <3>3
      <4>3. acc' + (l - 1) <= HalfQueue + h
        BY <2>4, <4>1, <4>2
      <4>4. QED
        BY <2>4, <4>3 DEF Patient
    <3>4. QED
      BY <3>2, <3>3
  <2>7. ASSUME upc' = "wait", Patient' PROVE Underway'
    <3>1. Receiving(p)'
      BY <1>5, <2>2, <2>7 DEF Receiving
    <3>2. QED
      BY <1>5, <2>1, <3>1 DEF Underway
  <2>8. CASE RxCount = 0
    <3>1. UNCHANGED <<upc, acc, ub>>
      BY <1>8, <2>8
    <3>2. Patient'
      BY <2>6, <3>1
    <3>3. Underway'
      BY <1>5, <2>7, <3>1, <3>2
    <3>4. QED
      BY <1>5, <1>7, <1>9, <1>11, <3>1, <3>3 DEF Undamaged
  <2>9. CASE RxCount # 0
    <3> DEFINE r == uart_receive_bytes(cmd)
    <3>1. IF r.finished THEN upc' = "abort" /\ ub' = r.ub /\ UNCHANGED acc
          ELSE IF r.ub.read >= 4 /\ Refused(r.ub, RxCount)
            THEN upc' = "refuse" /\ ub' = r.ub /\ UNCHANGED acc
          ELSE WaitForMore(r.ub, RxCount)
      BY <1>1, <1>13, <2>9 DEF Rxd
    <3>2. /\ Len(cmd) = Len(Frame(p)) => Dealt(r, p)
          /\ Len(cmd) # Len(Frame(p)) => Begun(r, p)
      <4>1. PICK e : Framed(p, e, Frame(p))
        BY <2>1, PacketIs
      <4>2. NoFrame /\ cmd \in Seq(Byte)
        BY <1>4 DEF Undamaged, LoopOK, BytesOK
      <4> HIDE DEF r
      <4>3. QED
        BY <2>3, <4>1, <4>2, ReceivedAs DEF r
    <3> HIDE DEF r
    <3>3. CASE AllArrived
      <4>1. Dealt(r, p)
        BY <2>3, <3>2, <3>3
      <4>2. upc' = "abort" /\ ub' = r.ub /\ UNCHANGED acc
        BY <3>1, <4>1 DEF Dealt
      <4>3. NoFrame' /\ Copied(p)'
        BY <4>1, <4>2 DEF Dealt, NoFrame, Copied
      <4>4. LoopOK'
        <5>1. acc' \in Nat
          BY <1>4, <1>5, <4>2 DEF Undamaged, LoopOK
        <5>2. QED
          BY <1>13, <4>2, <4>3, <5>1 DEF LoopOK
      <4>5. Executing(p)'
        BY <1>5, <2>2, <3>3, <4>2, <4>3 DEF Executing, AllArrived
      <4>6. Underway'
        BY <1>5, <2>1, <4>5 DEF Underway
      <4>7. QED
        BY <1>5, <1>7, <1>11, <4>4, <4>6 DEF Undamaged
    <3>4. CASE ~AllArrived
      <4>1. Begun(r, p)
        BY <2>3, <3>2, <3>4
      <4>2. r.finished = FALSE /\ r.ub \in UartBuf
        BY <4>1 DEF Begun
      <4>3. ~(r.ub.read >= 4 /\ Refused(r.ub, RxCount))
        <5>1. SUFFICES ASSUME r.ub.read >= 4 PROVE ~Refused(r.ub, RxCount)
          OBVIOUS
        <5> DEFINE n == r.ub.read
                   u == r.ub
        <5>2. n \in Nat /\ n <= Len(p) /\ \A i \in 1 .. n : u.buf[i] = p[i]
          BY <4>1 DEF Begun, UartBuf
        <5>3. n >= 4
          BY <5>1
        <5>4. u.read = n
          OBVIOUS
        <5> HIDE DEF n, u
        <5>5. n \in 4 .. Len(p) /\ u.buf[1] = p[1] /\ u.buf[3] = p[3] /\ u.buf[4] = p[4]
          <6>1. Len(p) \in Nat
            BY <2>1, PacketIs
          <6>2. n \in 4 .. Len(p) /\ 1 \in 1 .. n /\ 3 \in 1 .. n /\ 4 \in 1 .. n
            BY <5>2, <5>3, <6>1
          <6>3. QED
            BY <5>2, <6>2
        <5>6. RxCount \in Nat /\ RxCount < MAX_WRITE_BLOCK
          BY <1>13, <2>3
        <5>7. ~Refused(u, RxCount)
          BY <2>1, <5>4, <5>5, <5>6, NotRefused
        <5>8. QED
          BY <5>7 DEF u
      <4>4. WaitForMore(r.ub, RxCount)
        BY <3>1, <4>2, <4>3
      <4>5. ~(acc + 1 > uart_time_out_max)
        <5>1. a + l <= HalfQueue + h
          BY <2>5, <3>4
        <5> HIDE DEF a, l, h
        <5>2. ~(a + 1 > uart_time_out_max)
          BY <2>4, <5>1
        <5>3. QED
          BY <5>2 DEF a
      <4>6. (acc' = 0 \/ acc' = acc + 1) /\ UNCHANGED upc /\ Recover(r.ub)
        BY <4>4, <4>5 DEF WaitForMore
      <4>7. NoFrame'
        <5>1. ub \in UartBuf /\ ub.read = 0
          BY <1>4 DEF Undamaged, LoopOK, NoFrame
        <5>2. ub.state = "no frame"
          BY <1>4 DEF Undamaged, LoopOK, NoFrame
        <5>3. ub' = [r.ub EXCEPT !.read = ub.read, !.state = ub.state]
          BY <4>6 DEF Recover
        <5>4. ub' \in UartBuf /\ ub'.read = ub.read /\ ub'.state = ub.state
          BY <4>2, <5>1, <5>3, RecoveredIs
        <5>5. QED
          BY <5>1, <5>2, <5>4 DEF NoFrame
      <4>8. LoopOK'
        <5>1. acc' \in Nat
          BY <2>4, <4>6
        <5>2. upc' = "wait"
          BY <1>5, <4>6
        <5>3. QED
          BY <1>13, <4>7, <5>1, <5>2 DEF LoopOK
      <4>9. Underway'
        BY <1>5, <2>6, <2>7, <3>4, <4>6
      <4>10. QED
        BY <1>5, <1>7, <1>11, <4>8, <4>9 DEF Undamaged
    <3>5. QED
      BY <3>3, <3>4
  <2>10. QED
    BY <2>8, <2>9
<1>12. QED
  BY <1>10, <1>11

(* A byte that arrives unharmed follows those before it.                    *)
LEMMA ArriveKeeps == FrameInv /\ Arrive => FrameInv'
<1>1. SUFFICES ASSUME FrameInv, Arrive PROVE FrameInv'
  OBVIOUS
<1>2. /\ wire # <<>> /\ wire' = Tail(wire) /\ Complete
      /\ UNCHANGED <<events, rx_busy, dma_on, base>> \/ (dma_on /\ Len(cmd') = MAX_WRITE_BLOCK)
      /\ UNCHANGED <<upc, acc, ub, host, sent, done>>
      /\ \/ Take(Head(wire)) /\ UNCHANGED hurt
         \/ hurt' = [hurt EXCEPT !.bytes = @ + 1]
  BY <1>1 DEF Arrive, Complete, loopVars
<1>3. HurtOK' /\ (UNCHANGED hurt \/ hurt'.bytes = hurt.bytes + 1) /\ hurt.bytes \in Nat
  BY <1>1, <1>2 DEF FrameInv, HurtOK
<1>4. SUFFICES ASSUME hurt'.bytes = 0 PROVE Undamaged'
  BY <1>3 DEF FrameInv
<1>5. UNCHANGED hurt /\ hurt.bytes = 0
  <2>1. hurt'.bytes # hurt.bytes + 1
    BY <1>3, <1>4
  <2>2. UNCHANGED hurt
    BY <1>3, <2>1
  <2>3. QED
    BY <1>4, <2>2
<1>6. Take(Head(wire))
  <2>1. hurt' # [hurt EXCEPT !.bytes = @ + 1]
    <3>1. [hurt EXCEPT !.bytes = @ + 1].bytes = hurt.bytes + 1
      BY <1>1 DEF FrameInv, HurtOK
    <3>2. hurt'.bytes # hurt.bytes + 1
      BY <1>3, <1>4
    <3>3. QED
      BY <3>1, <3>2
  <2>2. QED
    BY <1>2, <2>1
<1>7. Undamaged
  BY <1>1, <1>5 DEF FrameInv
<1>8. cmd \in Seq(Byte) /\ fifo \in Seq(Byte) /\ wire \in Seq(Byte)
  BY <1>7 DEF Undamaged, BytesOK
<1>9. host = "waits"
  BY <1>2, <1>7 DEF Undamaged, Quiet, AllArrived
<1>10. PICK p \in Packets : Fits(p) /\ sent = <<p>> /\ (Arriving(p) \/ Receiving(p))
  BY <1>2, <1>7, <1>9 DEF Undamaged, Underway, Executing, Answering, AllArrived
<1>11. rx_busy = (upc = "wait") /\ dma_on = rx_busy /\ upc \in {"receive", "wait"}
  BY <1>7, <1>10 DEF Undamaged, LoopOK, Arriving, Receiving
<1>12. ASSUME UNCHANGED <<events, rx_busy, dma_on, base>>, cmd' \in Seq(Byte), fifo' \in Seq(Byte), wire' \in Seq(Byte)
       PROVE  LoopOK' /\ EventsOK' /\ BytesOK'
  <2>1. LoopOK'
    BY <1>2, <1>7, <1>12 DEF Undamaged, LoopOK, NoFrame
  <2>2. EventsOK' /\ BytesOK'
    BY <1>7, <1>12 DEF Undamaged, EventsOK, BytesOK
  <2>3. QED
    BY <2>1, <2>2
<1>13. CASE Arriving(p)
  <2>1. upc = "receive" /\ ~dma_on /\ done = <<>> /\ fifo \o wire = Frame(p)
    BY <1>11, <1>13 DEF Arriving
  <2>2. fifo' = Append(fifo, Head(wire)) /\ UNCHANGED cmd
    BY <1>6, <2>1 DEF Take
  <2>3. fifo' \in Seq(Byte) /\ wire' \in Seq(Byte) /\ fifo' \o wire' = Frame(p)
    BY <1>2, <1>8, <2>1, <2>2, HeadMoves
  <2>4. UNCHANGED <<events, rx_busy, dma_on, base>>
    BY <1>2, <2>1
  <2>5. Arriving(p)'
    BY <1>2, <2>1, <2>3 DEF Arriving
  <2>6. Underway'
    BY <1>2, <1>10, <2>5 DEF Underway
  <2>7. LoopOK' /\ EventsOK' /\ BytesOK'
    BY <1>8, <1>12, <2>2, <2>3, <2>4
  <2>8. QED
    BY <1>2, <1>9, <2>6, <2>7 DEF Undamaged
<1>14. CASE Receiving(p)
  <2>1. upc = "wait" /\ dma_on /\ done = <<>> /\ (cmd \o fifo) \o wire = Frame(p) /\ Patient
    BY <1>11, <1>14 DEF Receiving
  <2>2. /\ cmd' \in Seq(Byte) /\ fifo' \in Seq(Byte) /\ wire' \in Seq(Byte)
        /\ (cmd' \o fifo') \o wire' = Frame(p)
    <3>1. CASE fifo = <<>>
      <4>1. cmd' = Append(cmd, Head(wire)) /\ fifo' = <<>>
        BY <1>6, <2>1, <3>1 DEF Take
      <4>2. cmd' \in Seq(Byte) /\ wire' \in Seq(Byte) /\ cmd' \o wire' = cmd \o wire
        BY <1>2, <1>8, <4>1, HeadMoves
      <4>3. cmd \o fifo = cmd /\ cmd' \o fifo' = cmd'
        BY <1>8, <3>1, <4>1, <4>2, ConcatEmptySeq
      <4>4. QED
        BY <1>8, <2>1, <3>1, <4>1, <4>2, <4>3
    <3>2. CASE fifo # <<>>
      <4>1. fifo' = Append(fifo, Head(wire)) /\ cmd' = cmd
        BY <1>6, <3>2 DEF Take
      <4>2. fifo' \in Seq(Byte) /\ wire' \in Seq(Byte) /\ fifo' \o wire' = fifo \o wire
        BY <1>2, <1>8, <4>1, HeadMoves
      <4>3. /\ (cmd \o fifo) \o wire = cmd \o (fifo \o wire)
            /\ (cmd \o fifo') \o wire' = cmd \o (fifo' \o wire')
        BY <1>8, <4>2, Places
      <4>4. QED
        BY <1>8, <2>1, <4>1, <4>2, <4>3
    <3>3. QED
      BY <3>1, <3>2
  <2>3. Len(cmd') # MAX_WRITE_BLOCK
    <3>1. cmd' \o fifo' \in Seq(Byte) /\ Len(cmd' \o fifo') = Len(cmd') + Len(fifo')
      BY <2>2, ConcatProperties
    <3>2. Len(Frame(p)) = Len(cmd' \o fifo') + Len(wire')
      BY <2>2, <3>1, ConcatProperties
    <3> DEFINE a == Len(cmd')
               b == Len(fifo')
               c == Len(wire')
               f == Len(Frame(p))
               g == Len(cmd' \o fifo')
    <3>3. a \in Nat /\ b \in Nat /\ c \in Nat
      BY <2>2, LenProperties
    <3>4. f < MAX_WRITE_BLOCK /\ MAX_WRITE_BLOCK \in Nat
      BY <1>10, PacketIs, FrameAssumption
    <3>5. g = a + b /\ f = g + c
      BY <3>1, <3>2
    <3> HIDE DEF a, b, c, f, g
    <3>6. a # MAX_WRITE_BLOCK
      BY <3>3, <3>4, <3>5
    <3>7. QED
      BY <3>6 DEF a
  <2>4. UNCHANGED <<events, rx_busy, dma_on, base>>
    BY <1>2, <2>3
  <2>5. Patient'
    <3>1. ~AllArrived
      BY <1>2 DEF AllArrived
    <3>2. acc + Len(events) <= HalfQueue + hurt.pauses
      BY <2>1, <3>1 DEF Patient
    <3>3. acc' = acc /\ events' = events /\ hurt' = hurt
      BY <1>2, <1>5, <2>4
    <3>4. QED
      BY <3>2, <3>3 DEF Patient
  <2>6. Receiving(p)'
    BY <1>2, <2>1, <2>2, <2>5 DEF Receiving
  <2>7. Underway'
    BY <1>2, <1>10, <2>6 DEF Underway
  <2>8. LoopOK' /\ EventsOK' /\ BytesOK'
    BY <1>12, <2>2, <2>4
  <2>9. QED
    BY <1>2, <1>9, <2>7, <2>8 DEF Undamaged
<1>15. QED
  BY <1>10, <1>13, <1>14

(* What waited in the FIFO follows what was received.                       *)
LEMMA TransferKeeps == FrameInv /\ Transfer => FrameInv'
<1>1. SUFFICES ASSUME FrameInv, Transfer PROVE FrameInv'
  OBVIOUS
<1>2. /\ dma_on /\ fifo # <<>> /\ cmd' = Append(cmd, Head(fifo)) /\ fifo' = Tail(fifo)
      /\ UNCHANGED <<events, rx_busy, dma_on, base>> \/ Len(cmd') = MAX_WRITE_BLOCK
      /\ UNCHANGED <<wire, upc, acc, ub, host, sent, done, hurt>>
  BY <1>1 DEF Transfer, Complete, loopVars
<1>3. HurtOK'
  BY <1>1, <1>2 DEF FrameInv, HurtOK
<1>4. SUFFICES ASSUME hurt.bytes = 0 PROVE Undamaged'
  BY <1>2, <1>3 DEF FrameInv
<1>5. Undamaged
  BY <1>1, <1>4 DEF FrameInv
<1>6. cmd \in Seq(Byte) /\ fifo \in Seq(Byte) /\ wire \in Seq(Byte)
  BY <1>5 DEF Undamaged, BytesOK
<1>7. host = "waits"
  BY <1>2, <1>5 DEF Undamaged, Quiet, AllArrived
<1>8. PICK p \in Packets : Fits(p) /\ sent = <<p>> /\ (Arriving(p) \/ Receiving(p))
  BY <1>2, <1>5, <1>7 DEF Undamaged, Underway, Executing, Answering, AllArrived
<1>9. upc = "wait" /\ done = <<>> /\ (cmd \o fifo) \o wire = Frame(p) /\ Patient
  BY <1>2, <1>5, <1>8 DEF Undamaged, LoopOK, Arriving, Receiving
<1>10. /\ cmd' \in Seq(Byte) /\ fifo' \in Seq(Byte) /\ wire' \in Seq(Byte)
       /\ cmd' \o fifo' = cmd \o fifo
  BY <1>2, <1>6, HeadMoves
<1>11. (cmd' \o fifo') \o wire' = Frame(p)
  BY <1>2, <1>9, <1>10
<1>12. Len(cmd') # MAX_WRITE_BLOCK
  <2>1. cmd' \o fifo' \in Seq(Byte) /\ Len(cmd' \o fifo') = Len(cmd') + Len(fifo')
    BY <1>10, ConcatProperties
  <2>2. Len(Frame(p)) = Len(cmd' \o fifo') + Len(wire')
    BY <1>10, <1>11, <2>1, ConcatProperties
  <2> DEFINE a == Len(cmd')
             b == Len(fifo')
             c == Len(wire')
             f == Len(Frame(p))
             g == Len(cmd' \o fifo')
  <2>3. a \in Nat /\ b \in Nat /\ c \in Nat
    BY <1>10, LenProperties
  <2>4. f < MAX_WRITE_BLOCK /\ MAX_WRITE_BLOCK \in Nat
    BY <1>8, PacketIs, FrameAssumption
  <2>5. g = a + b /\ f = g + c
    BY <2>1, <2>2
  <2> HIDE DEF a, b, c, f, g
  <2>6. a # MAX_WRITE_BLOCK
    BY <2>3, <2>4, <2>5
  <2>7. QED
    BY <2>6 DEF a
<1>13. UNCHANGED <<events, rx_busy, dma_on, base>>
  BY <1>2, <1>12
<1>14. LoopOK' /\ EventsOK' /\ BytesOK'
  <2>1. LoopOK'
    BY <1>2, <1>5, <1>13 DEF Undamaged, LoopOK, NoFrame
  <2>2. EventsOK' /\ BytesOK'
    BY <1>5, <1>10, <1>13 DEF Undamaged, EventsOK, BytesOK
  <2>3. QED
    BY <2>1, <2>2
<1>15. Patient'
  <2>1. ~AllArrived
    BY <1>2 DEF AllArrived
  <2>2. acc + Len(events) <= HalfQueue + hurt.pauses
    BY <1>9, <2>1 DEF Patient
  <2>3. acc' = acc /\ events' = events /\ hurt' = hurt
    BY <1>2, <1>13
  <2>4. QED
    BY <2>2, <2>3 DEF Patient
<1>16. Receiving(p)'
  BY <1>2, <1>9, <1>11, <1>15 DEF Receiving
<1>17. Underway'
  BY <1>2, <1>8, <1>16 DEF Underway
<1>18. QED
  BY <1>2, <1>7, <1>14, <1>17 DEF Undamaged

(* A pause is counted, as long as the queue has room for it.                *)
LEMMA TickKeeps == FrameInv /\ Tick => FrameInv'
<1>1. SUFFICES ASSUME FrameInv, Tick PROVE FrameInv'
  OBVIOUS
<1>2. /\ events' = IF Posts THEN Append(events, "timeout") ELSE events
      /\ UNCHANGED <<wire, fifo, cmd, rx_busy, dma_on, base, upc, acc, ub, host, sent, done>>
  BY <1>1 DEF Tick, loopVars
<1>3. IF Posts /\ rx_busy /\ wire \o fifo # <<>>
        THEN (hurt.pauses < MaxPauses /\ hurt' = [hurt EXCEPT !.pauses = @ + 1])
             \/ hurt' = [hurt EXCEPT !.bytes = @ + 1]
        ELSE UNCHANGED hurt
  BY <1>1 DEF Tick, Paused
<1>4. hurt \in [bytes : Nat, answers : Nat, pauses : Nat, after : Nat] /\ hurt.pauses <= MaxPauses
      /\ MaxPauses \in Nat
  BY <1>1, FrameAssumption DEF FrameInv, HurtOK
<1>5. HurtOK'
  <2>1. CASE UNCHANGED hurt
    BY <1>4, <2>1 DEF HurtOK
  <2>2. CASE hurt.pauses < MaxPauses /\ hurt' = [hurt EXCEPT !.pauses = @ + 1]
    BY <1>4, <2>2 DEF HurtOK
  <2>3. CASE hurt' = [hurt EXCEPT !.bytes = @ + 1]
    BY <1>4, <2>3 DEF HurtOK
  <2>4. QED
    BY <1>3, <2>1, <2>2, <2>3
<1>6. SUFFICES ASSUME hurt'.bytes = 0 PROVE Undamaged'
  BY <1>5 DEF FrameInv
<1>7. hurt' # [hurt EXCEPT !.bytes = @ + 1]
  <2>1. [hurt EXCEPT !.bytes = @ + 1].bytes = hurt.bytes + 1 /\ hurt.bytes \in Nat
    BY <1>4
  <2>2. hurt.bytes + 1 # 0
    BY <2>1
  <2>3. QED
    BY <1>6, <2>1, <2>2
<1>8. hurt.bytes = 0
  BY <1>3, <1>4, <1>6, <1>7
<1>9. Undamaged
  BY <1>1, <1>8 DEF FrameInv
<1>10. Len(events) \in Nat /\ Len(events') \in Nat /\ Len(events') <= Len(events) + 1 /\ EventsOK'
       /\ (~Posts => Len(events') = Len(events))
  <2>1. events \in Seq({"timeout"}) /\ Len(events) <= HalfQueue /\ HalfQueue \in Nat
    BY <1>9, FrameAssumption DEF Undamaged, EventsOK
  <2>2. Len(events) \in Nat
    BY <2>1
  <2>3. CASE Posts
    <3>1. events' \in Seq({"timeout"}) /\ Len(events') = Len(events) + 1
      BY <1>2, <2>1, <2>3, AppendProperties
    <3>2. Len(events) < HalfQueue
      BY <2>3 DEF Posts
    <3>3. Len(events') <= HalfQueue /\ Len(events') \in Nat /\ Len(events') <= Len(events) + 1
      BY <2>1, <2>2, <3>1, <3>2
    <3>4. QED
      BY <2>2, <2>3, <3>1, <3>3 DEF EventsOK
  <2>4. CASE ~Posts
    BY <1>2, <2>1, <2>2, <2>4 DEF EventsOK
  <2>5. QED
    BY <2>3, <2>4
<1>11. LoopOK' /\ BytesOK'
  <2>1. LoopOK'
    BY <1>2, <1>9 DEF Undamaged, LoopOK, NoFrame
  <2>2. BytesOK'
    BY <1>2, <1>9 DEF Undamaged, BytesOK
  <2>3. QED
    BY <2>1, <2>2
<1>12. ASSUME Patient, upc = "wait" PROVE Patient'
  <2>5. rx_busy
    BY <1>9, <1>12 DEF Undamaged, LoopOK
  <2>1. AllArrived' <=> AllArrived
    BY <1>2 DEF AllArrived
  <2>2. CASE AllArrived
    BY <2>1, <2>2 DEF Patient
  <2>3. CASE ~AllArrived
    <3>1. wire \o fifo # <<>>
      <4>1. wire \in Seq(Byte) /\ fifo \in Seq(Byte)
        BY <1>9 DEF Undamaged, BytesOK
      <4>2. QED
        BY <2>3, <4>1, ConcatEqualIffEmpty DEF AllArrived
    <3> DEFINE l == Len(events)
               m == Len(events')
               h == hurt.pauses
    <3>2. /\ acc \in Nat /\ l \in Nat /\ m \in Nat /\ h \in Nat /\ HalfQueue \in Nat
          /\ m <= l + 1 /\ (~Posts => m = l)
      BY <1>4, <1>9, <1>10, FrameAssumption DEF Undamaged, LoopOK
    <3>3. acc + l <= HalfQueue + h
      BY <1>12, <2>3 DEF Patient
    <3>4. IF Posts THEN hurt'.pauses = h + 1 ELSE hurt'.pauses = h
      <4>1. [hurt EXCEPT !.pauses = @ + 1].pauses = h + 1
        BY <1>4
      <4>2. QED
        BY <1>3, <1>7, <2>5, <3>1, <4>1
    <3>5. acc' = acc
      BY <1>2
    <3> DEFINE g == hurt'.pauses
    <3>6. IF Posts THEN g = h + 1 ELSE g = h
      BY <3>4
    <3> HIDE DEF l, m, h, g
    <3>7. acc' + m <= HalfQueue + g
      BY <3>2, <3>3, <3>5, <3>6
    <3>8. QED
      BY <3>7 DEF Patient, m, g
  <2>4. QED
    BY <2>2, <2>3
<1>13. CASE host = "waits"
  <2>1. PICK p \in Packets :
          Fits(p) /\ sent = <<p>> /\ (Arriving(p) \/ Receiving(p) \/ Executing(p) \/ Answering)
    BY <1>9, <1>13 DEF Undamaged, Underway
  <2>2. Arriving(p) => Arriving(p)'
    BY <1>2 DEF Arriving
  <2>3. Receiving(p) => Receiving(p)'
    BY <1>2, <1>12 DEF Receiving
  <2>4. Executing(p) => Executing(p)'
    BY <1>2 DEF Executing, AllArrived, Copied
  <2>5. Answering => Answering'
    BY <1>2 DEF Answering, AllArrived
  <2>6. Underway'
    BY <1>2, <2>1, <2>2, <2>3, <2>4, <2>5 DEF Underway
  <2>7. QED
    BY <1>2, <1>10, <1>11, <1>13, <2>6 DEF Undamaged
<1>14. CASE host # "waits"
  <2>1. Quiet'
    BY <1>2, <1>9, <1>14 DEF Undamaged, Quiet, AllArrived
  <2>2. QED
    BY <1>2, <1>10, <1>11, <1>14, <2>1 DEF Undamaged
<1>15. QED
  BY <1>13, <1>14

(* The reset.                                                               *)
LEMMA FrameInitOK == FrameInit => FrameInv
<1>1. SUFFICES ASSUME FrameInit PROVE FrameInv
  OBVIOUS
<1>2. MaxPauses \in Nat /\ HalfQueue \in Nat
  BY FrameAssumption
<1>3. HurtOK
  <2>1. hurt = [bytes |-> 0, answers |-> 0, pauses |-> 0, after |-> 0]
    BY <1>1 DEF FrameInit, NoHurt
  <2>2. hurt \in [bytes : Nat, answers : Nat, pauses : Nat, after : Nat] /\ hurt.pauses = 0
    BY <2>1
  <2>3. 0 <= MaxPauses
    BY <1>2
  <2>4. QED
    BY <2>2, <2>3 DEF HurtOK
<1>4. NoFrame
  <2>1. ub = [read |-> 0, state |-> "no frame", buf |-> [i \in 1 .. MAX_WRITE_BLOCK |-> 0]]
    BY <1>1 DEF FrameInit
  <2>2. [i \in 1 .. MAX_WRITE_BLOCK |-> 0] \in [1 .. MAX_WRITE_BLOCK -> Byte]
    BY DEF Byte
  <2>3. QED
    BY <2>1, <2>2 DEF NoFrame, UartBuf
<1>5. LoopOK
  BY <1>1, <1>4 DEF FrameInit, LoopOK
<1>6. EventsOK /\ BytesOK
  <2>1. Len(<<>>) = 0 /\ <<>> \in Seq({"timeout"}) /\ <<>> \in Seq(Byte)
    OBVIOUS
  <2>2. events = <<>> /\ wire = <<>> /\ fifo = <<>> /\ cmd = <<>>
    BY <1>1 DEF FrameInit
  <2>3. Len(events) = 0 /\ 0 <= HalfQueue
    BY <1>2, <2>1, <2>2
  <2>4. EventsOK
    BY <2>1, <2>2, <2>3 DEF EventsOK
  <2>5. BytesOK
    BY <2>1, <2>2 DEF BytesOK
  <2>6. QED
    BY <2>4, <2>5
<1>7. Quiet /\ host # "waits"
  BY <1>1 DEF FrameInit, Quiet, AllArrived
<1>8. QED
  BY <1>3, <1>5, <1>6, <1>7 DEF FrameInv, Undamaged

(* Every step.                                                              *)
LEMMA FrameNextKeeps == FrameInv /\ [FrameNext]_frameVars => FrameInv'
<1>1. SUFFICES ASSUME FrameInv, [FrameNext]_frameVars PROVE FrameInv'
  OBVIOUS
<1>2. CASE FrameNext
  BY <1>1, <1>2, ReceiveKeeps, RxdKeeps, RefuseKeeps, DoCmdKeeps, AnswerKeeps, ArriveKeeps,
     TransferKeeps, TickKeeps, HostSendKeeps, HostTimeoutKeeps
  DEF FrameNext, FrameStep, LoopStep
<1>3. CASE UNCHANGED frameVars
  <2>1. UNCHANGED <<wire, fifo, cmd, rx_busy, dma_on, base, events, upc, acc, ub, host, sent, done, hurt>>
    BY <1>3 DEF frameVars, uartVars, loopVars
  <2>2. HurtOK' /\ UNCHANGED hurt
    BY <1>1, <2>1 DEF FrameInv, HurtOK
  <2>3. SUFFICES ASSUME hurt.bytes = 0 PROVE Undamaged'
    BY <2>2 DEF FrameInv
  <2>4. Undamaged
    BY <1>1, <2>3 DEF FrameInv
  <2>5. LoopOK'
    BY <2>1, <2>4 DEF Undamaged, LoopOK, NoFrame
  <2>6. EventsOK' /\ BytesOK'
    BY <2>1, <2>4 DEF Undamaged, EventsOK, BytesOK
  <2>7. Quiet => Quiet'
    BY <2>1 DEF Quiet, AllArrived
  <2>8. Underway => Underway'
    BY <2>1 DEF Underway, Arriving, Receiving, Executing, Answering, Patient, AllArrived, Copied
  <2>9. QED
    BY <2>1, <2>4, <2>5, <2>6, <2>7, <2>8 DEF Undamaged
<1>4. QED
  BY <1>1, <1>2, <1>3

(* Whatever the pieces a frame comes in, and whatever has been posted       *)
(* before it: nothing is refused or dealt with twice as long as nothing is  *)
(* damaged.                                                                 *)
THEOREM FrameInvHolds == FrameSpec => []FrameInv
<1>1. FrameInit => FrameInv
  BY FrameInitOK
<1>2. FrameInv /\ [FrameNext]_frameVars => FrameInv'
  BY FrameNextKeeps
<1>3. QED
  BY <1>1, <1>2, PTL DEF FrameSpec

(* Over a line that damages nothing each packet is given to do_cmd once,    *)
(* with every byte as it was sent, before it is answered.                   *)
THEOREM SerialDealtOnce == FrameSpec => []DealtOnce
<1>1. FrameInv => DealtOnce
  <2>1. SUFFICES ASSUME FrameInv, hurt.bytes = 0 PROVE done = sent \/ (host = "waits" /\ done = <<>>)
    BY DEF DealtOnce
  <2>2. Undamaged
    BY <2>1 DEF FrameInv
  <2>3. CASE host = "waits"
    BY <2>2, <2>3 DEF Undamaged, Underway, Arriving, Receiving, Executing, Answering
  <2>4. CASE host # "waits"
    BY <2>2, <2>4 DEF Undamaged, Quiet
  <2>5. QED
    BY <2>3, <2>4
<1>2. QED
  BY <1>1, FrameInvHolds, PTL

(* What holds whatever is damaged or missed: between the abort and the next *)
(* call of UART_Receive the driver is not busy, and a channel that runs     *)
(* without it has filled the first block.                                   *)
StrayInv ==
  /\ BytesOK
  /\ upc \in {"receive", "answer"} => ~rx_busy
  /\ dma_on /\ ~rx_busy => Len(cmd) >= BlockSize

(* Every packet, also one that does not fit, is sent as bytes.              *)
LEMMA FrameTyped ==
  ASSUME NEW p \in Packets
  PROVE  Frame(p) \in Seq(Byte)
<1>1. p \in Seq(Byte) /\ p # <<>>
  <2>1. p \in Seq(0 .. 255) /\ p # <<>>
    BY PacketAssumption
  <2>2. Byte = 0 .. 255
    BY DEF Byte
  <2>3. QED
    BY <2>1, <2>2
<1>2. PICK e : Pieces(p, e) /\ Frame(p) = <<END>> \o e[Len(p)] \o <<END>>
  BY <1>1, FrameIs
<1> DEFINE f == Frame(p)
<1>3. f = <<END>> \o e[Len(p)] \o <<END>>
  BY <1>2
<1> HIDE DEF f
<1>4. f \in Seq(Byte)
  BY <1>1, <1>2, <1>3, FrameBytes
<1>5. QED
  BY <1>4 DEF f

(* A byte appended to others.                                               *)
LEMMA OneMore ==
  ASSUME NEW a \in Seq(Byte), NEW x \in Byte
  PROVE  Append(a, x) \in Seq(Byte) /\ Len(a) \in Nat /\ Len(Append(a, x)) = Len(a) + 1
BY AppendProperties

(* A byte that comes makes what has been received no shorter, on whatever   *)
(* way it comes.                                                            *)
LEMMA ByteComes == StrayInv /\ (Arrive \/ Transfer) => StrayInv'
<1>1. SUFFICES ASSUME StrayInv, Arrive \/ Transfer PROVE StrayInv'
  OBVIOUS
<1>2. cmd \in Seq(Byte) /\ fifo \in Seq(Byte) /\ wire \in Seq(Byte)
  BY <1>1 DEF StrayInv, BytesOK
<1>3. ASSUME NEW x \in Byte, Take(x)
      PROVE  cmd' \in Seq(Byte) /\ fifo' \in Seq(Byte) /\ (cmd' = cmd \/ cmd' = Append(cmd, x))
  BY <1>2, <1>3, OneMore DEF Take
<1>4. /\ cmd' \in Seq(Byte) /\ fifo' \in Seq(Byte) /\ wire' \in Seq(Byte)
      /\ cmd' = cmd \/ \E x \in Byte : cmd' = Append(cmd, x)
  <2>1. CASE Arrive
    <3>1. wire # <<>> /\ wire' = Tail(wire)
      BY <2>1 DEF Arrive
    <3>2. Head(wire) \in Byte /\ Tail(wire) \in Seq(Byte)
      BY <1>2, <3>1, HeadTailProperties
    <3>3. END \in Byte /\ ESC \in Byte
      BY DEF END, ESC, Byte
    <3>4. UNCHANGED <<cmd, fifo>> \/ \E x \in Byte : Take(x)
      BY <2>1, <3>2, <3>3 DEF Arrive
    <3>5. QED
      BY <1>2, <1>3, <3>1, <3>2, <3>4
  <2>2. CASE Transfer
    <3>1. fifo # <<>> /\ cmd' = Append(cmd, Head(fifo)) /\ fifo' = Tail(fifo) /\ wire' = wire
      BY <2>2 DEF Transfer
    <3>2. Head(fifo) \in Byte /\ Tail(fifo) \in Seq(Byte)
      BY <1>2, <3>1, HeadTailProperties
    <3>3. QED
      BY <1>2, <3>1, <3>2, OneMore
  <2>3. QED
    BY <1>1, <2>1, <2>2
<1>5. Len(cmd) \in Nat /\ Len(cmd') \in Nat /\ Len(cmd') >= Len(cmd)
  <2>1. CASE cmd' = cmd
    BY <1>2, <2>1
  <2>2. ASSUME NEW x \in Byte, cmd' = Append(cmd, x)
        PROVE  Len(cmd) \in Nat /\ Len(cmd') \in Nat /\ Len(cmd') >= Len(cmd)
    <3>1. Len(cmd) \in Nat /\ Len(cmd') = Len(cmd) + 1
      BY <1>2, <2>2, OneMore
    <3>2. QED
      BY <3>1
  <2>3. QED
    BY <1>4, <2>1, <2>2
<1>6. UNCHANGED upc /\ (UNCHANGED <<rx_busy, dma_on>> \/ (rx_busy' = FALSE /\ dma_on' = FALSE))
  BY <1>1 DEF Arrive, Transfer, Complete, loopVars
<1>7. dma_on' /\ ~rx_busy' => Len(cmd') >= BlockSize
  <2>1. SUFFICES ASSUME dma_on', ~rx_busy' PROVE Len(cmd') >= BlockSize
    OBVIOUS
  <2>2. Len(cmd) >= BlockSize
    BY <1>1, <1>6, <2>1 DEF StrayInv
  <2>3. BlockSize \in Int
    BY FrameAssumption
  <2> DEFINE l == Len(cmd)
             m == Len(cmd')
  <2>4. l \in Nat /\ m \in Nat /\ m >= l /\ l >= BlockSize
    BY <1>5, <2>2
  <2> HIDE DEF l, m
  <2>5. m >= BlockSize
    BY <2>3, <2>4
  <2>6. QED
    BY <2>5 DEF m
<1>8. upc' \in {"receive", "answer"} => ~rx_busy'
  BY <1>1, <1>6 DEF StrayInv
<1>9. QED
  BY <1>4, <1>7, <1>8 DEF StrayInv, BytesOK

(* An abort stops the channel, or leaves it behind the first block.         *)
LEMMA AbortLeaves ==
  ASSUME StrayInv, Abort
  PROVE  BytesOK' /\ ~rx_busy' /\ (dma_on' => Len(cmd') >= BlockSize)
<1>1. cmd \in Seq(Byte) /\ fifo \in Seq(Byte) /\ wire \in Seq(Byte)
  BY DEF StrayInv, BytesOK
<1>2. rx_busy' = FALSE
  BY DEF Abort
<1>3. CASE ~rx_busy
  BY <1>1, <1>2, <1>3 DEF Abort, StrayInv, BytesOK
<1>4. CASE rx_busy /\ Stop
  BY <1>1, <1>2, <1>4 DEF Stop, BytesOK
<1>5. CASE Miss
  <2>1. PICK x \in Byte : cmd' = Append(cmd, x) /\ fifo' \in Seq(Byte) /\ wire' \in Seq(Byte)
    <3>1. CASE fifo # <<>> /\ cmd' = Append(cmd, Head(fifo)) /\ fifo' = Tail(fifo) /\ wire' = wire
      BY <1>1, <3>1, HeadTailProperties
    <3>2. CASE wire # <<>> /\ cmd' = Append(cmd, Head(wire)) /\ wire' = Tail(wire) /\ fifo' = fifo
      BY <1>1, <3>2, HeadTailProperties
    <3>3. QED
      BY <1>5, <3>1, <3>2 DEF Miss
  <2>2. cmd' \in Seq(Byte) /\ Len(cmd') = Len(cmd) + 1
    BY <1>1, <2>1, OneMore
  <2>3. Len(cmd) = BlockSize - 1 /\ BlockSize \in Int
    BY <1>5, FrameAssumption DEF Miss
  <2>4. Len(cmd') >= BlockSize
    BY <2>2, <2>3
  <2>5. QED
    BY <1>2, <2>1, <2>2, <2>4 DEF BytesOK
<1>6. QED
  BY <1>3, <1>4, <1>5 DEF Abort

(* No step of line, driver, loop or host loses it.                          *)
LEMMA StrayKept == StrayInv /\ [FrameNext]_frameVars => StrayInv'
<1>1. SUFFICES ASSUME StrayInv, [FrameNext]_frameVars PROVE StrayInv'
  OBVIOUS
<1>2. cmd \in Seq(Byte) /\ fifo \in Seq(Byte) /\ wire \in Seq(Byte)
  BY <1>1 DEF StrayInv, BytesOK
<1>3. CASE UNCHANGED frameVars
  BY <1>1, <1>3 DEF StrayInv, BytesOK, frameVars, uartVars, loopVars
<1>4. CASE Receive
  <2>1. upc' = "wait" /\ rx_busy' = TRUE /\ (cmd' = cmd \/ cmd' = <<>>) /\ UNCHANGED <<wire, fifo>>
    BY <1>4 DEF Receive, StartReception
  <2>2. cmd' \in Seq(Byte)
    <3>1. <<>> \in Seq(Byte)
      OBVIOUS
    <3>2. QED
      BY <1>2, <2>1, <3>1
  <2>3. QED
    BY <1>2, <2>1, <2>2 DEF StrayInv, BytesOK
<1>5. CASE Rxd
  <2>1. upc' \in {"wait", "abort", "refuse"}
    BY <1>5 DEF Rxd, WaitForMore, loopVars
  <2>2. UNCHANGED <<wire, fifo, cmd, rx_busy, dma_on>>
    BY <1>5 DEF Rxd
  <2>3. QED
    BY <1>1, <2>1, <2>2 DEF StrayInv, BytesOK
<1>6. CASE Refuse \/ DoCmd
  <2>1. Abort
    BY <1>6 DEF Refuse, DoCmd
  <2>2. QED
    BY <1>1, <2>1, AbortLeaves DEF StrayInv
<1>7. CASE Answer
  <2>1. /\ cmd' = [i \in DOMAIN cmd |-> 0] /\ upc = "answer" /\ upc' = "receive"
        /\ UNCHANGED <<wire, fifo, rx_busy, dma_on>>
    BY <1>7 DEF Answer
  <2>2. cmd' \in Seq(Byte) /\ Len(cmd') = Len(cmd)
    BY <1>2, <2>1, ClearedIs
  <2>3. QED
    BY <1>1, <2>1, <2>2 DEF StrayInv, BytesOK
<1>8. CASE Arrive \/ Transfer
  BY <1>1, <1>8, ByteComes
<1>9. CASE Tick \/ HostTimeout
  <2>1. UNCHANGED <<wire, fifo, cmd, rx_busy, dma_on, upc>>
    BY <1>9 DEF Tick, HostTimeout, uartVars, loopVars
  <2>2. QED
    BY <1>1, <2>1 DEF StrayInv, BytesOK
<1>10. CASE HostSend
  <2>1. (\E p \in Packets : wire' = Frame(p)) /\ UNCHANGED <<fifo, cmd, rx_busy, dma_on, upc>>
    BY <1>10 DEF HostSend, loopVars
  <2>2. wire' \in Seq(Byte)
    BY <2>1, FrameTyped
  <2>3. QED
    BY <1>1, <1>2, <2>1, <2>2 DEF StrayInv, BytesOK
<1>11. QED
  BY <1>1, <1>3, <1>4, <1>5, <1>6, <1>7, <1>8, <1>9, <1>10 DEF FrameNext, FrameStep, LoopStep

(* Whatever is damaged and however often an abort meets the end of a block: *)
(* while an answer is built and sent, the channel is stopped or writes      *)
(* behind the first block.                                                  *)
THEOREM SerialAnswerUndisturbed == FrameSpec => []AnswerUndisturbed
<1>1. FrameInit => StrayInv
  <2>1. SUFFICES ASSUME FrameInit PROVE StrayInv
    OBVIOUS
  <2>2. wire = <<>> /\ fifo = <<>> /\ cmd = <<>> /\ rx_busy = FALSE /\ dma_on = FALSE
    BY <2>1 DEF FrameInit
  <2>3. <<>> \in Seq(Byte)
    OBVIOUS
  <2>4. BytesOK
    BY <2>2, <2>3 DEF BytesOK
  <2>5. QED
    BY <2>2, <2>4 DEF StrayInv
<1>2. StrayInv /\ [FrameNext]_frameVars => StrayInv'
  BY StrayKept
<1>3. StrayInv => AnswerUndisturbed
  BY DEF StrayInv, AnswerUndisturbed
<1>4. QED
  BY <1>1, <1>2, <1>3, PTL DEF FrameSpec
=============================================================================

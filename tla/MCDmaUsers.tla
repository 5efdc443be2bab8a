---------------------------- MODULE MCDmaUsers ----------------------------
(***************************************************************************)
(* DmaUsers with blocks of two items, transfers of up to three blocks, and  *)
(* UARTs that have their channels or take the first that is free.           *)
(***************************************************************************)
EXTENDS DmaUsers

SomePorts == { [rx |-> 1, tx |-> 0], [rx |-> DMA_CHANNEL_ANY, tx |-> DMA_CHANNEL_ANY] }

Plain(src, dst, size) ==
  [ src |-> 40, dst |-> 80, size |-> size, gath |-> NoGaps, scat |-> NoGaps,
    ctl |-> [NoControl EXCEPT !.src = src, !.dst = dst] ]
Wide(t, src, dst) == [t EXCEPT !.ctl.src_width = src, !.ctl.dst_width = dst]
Gathered(t) == [t EXCEPT !.ctl.gather = TRUE, !.gath = [count |-> 2, interval |-> 1]]
Scattered(t) == [t EXCEPT !.ctl.scatter = TRUE, !.scat = [count |-> 1, interval |-> 2]]

(* Counts of a gather or scatter that divide the block. *)
SomeTransfers ==
  { Plain("inc", "dec", 3), Plain("dec", "fix", 2),
    Wide(Gathered(Plain("inc", "inc", 5)), 4, 2), Wide(Scattered(Plain("fix", "inc", 3)), 2, 1) }
SomeLists ==
  { << Plain("inc", "inc", 3), Plain("inc", "inc", 1), Plain("fix", "dec", 4) >>,
    << Gathered(Plain("inc", "inc", 2)), Gathered(Plain("inc", "fix", 3)) >> }
=============================================================================

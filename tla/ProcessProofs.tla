--------------------------- MODULE ProcessProofs ---------------------------
(***************************************************************************)
(* Theorems about the Contiki kernel of module Process, for every ring     *)
(* size, every number of processes and every set of events.                *)
(***************************************************************************)
EXTENDS Process, SequenceTheorems, TLAPS

-----------------------------------------------------------------------------
(* Arithmetic modulo the size of the ring.                                  *)

(* Below one round nothing is subtracted, in the second round N is. *)
LEMMA ModRange ==
  ASSUME NEW N \in Nat \ {0}, NEW a \in Nat
  PROVE  a % N \in 0 .. N - 1
  BY SMT

(* A number below the modulus is its own remainder.                         *)
LEMMA ModSmall ==
  ASSUME NEW N \in Nat \ {0}, NEW a \in 0 .. N - 1
  PROVE  a % N = a
  BY SMT

(* One turn above the modulus, the remainder is what is left.               *)
LEMMA ModWrap ==
  ASSUME NEW N \in Nat \ {0}, NEW a \in N .. 2 * N - 1
  PROVE  a % N = a - N
  BY SMT

(* A sum with a remainder has the remainder of the sum.                     *)
LEMMA ModTwice ==
  ASSUME NEW N \in Nat \ {0}, NEW a \in 0 .. 2 * N - 1
  PROVE  a % N = IF a < N THEN a ELSE a - N
<1>1. CASE a < N
  BY <1>1, ModSmall
<1>2. CASE a >= N
  BY <1>2, ModWrap
<1>3. QED
  BY <1>1, <1>2

(* The slot after the last one is the first. *)
LEMMA ModNext ==
  ASSUME NEW N \in Nat \ {0}, NEW i \in 0 .. N - 1
  PROVE  (i + 1) % N = IF i + 1 < N THEN i + 1 ELSE 0
<1>1. CASE i + 1 < N
  BY <1>1, ModSmall
<1>2. CASE i + 1 = N
  <2>1. N % N = 0
    BY ModWrap
  <2>2. QED
    BY <1>2, <2>1
<1>3. QED
  BY <1>1, <1>2

(* Indices less than a round apart are different slots. *)
LEMMA ModDiffer ==
  ASSUME NEW N \in Nat \ {0}, NEW h \in 0 .. N - 1, NEW k \in 0 .. N - 1,
         NEW i \in 1 .. k
  PROVE  (h + i - 1) % N # (h + k) % N
<1>1. h + i - 1 \in 0 .. 2 * N - 1 /\ h + k \in 0 .. 2 * N - 1
  OBVIOUS
<1>2. PICK a \in Nat : a = (h + i - 1) % N
                     /\ a = IF h + i - 1 < N THEN h + i - 1 ELSE h + i - 1 - N
  BY <1>1, ModTwice
<1>3. PICK b \in Nat : b = (h + k) % N
                     /\ b = IF h + k < N THEN h + k ELSE h + k - N
  BY <1>1, ModTwice
<1>4. a # b
  BY <1>2, <1>3
<1>5. QED
  BY <1>2, <1>3, <1>4

(* Wrapping early or late is the same. *)
LEMMA ModStep ==
  ASSUME NEW N \in Nat \ {0}, NEW h \in 0 .. N - 1, NEW i \in 0 .. N - 1
  PROVE  (((h + 1) % N) + i) % N = (h + i + 1) % N
<1>1. CASE h + 1 = N
  <2>1. (h + 1) % N = 0
    BY <1>1, ModWrap
  <2>2. (((h + 1) % N) + i) % N = i
    BY <2>1, ModSmall
  <2>3. PICK a \in N .. 2 * N - 1 : a = h + i + 1 /\ a - N = i
    BY <1>1
  <2>4. a % N = i
    BY <2>3, ModWrap
  <2>5. QED
    BY <2>2, <2>3, <2>4, Zenon
<1>2. CASE h + 1 < N
  <2>1. (h + 1) % N = h + 1
    BY <1>2, ModSmall
  <2>2. ((h + 1) % N) + i = h + i + 1
    BY <2>1
  <2>3. QED
    BY <2>2, Zenon
<1>3. QED
  BY <1>1, <1>2

-----------------------------------------------------------------------------
PostLabel == {"post_test", "post_ev", "post_data", "post_p", "post_increment"}
ThreadLabel == PostLabel \cup {"thread", "poll_mark", "poll_request"}

RunLabel == {"run", "poll_clear_request", "event_test", "event_fetch",
             "event_advance", "event_decrement", "broadcast"}

(* What the program counter says of the cursors and registers. *)
Control ==
  /\ pc \in RunLabel => pollCursor = 0
  /\ pc = "poll_test" => pollCursor # 0
  /\ pc = "poll_clear" => pollCursor \in Proc
  /\ pc \in ThreadLabel => pollCursor <= NumProcs
  /\ pc # "broadcast" => castCursor <= NumProcs
  /\ pc = "broadcast" => castCursor # 0
  /\ pc \in {"event_fetch", "event_advance", "event_decrement"} => n # 0
  /\ pc \in {"event_advance", "event_decrement"} => received \in Event
  /\ pc \in {"post_ev", "post_data", "post_p", "post_increment"} =>
       n < PROCESS_CONF_NUMEVENTS
  /\ pc \in PostLabel => posted \in Event
  /\ pc \in {"poll_mark", "poll_request"} => polled \in Proc

TypeInv == TypeOK /\ Control

-----------------------------------------------------------------------------
(* The slot k places behind slot h is a slot. *)
LEMMA SlotBehind ==
  ASSUME NEW h \in Slot, NEW k \in 0 .. PROCESS_CONF_NUMEVENTS
  PROVE  (h + k) % PROCESS_CONF_NUMEVENTS \in Slot
<1>1. h + k \in Nat
  BY KernelAssumption DEF Slot
<1>2. QED
  BY <1>1, KernelAssumption, ModRange DEF Slot

-----------------------------------------------------------------------------
(* Type correctness, with what the program counter says of the registers. *)
LEMMA TypeInvInit == Init => TypeInv
<1> SUFFICES ASSUME Init
             PROVE  TypeInv
  OBVIOUS
<1>1. ZeroEvent \in Event
  BY KernelAssumption DEF ZeroEvent, Event, PROCESS_BROADCAST
<1>2. 0 \in Slot /\ 0 \in 0 .. PROCESS_CONF_NUMEVENTS /\ 0 \in 0 .. NumProcs + 1
        /\ 0 \in 0 .. MaxCalls
  BY KernelAssumption DEF Slot
<1>3. TypeOK
  BY <1>1, <1>2 DEF Init, TypeOK, Label
<1>4. Control
  BY KernelAssumption DEF Init, Control, ThreadLabel, PostLabel, RunLabel
<1>5. QED
  BY <1>3, <1>4 DEF TypeInv

(* Every step of the kernel keeps the type invariant.                       *)
LEMMA TypeInvStep == TypeInv /\ [Next]_vars => TypeInv'
<1> SUFFICES ASSUME TypeInv, [Next]_vars
             PROVE  TypeInv'
  OBVIOUS
<1> USE KernelAssumption
<1> USE DEF TypeInv, TypeOK, Control, Proc, Slot, Label, ThreadLabel, PostLabel, RunLabel,
            ring, polls, registers
<1>1. CASE Run
  BY <1>1 DEF Run
<1>2. CASE PollClearRequest
  <2>1. pollCursor' \in 0 .. NumProcs + 1
    BY <1>2 DEF PollClearRequest
  <2>2. poll_requested' \in BOOLEAN
    BY <1>2 DEF PollClearRequest
  <2>3. TypeOK'
    BY <1>2, <2>1, <2>2 DEF PollClearRequest
  <2>4. Control'
    BY <1>2 DEF PollClearRequest
  <2>5. QED
    BY <2>3, <2>4
<1>3. CASE PollTest
  BY <1>3 DEF PollTest, Call
<1>4. CASE PollClear
  BY <1>4 DEF PollClear, Call
<1>5. CASE EventTest
  BY <1>5 DEF EventTest
<1>6. CASE EventFetch
  BY <1>6 DEF EventFetch, Event
<1>7. CASE EventAdvance
  <2>1. (head + 1) % PROCESS_CONF_NUMEVENTS \in Slot
    BY SlotBehind
  <2>2. TypeOK'
    BY <1>7, <2>1 DEF EventAdvance
  <2>3. Control'
    BY <1>7 DEF EventAdvance
  <2>4. QED
    BY <2>2, <2>3
<1>8. CASE EventDecrement
  <2>1. received.p \in Proc \cup {PROCESS_BROADCAST}
    BY <1>8 DEF EventDecrement, Event
  <2>2. n - 1 \in 0 .. PROCESS_CONF_NUMEVENTS
    BY <1>8 DEF EventDecrement
  <2>3. TypeOK'
    BY <1>8, <2>1, <2>2 DEF EventDecrement, Call, PROCESS_BROADCAST
  <2>4. Control'
    BY <1>8, <2>1 DEF EventDecrement, Call, PROCESS_BROADCAST
  <2>5. QED
    BY <2>3, <2>4
<1>9. CASE Broadcast
  <2>1. CASE castCursor <= NumProcs /\ poll_requested
    BY <1>9, <2>1 DEF Broadcast
  <2>2. CASE castCursor <= NumProcs /\ ~poll_requested
    BY <1>9, <2>2 DEF Broadcast, Call
  <2>3. CASE castCursor > NumProcs
    BY <1>9, <2>3 DEF Broadcast
  <2>4. QED
    BY <2>1, <2>2, <2>3
<1>10. CASE PostTest
  BY <1>10 DEF PostTest
<1>11. CASE PostEv
  BY <1>11, SlotBehind DEF PostEv, Event, snum
<1>12. CASE PostData
  BY <1>12, SlotBehind DEF PostData, Event, snum
<1>13. CASE PostP
  BY <1>13, SlotBehind DEF PostP, Event, snum
<1>14. CASE PostIncrement
  BY <1>14 DEF PostIncrement
<1>15. CASE PollMark
  BY <1>15 DEF PollMark
<1>16. CASE PollRequest
  BY <1>16 DEF PollRequest
<1>17. ASSUME NEW e \in MainEvent, ThreadPost(e)
       PROVE  TypeInv'
  BY <1>17 DEF ThreadPost
<1>18. ASSUME NEW p \in Proc, ThreadPoll(p)
       PROVE  TypeInv'
  BY <1>18 DEF ThreadPoll
<1>19. CASE ThreadYield
  BY <1>19 DEF ThreadYield
<1>20. ASSUME NEW p \in IsrPolled, IsrPoll(p)
       PROVE  TypeInv'
  BY <1>20 DEF IsrPoll
<1>21. ASSUME NEW e \in IsrEvent, IsrPost(e)
       PROVE  TypeInv'
  <2>1. (fevent + nevents) % PROCESS_CONF_NUMEVENTS \in Slot
    BY SlotBehind
  <2>2. events' \in [Slot -> Event]
    BY <1>21, <2>1 DEF IsrPost
  <2>3. nevents' \in 0 .. PROCESS_CONF_NUMEVENTS
    BY <1>21 DEF IsrPost
  <2>4. TypeOK'
    BY <1>21, <2>2, <2>3 DEF IsrPost
  <2>5. Control'
    BY <1>21 DEF IsrPost
  <2>6. QED
    BY <2>4, <2>5
<1>22. CASE UNCHANGED vars
  BY <1>22 DEF vars
<1>23. QED
  BY <1>1, <1>2, <1>3, <1>4, <1>5, <1>6, <1>7, <1>8, <1>9, <1>10, <1>11, <1>12, <1>13, <1>14, <1>15, <1>16, <1>17, <1>18, <1>19, <1>20, <1>21, <1>22
  DEF Next, MainStep, ThreadStep, IsrPollStep

(* Type correctness: every variable of the kernel keeps its range; in       *)
(* particular the ring never holds more than PROCESS_CONF_NUMEVENTS events  *)
(* and no index leaves it, even when interrupts post inside the windows of  *)
(* do_event and process_post.                                               *)
THEOREM TypeCorrect == Spec => []TypeOK
<1>1. Spec => []TypeInv
  BY TypeInvInit, TypeInvStep, PTL DEF Spec
<1>2. TypeInv => TypeOK
  BY DEF TypeInv
<1>3. QED
  BY <1>1, <1>2, PTL

-----------------------------------------------------------------------------
(* Poll requests. *)
LEMMA PollNotLostStep ==
  TypeInv /\ PollNotLost /\ [Next]_vars => PollNotLost'
<1> SUFFICES ASSUME TypeInv, PollNotLost, [Next]_vars,
                    NEW p \in Proc, needspoll'[p]
             PROVE  \/ poll_requested'
                    \/ pc' \in {"poll_test", "poll_clear"} /\ pollCursor' <= p
                    \/ pc' \in ThreadLabel /\ pollCursor' # 0 /\ pollCursor' < p
                    \/ pc' = "poll_request" /\ polled' = p
  BY DEF PollNotLost, ThreadLabel, PostLabel
<1> DEFINE Pending == \/ poll_requested
                      \/ pc \in {"poll_test", "poll_clear"} /\ pollCursor <= p
                      \/ pc \in ThreadLabel /\ pollCursor # 0 /\ pollCursor < p
                      \/ pc = "poll_request" /\ polled = p
<1>1. needspoll[p] => Pending
  BY DEF PollNotLost, ThreadLabel, PostLabel
<1>2. p \in 1 .. NumProcs /\ pollCursor \in 0 .. NumProcs + 1
        /\ NumProcs \in Nat /\ needspoll \in [Proc -> BOOLEAN]
  BY KernelAssumption DEF TypeInv, TypeOK, Proc
<1>3. CASE PollClearRequest
  BY <1>3, <1>2 DEF PollClearRequest
<1>4. CASE PollTest
  <2>1. needspoll[p] /\ pc = "poll_test" /\ poll_requested' = poll_requested
    BY <1>4 DEF PollTest, polls
  <2>2. poll_requested \/ pollCursor <= p
    BY <1>1, <2>1 DEF ThreadLabel, PostLabel
  <2>3. CASE pollCursor > NumProcs
    BY <1>2, <2>1, <2>2, <2>3
  <2>4. CASE pollCursor <= NumProcs /\ needspoll[pollCursor]
    BY <1>4, <1>2, <2>1, <2>2, <2>4 DEF PollTest
  <2>5. CASE pollCursor <= NumProcs /\ ~needspoll[pollCursor]
    <3>1. p # pollCursor
      BY <2>1, <2>5
    <3>2. pc' = pc /\ pollCursor' = pollCursor + 1
      BY <1>4, <1>2, <2>5 DEF PollTest
    <3>3. QED
      BY <1>2, <2>1, <2>2, <3>1, <3>2
  <2>6. QED
    BY <1>2, <2>3, <2>4, <2>5
<1>5. CASE PollClear
  <2>1. pollCursor \in Proc
    BY <1>5 DEF PollClear, TypeInv, Control
  <2>2. p # pollCursor /\ needspoll[p]
    BY <1>5, <1>2, <2>1 DEF PollClear
  <2>3. QED
    BY <1>5, <1>1, <1>2, <2>1, <2>2 DEF PollClear, Call, Proc, ThreadLabel, PostLabel
<1>6. CASE PollMark
  <2>1. p = polled \/ needspoll[p]
    BY <1>6, <1>2 DEF PollMark
  <2>2. QED
    BY <1>6, <1>1, <2>1 DEF PollMark, ThreadLabel, PostLabel
<1>7. CASE PollRequest
  BY <1>7 DEF PollRequest
<1>8. CASE ThreadYield
  <2>1. needspoll[p]
    BY <1>8 DEF ThreadYield, polls
  <2>2. QED
    BY <1>8, <1>1, <1>2, <2>1 DEF ThreadYield, polls, ThreadLabel, PostLabel
<1>9. CASE EventDecrement
  BY <1>9, <1>1 DEF EventDecrement, polls, Call, ThreadLabel, PostLabel
<1>10. CASE Broadcast
  BY <1>10, <1>1 DEF Broadcast, polls, Call, ThreadLabel, PostLabel
<1>11. CASE \/ Run \/ EventTest \/ EventFetch \/ EventAdvance
  BY <1>11, <1>1 DEF Run, EventTest, EventFetch, EventAdvance, polls, ThreadLabel, PostLabel
<1>12. CASE \/ PostTest \/ PostEv \/ PostData \/ PostP \/ PostIncrement
  BY <1>12, <1>1 DEF PostTest, PostEv, PostData, PostP, PostIncrement, polls,
       ThreadLabel, PostLabel
<1>13. CASE ThreadStep
  BY <1>13, <1>1 DEF ThreadStep, ThreadPost, ThreadPoll, polls, ThreadLabel, PostLabel
<1>14. CASE IsrPollStep
  BY <1>14 DEF IsrPollStep, IsrPoll
<1>15. CASE \E e \in IsrEvent : IsrPost(e)
  BY <1>15, <1>1 DEF IsrPost, polls
<1>16. CASE UNCHANGED vars
  BY <1>16, <1>1 DEF vars
<1>17. QED
  BY <1>3, <1>4, <1>5, <1>6, <1>7, <1>8, <1>9, <1>10, <1>11, <1>12, <1>13, <1>14, <1>15, <1>16 DEF Next, MainStep

(* A poll request is never lost, for every number of processes and every    *)
(* interleaving of process_poll, called from interrupts or from threads,    *)
(* with the walk of do_poll (process.c:224-238, 370-380).                   *)
THEOREM PollRequestsKept == Spec => []PollNotLost
<1>1. Init => PollNotLost
  BY DEF Init, PollNotLost
<1>2. Spec => []TypeInv
  BY TypeInvInit, TypeInvStep, PTL DEF Spec
<1>3. QED
  BY <1>1, <1>2, PollNotLostStep, PTL DEF Spec
-----------------------------------------------------------------------------
(* The ring as a sequence. *)
LEMMA SegmentLength ==
  ASSUME NEW f, NEW h, NEW k \in Nat
  PROVE  /\ Len(Segment(f, h, k)) = k
         /\ DOMAIN Segment(f, h, k) = 1 .. k
         /\ \A i \in 1 .. k :
              Segment(f, h, k)[i] = f[(h + i - 1) % PROCESS_CONF_NUMEVENTS]
  BY DEF Segment

(* The slots in use are a sequence of events.                               *)
LEMMA SegmentSeq ==
  ASSUME NEW f \in [Slot -> Event], NEW h \in Slot,
         NEW k \in 0 .. PROCESS_CONF_NUMEVENTS
  PROVE  Segment(f, h, k) \in Seq(Event)
<1>1. ASSUME NEW i \in 1 .. k
      PROVE  f[(h + i - 1) % PROCESS_CONF_NUMEVENTS] \in Event
  <2>1. (h + (i - 1)) % PROCESS_CONF_NUMEVENTS \in Slot
    BY KernelAssumption, SlotBehind
  <2>2. h + i - 1 = h + (i - 1)
    BY KernelAssumption DEF Slot
  <2>3. QED
    BY <2>1, <2>2
<1>2. QED
  BY <1>1, KernelAssumption DEF Segment

(* A slot of the segment is not the slot behind it. *)
LEMMA SlotsDiffer ==
  ASSUME NEW h \in Slot, NEW k \in 0 .. PROCESS_CONF_NUMEVENTS - 1, NEW i \in 1 .. k
  PROVE  /\ (h + i - 1) % PROCESS_CONF_NUMEVENTS \in Slot
         /\ (h + i - 1) % PROCESS_CONF_NUMEVENTS # (h + k) % PROCESS_CONF_NUMEVENTS
<1>1. h \in 0 .. PROCESS_CONF_NUMEVENTS - 1 /\ h + i - 1 \in Nat
  BY KernelAssumption DEF Slot
<1>2. QED
  BY <1>1, KernelAssumption, ModDiffer, ModRange DEF Slot

(* Writing the slot behind a segment leaves the segment alone. *)
LEMMA SegmentKept ==
  ASSUME NEW f, NEW g, NEW h \in Slot, NEW k \in 0 .. PROCESS_CONF_NUMEVENTS - 1,
         \A s \in Slot : s # (h + k) % PROCESS_CONF_NUMEVENTS => g[s] = f[s]
  PROVE  Segment(g, h, k) = Segment(f, h, k)
  BY SlotsDiffer DEF Segment

(* A segment that grows by one gets the entry behind it. *)
LEMMA SegmentAppend ==
  ASSUME NEW f \in [Slot -> Event], NEW h \in Slot,
         NEW k \in 0 .. PROCESS_CONF_NUMEVENTS - 1
  PROVE  Segment(f, h, k + 1)
           = Append(Segment(f, h, k), f[(h + k) % PROCESS_CONF_NUMEVENTS])
<1> DEFINE S == Segment(f, h, k)
           T == Segment(f, h, k + 1)
           e == f[(h + k) % PROCESS_CONF_NUMEVENTS]
<1>1. k \in Nat /\ k + 1 \in 0 .. PROCESS_CONF_NUMEVENTS /\ k + 1 \in Nat /\ h \in Nat
        /\ k \in 0 .. PROCESS_CONF_NUMEVENTS
  BY KernelAssumption DEF Slot
<1>2. S \in Seq(Event) /\ T \in Seq(Event) /\ e \in Event
  BY <1>1, SegmentSeq, SlotBehind
<1>3. Len(S) = k /\ Len(T) = k + 1
  BY <1>1, SegmentLength
<1>4. /\ Append(S, e) \in Seq(Event) /\ Len(Append(S, e)) = k + 1
      /\ \A i \in 1 .. k : Append(S, e)[i] = S[i]
      /\ Append(S, e)[k + 1] = e
  BY <1>2, <1>3, AppendProperties
<1>5. ASSUME NEW i \in 1 .. k + 1
      PROVE  T[i] = Append(S, e)[i]
  <2>1. T[i] = f[(h + i - 1) % PROCESS_CONF_NUMEVENTS]
    BY <1>1, SegmentLength
  <2>2. CASE i = k + 1
    <3>1. h + i - 1 = h + k
      BY <1>1, <2>2
    <3>2. QED
      BY <1>4, <2>1, <2>2, <3>1
  <2>3. CASE i # k + 1
    <3>1. i \in 1 .. k
      BY <1>1, <2>3
    <3>2. S[i] = f[(h + i - 1) % PROCESS_CONF_NUMEVENTS]
      BY <1>1, <3>1, SegmentLength
    <3>3. QED
      BY <1>4, <2>1, <3>1, <3>2
  <2>4. QED
    BY <2>2, <2>3
<1> HIDE DEF S, T, e
<1>6. T = Append(S, e)
  BY <1>2, <1>3, <1>4, <1>5, SeqEqual
<1>7. QED
  BY <1>6 DEF S, T, e

(* Advancing the start of a segment by one slot drops its first entry. *)
LEMMA SegmentTail ==
  ASSUME NEW f \in [Slot -> Event], NEW h \in Slot,
         NEW k \in 1 .. PROCESS_CONF_NUMEVENTS
  PROVE  /\ Segment(f, h, k) # <<>>
         /\ Head(Segment(f, h, k)) = f[h]
         /\ Segment(f, (h + 1) % PROCESS_CONF_NUMEVENTS, k - 1)
              = Tail(Segment(f, h, k))
<1> DEFINE S == Segment(f, h, k)
           N == PROCESS_CONF_NUMEVENTS
           T == Segment(f, (h + 1) % N, k - 1)
<1>1. /\ N \in Nat \ {0} /\ h \in 0 .. N - 1 /\ k \in Nat \ {0}
      /\ k \in 0 .. N /\ k - 1 \in 0 .. N /\ k - 1 \in Nat /\ (h + 1) % N \in Slot
  BY KernelAssumption, SlotBehind DEF Slot
<1>2. S \in Seq(Event) /\ T \in Seq(Event)
  BY <1>1, SegmentSeq
<1>3. Len(S) = k /\ Len(T) = k - 1
  BY <1>1, SegmentLength
<1>4. S # <<>>
  BY <1>1, <1>2, <1>3, EmptySeq
<1>5. S[1] = f[h]
  <2>1. S[1] = f[(h + 1 - 1) % N]
    BY <1>1, SegmentLength
  <2>2. h + 1 - 1 = h /\ h % N = h
    BY <1>1, ModSmall
  <2>3. QED
    BY <2>1, <2>2
<1>6. ASSUME NEW i \in 1 .. k - 1
      PROVE  T[i] = S[i + 1]
  <2>1. T[i] = f[(((h + 1) % N) + i - 1) % N]
    BY DEF Segment
  <2>2. S[i + 1] = f[(h + (i + 1) - 1) % N]
    <3>1. i + 1 \in 1 .. k
      BY <1>1
    <3>2. QED
      BY <3>1 DEF Segment
  <2>3. i - 1 \in 0 .. N - 1
    BY <1>1
  <2>4. (((h + 1) % N) + (i - 1)) % N = (h + (i - 1) + 1) % N
    BY <1>1, <2>3, ModStep
  <2>5. ((h + 1) % N) + (i - 1) = ((h + 1) % N) + i - 1 /\ h + (i - 1) + 1 = h + (i + 1) - 1
    <3>1. (h + 1) % N \in Nat
      BY <1>1 DEF Slot
    <3>2. QED
      BY <1>1, <3>1
  <2>6. QED
    BY <2>1, <2>2, <2>4, <2>5
<1> HIDE DEF S, T
<1>7. Head(S) = f[h]
  BY <1>2, <1>4, <1>5
<1>8. /\ Tail(S) \in Seq(Event) /\ Len(Tail(S)) = k - 1
      /\ \A i \in 1 .. k - 1 : Tail(S)[i] = S[i + 1]
  BY <1>2, <1>3, <1>4, HeadTailProperties
<1>9. T = Tail(S)
  BY <1>2, <1>3, <1>6, <1>8, SeqEqual
<1>10. QED
  BY <1>4, <1>7, <1>9 DEF S, T
-----------------------------------------------------------------------------
(* The inductive invariant of QuietSpec: inside a window the registers      *)
(* agree with the ring, ...                                                 *)
Loaded ==
  /\ pc \in WindowLabel => n = nevents
  /\ pc \in WindowLabel \ {"event_decrement"} => head = fevent
  /\ pc = "event_decrement" => fevent = (head + 1) % PROCESS_CONF_NUMEVENTS
  /\ pc \in {"event_advance", "event_decrement"} => received = events[head]

(* ... the slot holds what process_post has written of its event so far ... *)
Written ==
  /\ pc \in {"post_data", "post_p", "post_increment"} => events[snum].ev = posted.ev
  /\ pc \in {"post_p", "post_increment"} => events[snum].data = posted.data
  /\ pc = "post_increment" => events[snum].p = posted.p
  /\ pc \notin PostLabel => posted = NoEvent

(* ... and an event is being handled exactly while one was taken and not    *)
(* finished, also during the polls the broadcast loop lets in.              *)
Handled ==
  /\ pc \in {"run", "event_test", "event_fetch"} => received = NoEvent
  /\ pc \in {"run", "event_test", "event_fetch", "event_advance", "event_decrement"}
       => castCursor = 0
  /\ castCursor # 0 => received \in Event
  /\ castCursor = 0 /\ (pollCursor # 0 \/ pc = "poll_clear_request")
       => received = NoEvent
  /\ pc \in ThreadLabel /\ pollCursor = 0 => received \in Event

QuietInv == TypeInv /\ Loaded /\ Written /\ Handled

(* A step without interrupts in the windows is a step of the kernel.        *)
LEMMA QuietNextIsNext == [QuietNext]_vars => [Next]_vars
  BY DEF QuietNext, Next

(* The registers agree with the ring, as long as nobody else writes it.     *)
LEMMA LoadedStep == QuietInv /\ [QuietNext]_vars => Loaded'
<1> SUFFICES ASSUME QuietInv, [QuietNext]_vars
             PROVE  Loaded'
  OBVIOUS
<1> USE DEF QuietInv, Loaded, WindowLabel, polls, ring, registers
<1>1. CASE \/ Run \/ PollClearRequest \/ PollTest \/ PollClear \/ Broadcast
  BY <1>1 DEF Run, PollClearRequest, PollTest, PollClear, Broadcast, Call
<1>2. CASE \/ EventTest \/ EventFetch \/ EventAdvance
  BY <1>2 DEF EventTest, EventFetch, EventAdvance
<1>3. CASE EventDecrement
  BY <1>3 DEF EventDecrement, Call
<1>4. CASE \/ PostTest \/ PostEv \/ PostData \/ PostP \/ PostIncrement
  BY <1>4 DEF PostTest, PostEv, PostData, PostP, PostIncrement
<1>5. CASE \/ PollMark \/ PollRequest \/ ThreadStep \/ ThreadYield
  BY <1>5 DEF PollMark, PollRequest, ThreadStep, ThreadPost, ThreadPoll, ThreadYield
<1>6. CASE IsrPollStep
  BY <1>6 DEF IsrPollStep, IsrPoll
<1>7. CASE ~InWindow /\ \E e \in IsrEvent : IsrPost(e)
  BY <1>7 DEF InWindow, IsrPost
<1>8. CASE UNCHANGED vars
  BY <1>8 DEF vars
<1>9. QED
  BY <1>1, <1>2, <1>3, <1>4, <1>5, <1>6, <1>7, <1>8 DEF QuietNext, MainStep

(* What process_post has written of its slot stays until nevents counts it. *)
LEMMA WrittenStep == QuietInv /\ [QuietNext]_vars => Written'
<1> SUFFICES ASSUME QuietInv, [QuietNext]_vars
             PROVE  Written'
  OBVIOUS
<1> USE DEF QuietInv, Written, PostLabel, polls, ring, registers, snum
<1>1. CASE \/ Run \/ PollClearRequest \/ PollTest \/ PollClear \/ Broadcast
  BY <1>1 DEF Run, PollClearRequest, PollTest, PollClear, Broadcast, Call
<1>2. CASE \/ EventTest \/ EventFetch \/ EventAdvance \/ EventDecrement
  BY <1>2 DEF EventTest, EventFetch, EventAdvance, EventDecrement, Call
<1>3. CASE PostTest
  BY <1>3 DEF PostTest
<1>4. CASE \/ PostEv \/ PostData \/ PostP
  <2>1. /\ events \in [Slot -> Event] /\ posted \in Event
        /\ (head + n) % PROCESS_CONF_NUMEVENTS \in Slot
    BY <1>4, SlotBehind DEF PostEv, PostData, PostP, TypeInv, TypeOK, Control
  <2>2. CASE PostEv
    BY <2>1, <2>2 DEF PostEv, Event
  <2>3. CASE PostData
    BY <2>1, <2>3 DEF PostData, Event
  <2>4. CASE PostP
    BY <2>1, <2>4 DEF PostP, Event
  <2>5. QED
    BY <1>4, <2>2, <2>3, <2>4
<1>5. CASE PostIncrement
  BY <1>5 DEF PostIncrement
<1>6. CASE \/ PollMark \/ PollRequest \/ ThreadStep \/ ThreadYield
  BY <1>6 DEF PollMark, PollRequest, ThreadStep, ThreadPost, ThreadPoll, ThreadYield
<1>7. CASE IsrPollStep
  BY <1>7 DEF IsrPollStep, IsrPoll
<1>8. CASE ~InWindow /\ \E e \in IsrEvent : IsrPost(e)
  BY <1>8 DEF InWindow, IsrPost, WindowLabel
<1>9. CASE UNCHANGED vars
  BY <1>9 DEF vars
<1>10. QED
  BY <1>1, <1>2, <1>3, <1>4, <1>5, <1>6, <1>7, <1>8, <1>9 DEF QuietNext, MainStep

(* An event is being handled exactly from its taking to its last receiver.  *)
LEMMA HandledStep == QuietInv /\ [QuietNext]_vars => Handled'
<1> SUFFICES ASSUME QuietInv, [QuietNext]_vars
             PROVE  Handled'
  OBVIOUS
<1>0. /\ pollCursor \in 0 .. NumProcs + 1 /\ castCursor \in 0 .. NumProcs + 1
      /\ NumProcs \in Nat \ {0} /\ NoEvent \notin Event
  BY KernelAssumption DEF QuietInv, TypeInv, TypeOK
<1> USE <1>0 DEF QuietInv, Handled, TypeInv, Control, ThreadLabel, PostLabel, RunLabel,
                 polls, ring, registers
<1>1. CASE Run
  BY <1>1 DEF Run
<1>2. CASE PollClearRequest
  BY <1>2 DEF PollClearRequest
<1>3. CASE PollTest
  <2>1. CASE pollCursor <= NumProcs
    BY <1>3, <2>1 DEF PollTest
  <2>2. CASE pollCursor > NumProcs /\ castCursor # 0
    BY <1>3, <2>2 DEF PollTest, Call
  <2>3. CASE pollCursor > NumProcs /\ castCursor = 0
    BY <1>3, <2>3 DEF PollTest
  <2>4. QED
    BY <2>1, <2>2, <2>3
<1>4. CASE PollClear
  BY <1>4 DEF PollClear, Call, Proc
<1>5. CASE Broadcast
  <2>1. CASE castCursor <= NumProcs
    BY <1>5, <2>1 DEF Broadcast, Call
  <2>2. CASE castCursor > NumProcs
    BY <1>5, <2>2 DEF Broadcast
  <2>3. QED
    BY <2>1, <2>2
<1>6. CASE \/ EventTest \/ EventFetch \/ EventAdvance
  BY <1>6 DEF EventTest, EventFetch, EventAdvance
<1>7. CASE EventDecrement
  <2>1. received \in Event /\ pollCursor = 0 /\ castCursor = 0
    BY <1>7 DEF EventDecrement
  <2>2. CASE received.p = PROCESS_BROADCAST
    BY <1>7, <2>1, <2>2 DEF EventDecrement
  <2>3. CASE received.p # PROCESS_BROADCAST
    BY <1>7, <2>1, <2>3 DEF EventDecrement, Call
  <2>4. QED
    BY <2>2, <2>3
<1>8. CASE \/ PostTest \/ PostEv \/ PostData \/ PostP \/ PostIncrement
  BY <1>8 DEF PostTest, PostEv, PostData, PostP, PostIncrement
<1>9. CASE \/ PollMark \/ PollRequest \/ ThreadStep
  BY <1>9 DEF PollMark, PollRequest, ThreadStep, ThreadPost, ThreadPoll
<1>10. CASE ThreadYield
  BY <1>10 DEF ThreadYield
<1>11. CASE IsrPollStep
  BY <1>11 DEF IsrPollStep, IsrPoll
<1>12. CASE ~InWindow /\ \E e \in IsrEvent : IsrPost(e)
  BY <1>12 DEF IsrPost
<1>13. CASE UNCHANGED vars
  BY <1>13 DEF vars
<1>14. QED
  BY <1>1, <1>2, <1>3, <1>4, <1>5, <1>6, <1>7, <1>8, <1>9, <1>10, <1>11, <1>12, <1>13
  DEF QuietNext, MainStep

(* The conjunction is an invariant of the quiet kernel.                     *)
LEMMA QuietInvariant == QuietSpec => []QuietInv
<1>1. Init => QuietInv
  <2>1. Init => Loaded /\ Written /\ Handled
    BY DEF Init, Loaded, Written, Handled, WindowLabel, ThreadLabel, PostLabel
  <2>2. QED
    BY <2>1, TypeInvInit DEF QuietInv
<1>2. QuietInv /\ [QuietNext]_vars => QuietInv'
  BY TypeInvStep, QuietNextIsNext, LoadedStep, WrittenStep, HandledStep DEF QuietInv
<1>3. QED
  BY <1>1, <1>2, PTL DEF QuietSpec

-----------------------------------------------------------------------------
(* Every step of the kernel is a step of the queue or leaves it alone.      *)

(* The steps that move no event. *)
LEMMA StutterSteps ==
  ASSUME QuietInv,
         \/ Run \/ PollClearRequest \/ PollTest \/ PollClear
         \/ Broadcast /\ castCursor <= NumProcs
         \/ EventTest \/ EventFetch \/ EventAdvance
         \/ PostTest /\ nevents # PROCESS_CONF_NUMEVENTS
         \/ PollMark \/ PollRequest
         \/ ThreadYield /\ (pollCursor # 0 \/ castCursor # 0)
         \/ \E p \in Proc : ThreadPoll(p)
         \/ IsrPollStep
  PROVE  UNCHANGED <<Queue, posted, Handling>>
<1> USE DEF QuietInv, Queue, Handling, InWindow, WindowLabel, polls, ring, registers
<1>1. CASE \/ Run \/ PollClearRequest \/ PollTest \/ PollClear
  BY <1>1 DEF Run, PollClearRequest, PollTest, PollClear, Call, Segment
<1>2. CASE Broadcast /\ castCursor <= NumProcs
  <2>1. NumProcs \in Nat /\ castCursor \in Nat
    BY KernelAssumption DEF TypeInv, TypeOK
  <2>2. QED
    BY <1>2, <2>1 DEF Broadcast, Call, Segment
<1>3. CASE EventTest
  BY <1>3 DEF EventTest, Segment
<1>4. CASE EventFetch
  BY <1>4 DEF EventFetch, Segment, Handled
<1>5. CASE EventAdvance
  BY <1>5 DEF EventAdvance, Segment
<1>6. CASE PostTest /\ nevents # PROCESS_CONF_NUMEVENTS
  BY <1>6 DEF PostTest, Segment
<1>7. CASE \/ PollMark \/ PollRequest \/ \E p \in Proc : ThreadPoll(p)
  BY <1>7 DEF PollMark, PollRequest, ThreadPoll, Segment
<1>8. CASE ThreadYield /\ (pollCursor # 0 \/ castCursor # 0)
  BY <1>8 DEF ThreadYield, Segment
<1>9. CASE IsrPollStep
  BY <1>9 DEF IsrPollStep, IsrPoll, Segment
<1>10. QED
  BY <1>1, <1>2, <1>3, <1>4, <1>5, <1>6, <1>7, <1>8, <1>9

(* process_post writes behind the queue, never into it. *)
LEMMA WriteSteps ==
  ASSUME QuietInv, PostEv \/ PostData \/ PostP
  PROVE  UNCHANGED <<Queue, posted, Handling>>
<1>1. /\ head \in Slot /\ n \in 0 .. PROCESS_CONF_NUMEVENTS - 1
      /\ head' = head /\ n' = n /\ events \in [Slot -> Event]
  BY KernelAssumption DEF QuietInv, TypeInv, TypeOK, Control, PostEv, PostData, PostP, registers
<1>2. \A s \in Slot : s # (head + n) % PROCESS_CONF_NUMEVENTS => events'[s] = events[s]
  BY <1>1 DEF PostEv, PostData, PostP, snum
<1>3. Segment(events', head, n) = Segment(events, head, n)
  BY <1>1, <1>2, SegmentKept
<1>4. Queue = Segment(events, head, n) /\ Queue' = Segment(events', head', n')
  BY DEF PostEv, PostData, PostP, Queue, InWindow, WindowLabel
<1>5. posted' = posted /\ Handling' = Handling
  BY DEF PostEv, PostData, PostP, Handling
<1>6. QED
  BY <1>1, <1>3, <1>4, <1>5

(* The increment of nevents makes the post of the abstract queue return.    *)
LEMMA ReturnStep ==
  ASSUME QuietInv, PostIncrement
  PROVE  Fifo!ReturnPost
<1>1. /\ head \in Slot /\ n \in 0 .. PROCESS_CONF_NUMEVENTS - 1 /\ n \in Nat
      /\ fevent = head /\ events \in [Slot -> Event] /\ posted \in Event
      /\ PROCESS_CONF_NUMEVENTS \in Nat
  BY KernelAssumption DEF QuietInv, TypeInv, TypeOK, Control, Loaded, PostIncrement, PostLabel,
       WindowLabel
<1>2. (head + n) % PROCESS_CONF_NUMEVENTS \in Slot
  BY <1>1, SlotBehind
<1>3. events[snum] = posted
  BY <1>1, <1>2 DEF QuietInv, Written, PostIncrement, snum, Event
<1>4. Segment(events, head, n + 1) = Append(Segment(events, head, n), posted)
  BY <1>1, <1>3, SegmentAppend DEF snum
<1>5. Queue = Segment(events, head, n) /\ Queue' = Segment(events, head, n + 1)
  BY <1>1 DEF PostIncrement, Queue, InWindow, WindowLabel, polls, Segment
<1>6. Len(Queue) < PROCESS_CONF_NUMEVENTS
  BY <1>1, <1>5, SegmentLength
<1>7. posted # NoEvent /\ posted' = NoEvent /\ Handling' = Handling
  BY <1>1, KernelAssumption DEF PostIncrement, Handling
<1>8. QED
  BY <1>4, <1>5, <1>6, <1>7 DEF Fifo!ReturnPost

(* A full queue makes the post of the abstract queue return empty-handed.   *)
LEMMA FullStep ==
  ASSUME QuietInv, PostTest, nevents = PROCESS_CONF_NUMEVENTS
  PROVE  Fifo!ReturnPost
<1>1. PROCESS_CONF_NUMEVENTS \in Nat /\ posted \in Event
  BY KernelAssumption DEF QuietInv, TypeInv, Control, PostTest, PostLabel
<1>2. Queue = Segment(events, fevent, nevents) /\ Queue' = Queue
  BY DEF PostTest, Queue, InWindow, WindowLabel, ring, polls, Segment
<1>3. Len(Queue) = PROCESS_CONF_NUMEVENTS
  BY <1>1, <1>2, SegmentLength
<1>4. posted # NoEvent /\ posted' = NoEvent /\ Handling' = Handling
  BY <1>1, KernelAssumption DEF PostTest, Handling
<1>5. QED
  BY <1>1, <1>2, <1>3, <1>4 DEF Fifo!ReturnPost

(* The decrement of nevents takes the oldest event.                         *)
LEMMA TakeStep ==
  ASSUME QuietInv, EventDecrement
  PROVE  Fifo!Take
<1>1. /\ head \in Slot /\ n \in 1 .. PROCESS_CONF_NUMEVENTS
      /\ events \in [Slot -> Event] /\ received = events[head]
      /\ fevent = (head + 1) % PROCESS_CONF_NUMEVENTS
      /\ posted = NoEvent
  BY KernelAssumption DEF QuietInv, TypeInv, TypeOK, Control, Loaded, Written, EventDecrement,
       PostLabel, WindowLabel
<1>2. Queue = Segment(events, head, n)
  BY DEF EventDecrement, Queue, InWindow, WindowLabel
<1>3. Queue' = Segment(events, fevent, n - 1)
  BY DEF EventDecrement, Queue, InWindow, WindowLabel, Call, Segment
<1>4. Handling = NoEvent /\ Handling' = received /\ posted' = posted
  BY DEF EventDecrement, Handling, Call
<1>5. Queue # <<>> /\ Head(Queue) = events[head] /\ Queue' = Tail(Queue)
  BY <1>1, <1>2, <1>3, SegmentTail
<1>6. QED
  BY <1>1, <1>4, <1>5 DEF Fifo!Take

(* The last receiver's yield finishes the handling of the event.            *)
LEMMA FinishStep ==
  ASSUME QuietInv,
         \/ ThreadYield /\ pollCursor = 0 /\ castCursor = 0
         \/ Broadcast /\ castCursor > NumProcs
  PROVE  Fifo!Finish
<1> USE DEF polls, ring, registers
<1>1. NumProcs \in Nat \ {0} /\ castCursor \in Nat /\ NoEvent \notin Event
  BY KernelAssumption DEF QuietInv, TypeInv, TypeOK
<1>2. received \in Event /\ received' = NoEvent
  BY <1>1 DEF QuietInv, Handled, ThreadYield, Broadcast, ThreadLabel
<1>3. posted = NoEvent /\ posted' = NoEvent
  BY DEF QuietInv, Written, ThreadYield, Broadcast, PostLabel
<1>4. Queue' = Queue
  <2>1. UNCHANGED ring /\ ~InWindow /\ ~InWindow'
    BY <1>1 DEF ThreadYield, Broadcast, InWindow, WindowLabel
  <2>2. QED
    BY <2>1 DEF Queue, Segment
<1>5. Handling = received /\ Handling' = received'
  BY <1>1 DEF ThreadYield, Broadcast, Handling
<1>6. QED
  BY <1>1, <1>2, <1>3, <1>4, <1>5 DEF Fifo!Finish

(* An interrupt handler's post is a post of the driver.                     *)
LEMMA DriverStep ==
  ASSUME QuietInv, ~InWindow, NEW e \in IsrEvent, IsrPost(e)
  PROVE  Fifo!DriverPost(e)
<1> DEFINE s == (fevent + nevents) % PROCESS_CONF_NUMEVENTS
<1>1. /\ fevent \in Slot /\ nevents \in 0 .. PROCESS_CONF_NUMEVENTS - 1 /\ nevents \in Nat
      /\ events \in [Slot -> Event] /\ e \in Event /\ s \in Slot
      /\ PROCESS_CONF_NUMEVENTS \in Nat
  BY KernelAssumption, SlotBehind DEF QuietInv, TypeInv, TypeOK, IsrPost
<1>2. events' \in [Slot -> Event] /\ events'[s] = e
        /\ \A t \in Slot : t # s => events'[t] = events[t]
  BY <1>1 DEF IsrPost
<1>3. Segment(events', fevent, nevents) = Segment(events, fevent, nevents)
  BY <1>1, <1>2, SegmentKept
<1>4. Segment(events', fevent, nevents + 1)
        = Append(Segment(events', fevent, nevents), e)
  BY <1>1, <1>2, SegmentAppend
<1>5. Queue = Segment(events, fevent, nevents)
        /\ Queue' = Segment(events', fevent, nevents + 1)
  BY DEF IsrPost, Queue, InWindow, Segment
<1>6. Len(Queue) < PROCESS_CONF_NUMEVENTS
  BY <1>1, <1>5, SegmentLength
<1>7. posted' = posted /\ Handling' = Handling
  BY DEF IsrPost, Handling
<1>8. QED
  BY <1>3, <1>4, <1>5, <1>6, <1>7 DEF Fifo!DriverPost

(* A process that calls process_post calls the post of the abstract queue.  *)
LEMMA CallStep ==
  ASSUME QuietInv, NEW e \in MainEvent, ThreadPost(e)
  PROVE  Fifo!CallPost(e)
<1>1. posted = NoEvent
  BY DEF QuietInv, Written, ThreadPost, PostLabel
<1>2. Queue' = Queue /\ Handling' = Handling /\ posted' = e
  BY DEF ThreadPost, Queue, Handling, InWindow, WindowLabel, ring, Segment
<1>3. QED
  BY <1>1, <1>2 DEF Fifo!CallPost

(* Every step of the quiet kernel is a step of the FIFO or leaves it alone. *)
LEMMA QueueStep == QuietInv /\ [QuietNext]_vars => [Fifo!Next]_(Fifo!vars)
<1> SUFFICES ASSUME QuietInv, [QuietNext]_vars
             PROVE  Fifo!Next \/ UNCHANGED <<Queue, posted, Handling>>
  BY DEF Fifo!vars
<1>0. NumProcs \in Nat /\ castCursor \in Nat /\ MainEvent \subseteq Event
        /\ IsrEvent \subseteq Event
  BY KernelAssumption DEF QuietInv, TypeInv, TypeOK
<1>1. CASE PostEv \/ PostData \/ PostP
  BY <1>1, WriteSteps
<1>2. CASE PostIncrement
  BY <1>2, ReturnStep DEF Fifo!Next
<1>3. CASE PostTest
  BY <1>3, FullStep, StutterSteps DEF Fifo!Next
<1>4. CASE EventDecrement
  BY <1>4, TakeStep DEF Fifo!Next
<1>5. CASE ThreadYield
  BY <1>5, FinishStep, StutterSteps DEF Fifo!Next
<1>6. CASE Broadcast
  BY <1>0, <1>6, FinishStep, StutterSteps DEF Fifo!Next
<1>7. CASE ~InWindow /\ \E e \in IsrEvent : IsrPost(e)
  BY <1>0, <1>7, DriverStep DEF Fifo!Next
<1>8. CASE ThreadStep
  BY <1>0, <1>8, CallStep, StutterSteps DEF Fifo!Next, ThreadStep
<1>9. CASE \/ Run \/ PollClearRequest \/ PollTest \/ PollClear
           \/ EventTest \/ EventFetch \/ EventAdvance
           \/ PollMark \/ PollRequest \/ IsrPollStep
  BY <1>9, StutterSteps
<1>10. CASE UNCHANGED vars
  BY <1>10 DEF vars, Queue, Handling, InWindow, Segment
<1>11. QED
  BY <1>1, <1>2, <1>3, <1>4, <1>5, <1>6, <1>7, <1>8, <1>9, <1>10 DEF QuietNext, MainStep

(* The kernel's ring is a bounded first-in first-out queue for every size   *)
(* of the ring and every set of events, as long as no interrupt posts       *)
(* between the load and the store of nevents: nothing accepted is lost,     *)
(* repeated, torn or reordered (process.c:245-299, 321-359).                *)
THEOREM KernelQueueIsFifo == QuietSpec => ImplementsFifo
<1>1. Init => Fifo!Init
  <2>1. Init => Segment(events, fevent, nevents) = <<>>
    BY SegmentLength, SegmentSeq, TypeInvInit, EmptySeq DEF Init, TypeInv, TypeOK
  <2>2. QED
    BY <2>1 DEF Init, Fifo!Init, Queue, Handling, InWindow, WindowLabel
<1>2. QED
  BY <1>1, QuietInvariant, QueueStep, PTL DEF QuietSpec, ImplementsFifo, Fifo!Spec
=============================================================================

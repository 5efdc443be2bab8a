------------------------------ MODULE Process ------------------------------
(***************************************************************************)
(* The Contiki kernel of contiki/process.c: the ring of posted events, the *)
(* poll flags, and the scheduler loop of upgrade() in main.c.              *)
(*                                                                         *)
(* The main thread runs statement by statement (pc).  Interrupt handlers   *)
(* run on the same core, at one level, without nesting, so each of their   *)
(* calls is one step that can fall between any two statements of the main  *)
(* thread: nothing in process.c masks interrupts.  nevents and fevent are  *)
(* plain statics, so each function loads them once into a register (n,     *)
(* head) and works on the copy.                                            *)
(*                                                                         *)
(* The thread of a process is left abstract: between being called and its  *)
(* next yield it posts and polls as it likes, at most MaxCalls times.      *)
(***************************************************************************)
EXTENDS Naturals, Sequences

CONSTANTS
  PROCESS_CONF_NUMEVENTS,  \* slots of the event ring (process.h:88, 64)
  NumProcs,                \* processes, numbered in process_list order
  Ev, Data,                \* event codes and data pointers; 0 is in both
  MainEvent,               \* the events processes post
  IsrEvent,                \* the events interrupt handlers post
  IsrPolled,               \* the processes interrupt handlers poll
  NoEvent,                 \* register value: no event under way
  MaxCalls                 \* bound: posts and polls in one run of a thread

PROCESS_BROADCAST == 0
Proc == 1 .. NumProcs
Slot == 0 .. PROCESS_CONF_NUMEVENTS - 1
Event == [ev : Ev, data : Data, p : Proc \cup {PROCESS_BROADCAST}]

ASSUME KernelAssumption ==
  /\ PROCESS_CONF_NUMEVENTS \in Nat \ {0}
  /\ NumProcs \in Nat \ {0}
  /\ 0 \in Ev /\ 0 \in Data
  /\ MainEvent \subseteq Event
  /\ IsrEvent \subseteq Event
  /\ IsrPolled \subseteq Proc
  /\ NoEvent \notin Event
  /\ MaxCalls \in Nat

VARIABLES
  events, fevent, nevents,     \* the ring
  poll_requested, needspoll,   \* the poll flags
  pc,                          \* next statement of the main thread
  current,                     \* process whose thread runs (0: none)
  calls,                       \* calls made in this run of the thread
  pollCursor,                  \* p of do_poll's loop (0: not in do_poll)
  castCursor,                  \* p of do_event's broadcast loop (0: not in it)
  n, head,                     \* registers: nevents and fevent as loaded
  received,                    \* do_event's local copy of the event
  posted,                      \* process_post's arguments (NoEvent: no call)
  polled                       \* process_poll's argument (0: no call)

ring == <<events, fevent, nevents>>
polls == <<poll_requested, needspoll>>
registers == <<n, head>>
vars == <<events, fevent, nevents, poll_requested, needspoll, pc, current, calls,
          pollCursor, castCursor, n, head, received, posted, polled>>

Label == {"run", "poll_clear_request", "poll_test", "poll_clear", "event_test",
          "event_fetch", "event_advance", "event_decrement", "broadcast",
          "thread", "post_test", "post_ev", "post_data", "post_p",
          "post_increment", "poll_mark", "poll_request"}

(* A zero-initialised slot of the static array. *)
ZeroEvent == [ev |-> 0, data |-> 0, p |-> PROCESS_BROADCAST]

Init ==
  /\ events = [s \in Slot |-> ZeroEvent]
  /\ fevent = 0 /\ nevents = 0
  /\ poll_requested = FALSE
  /\ needspoll = [p \in Proc |-> FALSE]
  /\ pc = "run"
  /\ current = 0 /\ calls = 0
  /\ pollCursor = 0 /\ castCursor = 0
  /\ n = 0 /\ head = 0
  /\ received = NoEvent
  /\ posted = NoEvent
  /\ polled = 0

-----------------------------------------------------------------------------
(* call_process enters the thread of p; every process of the list is        *)
(* RUNNING when it is called, because none is called from within a thread.  *)
Call(p) ==
  /\ current' = p
  /\ calls' = 0
  /\ pc' = "thread"

(* process_run: poll handlers first, if any were requested, then one event. *)
Run ==
  /\ pc = "run"
  /\ pc' = IF poll_requested THEN "poll_clear_request" ELSE "event_test"
  /\ UNCHANGED <<ring, polls, current, calls, pollCursor, castCursor,
                 registers, received, posted, polled>>

(* do_poll: the request flag is cleared before the first process is looked at. *)
PollClearRequest ==
  /\ pc = "poll_clear_request"
  /\ poll_requested' = FALSE
  /\ pollCursor' = 1
  /\ pc' = "poll_test"
  /\ UNCHANGED <<ring, needspoll, current, calls, castCursor,
                 registers, received, posted, polled>>

(* do_poll: if(p->needspoll), or p is past the end of the list and do_poll  *)
(* returns, to process_run or to the broadcast loop, which then calls the   *)
(* process it had stopped at.                                               *)
PollTest ==
  /\ pc = "poll_test"
  /\ \/ /\ pollCursor <= NumProcs
        /\ IF needspoll[pollCursor]
             THEN pc' = "poll_clear" /\ UNCHANGED pollCursor
             ELSE pollCursor' = pollCursor + 1 /\ UNCHANGED pc
        /\ UNCHANGED <<current, calls>>
     \/ /\ pollCursor > NumProcs
        /\ pollCursor' = 0
        /\ IF castCursor # 0
             THEN Call(castCursor)
             ELSE pc' = "event_test" /\ UNCHANGED <<current, calls>>
  /\ UNCHANGED <<ring, polls, castCursor, registers, received, posted, polled>>

(* Mutation: the request flag is cleared again with each process flag. *)
PollClearBoth ==
  /\ pc = "poll_clear"
  /\ needspoll' = [needspoll EXCEPT ![pollCursor] = FALSE]
  /\ poll_requested' = FALSE
  /\ Call(pollCursor)
  /\ UNCHANGED <<ring, pollCursor, castCursor, registers, received, posted, polled>>

(* do_poll: p->needspoll = 0; call_process(p, PROCESS_EVENT_POLL, NULL). *)
PollClear ==
  /\ pc = "poll_clear"
  /\ needspoll' = [needspoll EXCEPT ![pollCursor] = FALSE]
  /\ Call(pollCursor)
  /\ UNCHANGED <<ring, poll_requested, pollCursor, castCursor, registers,
                 received, posted, polled>>

-----------------------------------------------------------------------------
(* Mutation: the last queued event is left where it is. *)
EventTestOffByOne ==
  /\ pc = "event_test"
  /\ IF nevents > 1
       THEN /\ n' = nevents /\ head' = fevent
            /\ pc' = "event_fetch"
       ELSE pc' = "run" /\ UNCHANGED registers
  /\ UNCHANGED <<ring, polls, current, calls, pollCursor, castCursor,
                 received, posted, polled>>

(* do_event: if(nevents > 0).  Both statics are loaded here. *)
EventTest ==
  /\ pc = "event_test"
  /\ IF nevents > 0
       THEN /\ n' = nevents /\ head' = fevent
            /\ pc' = "event_fetch"
       ELSE pc' = "run" /\ UNCHANGED registers
  /\ UNCHANGED <<ring, polls, current, calls, pollCursor, castCursor,
                 received, posted, polled>>

(* do_event: ev, data and receiver are copied out of events[fevent]. *)
EventFetch ==
  /\ pc = "event_fetch"
  /\ received' = events[head]
  /\ pc' = "event_advance"
  /\ UNCHANGED <<ring, polls, current, calls, pollCursor, castCursor,
                 registers, posted, polled>>

(* do_event: fevent = (fevent + 1) % PROCESS_CONF_NUMEVENTS. *)
EventAdvance ==
  /\ pc = "event_advance"
  /\ fevent' = (head + 1) % PROCESS_CONF_NUMEVENTS
  /\ pc' = "event_decrement"
  /\ UNCHANGED <<events, nevents, polls, current, calls, pollCursor, castCursor,
                 registers, received, posted, polled>>

(* do_event: --nevents, from the loaded value; then the receiver is called, *)
(* or the broadcast loop begins.                                            *)
EventDecrement ==
  /\ pc = "event_decrement"
  /\ nevents' = n - 1
  /\ IF received.p = PROCESS_BROADCAST
       THEN /\ castCursor' = 1
            /\ pc' = "broadcast"
            /\ UNCHANGED <<current, calls>>
       ELSE Call(received.p) /\ UNCHANGED castCursor
  /\ UNCHANGED <<events, fevent, polls, pollCursor, registers, received,
                 posted, polled>>

(* do_event: one turn of the broadcast loop; polls are served in between. *)
Broadcast ==
  /\ pc = "broadcast"
  /\ \/ /\ castCursor <= NumProcs
        /\ IF poll_requested
             THEN pc' = "poll_clear_request" /\ UNCHANGED <<current, calls>>
             ELSE Call(castCursor)
        /\ UNCHANGED <<castCursor, received>>
     \/ /\ castCursor > NumProcs
        /\ castCursor' = 0
        /\ received' = NoEvent
        /\ pc' = "run"
        /\ UNCHANGED <<current, calls>>
  /\ UNCHANGED <<ring, polls, pollCursor, registers, posted, polled>>

-----------------------------------------------------------------------------
(* The running thread calls process_post. *)
ThreadPost(e) ==
  /\ pc = "thread" /\ calls < MaxCalls
  /\ calls' = calls + 1
  /\ posted' = e
  /\ pc' = "post_test"
  /\ UNCHANGED <<ring, polls, current, pollCursor, castCursor, registers,
                 received, polled>>

(* process_post: if(nevents == PROCESS_CONF_NUMEVENTS) return ERR_FULL. *)
PostTest ==
  /\ pc = "post_test"
  /\ IF nevents = PROCESS_CONF_NUMEVENTS
       THEN /\ posted' = NoEvent
            /\ pc' = "thread"
            /\ UNCHANGED registers
       ELSE /\ n' = nevents /\ head' = fevent
            /\ pc' = "post_ev"
            /\ UNCHANGED posted
  /\ UNCHANGED <<ring, polls, current, calls, pollCursor, castCursor,
                 received, polled>>

(* Mutation: the slot is counted from the start of the array. *)
snumFromZero == n % PROCESS_CONF_NUMEVENTS

(* process_post: snum, the slot behind the last queued event. *)
snum == (head + n) % PROCESS_CONF_NUMEVENTS

PostEv ==
  /\ pc = "post_ev"
  /\ events' = [events EXCEPT ![snum].ev = posted.ev]
  /\ pc' = "post_data"
  /\ UNCHANGED <<fevent, nevents, polls, current, calls, pollCursor, castCursor,
                 registers, received, posted, polled>>

PostData ==
  /\ pc = "post_data"
  /\ events' = [events EXCEPT ![snum].data = posted.data]
  /\ pc' = "post_p"
  /\ UNCHANGED <<fevent, nevents, polls, current, calls, pollCursor, castCursor,
                 registers, received, posted, polled>>

PostP ==
  /\ pc = "post_p"
  /\ events' = [events EXCEPT ![snum].p = posted.p]
  /\ pc' = "post_increment"
  /\ UNCHANGED <<fevent, nevents, polls, current, calls, pollCursor, castCursor,
                 registers, received, posted, polled>>

(* process_post: ++nevents, from the loaded value; return PROCESS_ERR_OK. *)
PostIncrement ==
  /\ pc = "post_increment"
  /\ nevents' = n + 1
  /\ posted' = NoEvent
  /\ pc' = "thread"
  /\ UNCHANGED <<events, fevent, polls, current, calls, pollCursor, castCursor,
                 registers, received, polled>>

(* The running thread calls process_poll. *)
ThreadPoll(p) ==
  /\ pc = "thread" /\ calls < MaxCalls
  /\ calls' = calls + 1
  /\ polled' = p
  /\ pc' = "poll_mark"
  /\ UNCHANGED <<ring, polls, current, pollCursor, castCursor, registers,
                 received, posted>>

(* process_poll: p->needspoll = 1, then poll_requested = 1. *)
PollMark ==
  /\ pc = "poll_mark"
  /\ needspoll' = [needspoll EXCEPT ![polled] = TRUE]
  /\ pc' = "poll_request"
  /\ UNCHANGED <<ring, poll_requested, current, calls, pollCursor, castCursor,
                 registers, received, posted, polled>>

PollRequest ==
  /\ pc = "poll_request"
  /\ poll_requested' = TRUE
  /\ polled' = 0
  /\ pc' = "thread"
  /\ UNCHANGED <<ring, needspoll, current, calls, pollCursor, castCursor,
                 registers, received, posted>>

(* The thread yields: back to the loop of do_poll, to the broadcast loop,   *)
(* or to process_run, whichever called it.                                  *)
ThreadYield ==
  /\ pc = "thread"
  /\ current' = 0 /\ calls' = 0
  /\ \/ /\ pollCursor # 0
        /\ pollCursor' = pollCursor + 1
        /\ pc' = "poll_test"
        /\ UNCHANGED <<castCursor, received>>
     \/ /\ pollCursor = 0 /\ castCursor # 0
        /\ castCursor' = castCursor + 1
        /\ pc' = "broadcast"
        /\ UNCHANGED <<pollCursor, received>>
     \/ /\ pollCursor = 0 /\ castCursor = 0
        /\ received' = NoEvent
        /\ pc' = "run"
        /\ UNCHANGED <<pollCursor, castCursor>>
  /\ UNCHANGED <<ring, polls, registers, posted, polled>>

-----------------------------------------------------------------------------
(* Mutation: the full test is forgotten. *)
IsrPostUnchecked(e) ==
  /\ events' = [events EXCEPT ![(fevent + nevents) % PROCESS_CONF_NUMEVENTS] = e]
  /\ nevents' = nevents + 1
  /\ UNCHANGED <<fevent, polls, pc, current, calls, pollCursor, castCursor,
                 registers, received, posted, polled>>

(* process_post called by an interrupt handler: one step; a full queue      *)
(* leaves everything unchanged.                                             *)
IsrPost(e) ==
  /\ nevents # PROCESS_CONF_NUMEVENTS
  /\ events' = [events EXCEPT ![(fevent + nevents) % PROCESS_CONF_NUMEVENTS] = e]
  /\ nevents' = nevents + 1
  /\ UNCHANGED <<fevent, polls, pc, current, calls, pollCursor, castCursor,
                 registers, received, posted, polled>>

(* Mutation: only the process flag is set. *)
IsrPollMarkOnly(p) ==
  /\ needspoll' = [needspoll EXCEPT ![p] = TRUE]
  /\ UNCHANGED <<ring, poll_requested, pc, current, calls, pollCursor, castCursor,
                 registers, received, posted, polled>>

(* process_poll called by an interrupt handler. *)
IsrPoll(p) ==
  /\ needspoll' = [needspoll EXCEPT ![p] = TRUE]
  /\ poll_requested' = TRUE
  /\ UNCHANGED <<ring, pc, current, calls, pollCursor, castCursor,
                 registers, received, posted, polled>>

-----------------------------------------------------------------------------
ThreadStep ==
  \/ \E e \in MainEvent : ThreadPost(e)
  \/ \E p \in Proc : ThreadPoll(p)

MainStep ==
  \/ Run \/ PollClearRequest \/ PollTest \/ PollClear
  \/ EventTest \/ EventFetch \/ EventAdvance \/ EventDecrement \/ Broadcast
  \/ PostTest \/ PostEv \/ PostData \/ PostP \/ PostIncrement
  \/ PollMark \/ PollRequest \/ ThreadStep \/ ThreadYield

(* From the load of nevents to the store of its new value. *)
WindowLabel == {"event_fetch", "event_advance", "event_decrement",
                "post_ev", "post_data", "post_p", "post_increment"}
InWindow == pc \in WindowLabel

IsrPollStep == \E p \in IsrPolled : IsrPoll(p)

Next ==
  \/ MainStep
  \/ IsrPollStep
  \/ \E e \in IsrEvent : IsrPost(e)

(* The kernel as it is. *)
Spec == Init /\ [][Next]_vars /\ WF_vars(MainStep)

(* The kernel when no interrupt posts inside a window: the behaviours in    *)
(* which the queue can be relied on.                                        *)
QuietNext ==
  \/ MainStep
  \/ IsrPollStep
  \/ ~InWindow /\ \E e \in IsrEvent : IsrPost(e)

QuietSpec == Init /\ [][QuietNext]_vars /\ WF_vars(MainStep)

-----------------------------------------------------------------------------
TypeOK ==
  /\ events \in [Slot -> Event]
  /\ fevent \in Slot /\ nevents \in 0 .. PROCESS_CONF_NUMEVENTS
  /\ poll_requested \in BOOLEAN
  /\ needspoll \in [Proc -> BOOLEAN]
  /\ pc \in Label
  /\ current \in Proc \cup {0}
  /\ calls \in 0 .. MaxCalls
  /\ pollCursor \in 0 .. NumProcs + 1
  /\ castCursor \in 0 .. NumProcs + 1
  /\ n \in 0 .. PROCESS_CONF_NUMEVENTS /\ head \in Slot
  /\ received \in Event \cup {NoEvent}
  /\ posted \in Event \cup {NoEvent}
  /\ polled \in Proc \cup {0}

(* A poll request is never lost, whenever the interrupt falls: while the    *)
(* flag of p is up, either the request flag is up, or do_poll is still on   *)
(* its way to p, or process_poll is between its two stores.  This is what   *)
(* makes "poll_requested = 0" before the walk (process.c:229) right.        *)
PollNotLost ==
  \A p \in Proc : needspoll[p] =>
    \/ poll_requested
    \/ pc \in {"poll_test", "poll_clear"} /\ pollCursor <= p
    \/ pc \in {"thread", "post_test", "post_ev", "post_data", "post_p",
               "post_increment", "poll_mark", "poll_request"}
         /\ pollCursor # 0 /\ pollCursor < p
    \/ pc = "poll_request" /\ polled = p

(* A process whose flag is up is polled in the end, however many polls and  *)
(* events keep coming from the interrupts (process_run calls do_poll before *)
(* every event, and do_poll walks the whole list).                          *)
PollServed ==
  \A p \in Proc : needspoll[p] ~> (pc = "poll_clear" /\ pollCursor = p)

(* Polling cannot starve the queue: a queued event is taken in the end even *)
(* if interrupts request polls forever (process_run takes one event after   *)
(* each round of polls).                                                    *)
EventServed == nevents > 0 ~> pc = "event_decrement"

(* The k entries of the array f from slot h on, as a sequence. *)
Segment(f, h, k) == [i \in 1 .. k |-> f[(h + i - 1) % PROCESS_CONF_NUMEVENTS]]

(* The queue as the main thread sees it: inside a window it works on the    *)
(* values it loaded.                                                        *)
Queue == IF InWindow THEN Segment(events, head, n)
                     ELSE Segment(events, fevent, nevents)

(* The event being handled: do_event's copy, from the decrement on. *)
Handling == IF pc \in {"event_advance", "event_decrement"} THEN NoEvent
                                                          ELSE received

Fifo == INSTANCE EventFifo WITH
  Capacity <- PROCESS_CONF_NUMEVENTS,
  queue <- Queue, posting <- posted, handling <- Handling

(* The ring, its two registers and the wrap-around are a bounded FIFO queue: *)
(* no event is lost, repeated, torn or reordered (QuietSpec).                *)
ImplementsFifo == Fifo!Spec

(* process_post returned PROCESS_ERR_OK, so "the event could be posted"     *)
(* (process.h:368): it stands at the end of the queue.                      *)
AcceptedIsQueued ==
  [][pc = "post_increment" /\ pc' = "thread" => Queue' = Append(Queue, posted)]_vars
=============================================================================

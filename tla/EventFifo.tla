----------------------------- MODULE EventFifo -----------------------------
(***************************************************************************)
(* What contiki/include/process.h promises of the kernel's event queue: a  *)
(* bounded first-in first-out queue.  A call of process_post either puts   *)
(* its event at the end (PROCESS_ERR_OK) or finds the queue full           *)
(* (PROCESS_ERR_FULL) and leaves it alone; the scheduler handles one event *)
(* at a time, always the oldest.  Module Process is shown to implement     *)
(* this module; nothing here is translated from code.                      *)
(***************************************************************************)
EXTENDS Naturals, Sequences

CONSTANTS
  Event,      \* the events that can be posted
  Capacity,   \* PROCESS_CONF_NUMEVENTS
  NoEvent     \* "no event": the value of posting and handling when idle

VARIABLES
  queue,      \* the events posted and not yet taken, oldest first
  posting,    \* the event a process is posting, between call and return
  handling    \* the event the scheduler took last, until it is finished

vars == <<queue, posting, handling>>

Init ==
  /\ queue = <<>>
  /\ posting = NoEvent
  /\ handling = NoEvent

(* A process calls process_post. *)
CallPost(e) ==
  /\ posting = NoEvent
  /\ posting' = e
  /\ UNCHANGED <<queue, handling>>

(* The call returns: the event is queued unless the queue is full. *)
ReturnPost ==
  /\ posting # NoEvent
  /\ posting' = NoEvent
  /\ queue' = IF Len(queue) < Capacity THEN Append(queue, posting) ELSE queue
  /\ UNCHANGED handling

(* An interrupt handler posts an event: one indivisible step. *)
DriverPost(e) ==
  /\ Len(queue) < Capacity
  /\ queue' = Append(queue, e)
  /\ UNCHANGED <<posting, handling>>

(* The scheduler takes the oldest event. *)
Take ==
  /\ handling = NoEvent
  /\ posting = NoEvent
  /\ queue # <<>>
  /\ handling' = Head(queue)
  /\ queue' = Tail(queue)
  /\ UNCHANGED posting

(* The processes the event was for have handled it. *)
Finish ==
  /\ handling # NoEvent
  /\ posting = NoEvent
  /\ handling' = NoEvent
  /\ UNCHANGED <<queue, posting>>

Next ==
  \/ \E e \in Event : CallPost(e) \/ DriverPost(e)
  \/ ReturnPost
  \/ Take
  \/ Finish

Spec == Init /\ [][Next]_vars
=============================================================================

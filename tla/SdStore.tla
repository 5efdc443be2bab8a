------------------------------ MODULE SdStore ------------------------------
(***************************************************************************)
(* What lib_sdc_write and lib_sdc_read (driver/sdmmc/drv_sdc.c) promise    *)
(* their callers: one operation at a time over a range of sectors; success *)
(* means that the sectors hold the data, or the buffer what is in the      *)
(* sectors; failure means that some of the range may have been changed,    *)
(* and that the card may go on after the caller has the answer, with       *)
(* sectors beyond the range if it is asked for more in the meantime.       *)
(***************************************************************************)
EXTENDS Naturals, Sequences

CONSTANTS
  numOfBlocks,   \* sectors of the card
  Torn           \* a sector, or a part of a buffer, that was not finished

Sector == 0 .. numOfBlocks - 1

VARIABLES
  sectors,   \* the contents of the card
  readBuf,   \* the buffer of the last read
  sdOp,      \* the operation under way, or NoSdOp
  sdAnswer,  \* what the caller was told, "none" before
  sdLate     \* sectors the card still works on for an operation given up

NoSdOp == [fn |-> "none", addr |-> 0, cnt |-> 0, data |-> <<>>]
From(o) == o.addr .. numOfBlocks - 1

SdStoreInit == readBuf = <<>> /\ sdOp = NoSdOp /\ sdAnswer = "none" /\ sdLate = {}

SdBegin(o) ==
  /\ sdOp = NoSdOp
  /\ sdOp' = o /\ sdAnswer' = "none"
  /\ readBuf' = IF o.fn = "read" THEN [i \in 1 .. o.cnt |-> Torn] ELSE readBuf
  /\ UNCHANGED <<sectors, sdLate>>

(* A sector is written, or spoilt, while nothing older is going on. *)
SdWrites ==
  /\ sdOp.fn = "write" /\ sdLate = {}
  /\ \E i \in 1 .. sdOp.cnt :
       /\ sdOp.addr + i - 1 \in Sector
       /\ sectors' \in {[sectors EXCEPT ![sdOp.addr + i - 1] = v] : v \in {sdOp.data[i], Torn}}
  /\ UNCHANGED <<readBuf, sdOp, sdAnswer, sdLate>>

(* A sector is read into the buffer. *)
SdReads ==
  /\ sdOp.fn = "read" /\ sdLate = {}
  /\ \E i \in 1 .. sdOp.cnt :
       /\ sdOp.addr + i - 1 \in Sector
       /\ readBuf' \in {[readBuf EXCEPT ![i] = v] : v \in {sectors[sdOp.addr + i - 1], Torn}}
  /\ UNCHANGED <<sectors, sdOp, sdAnswer, sdLate>>

(* What was given up goes on, with its own data or others, or is over. *)
SdGoesOn ==
  /\ \A s \in Sector \ sdLate : sectors'[s] = sectors[s]
  /\ sdLate = {} => UNCHANGED readBuf
  /\ sdLate' \in {sdLate, {}}
  /\ UNCHANGED <<sdOp, sdAnswer>>

WrittenOrRead ==
  \A i \in 1 .. sdOp.cnt :
    sectors[sdOp.addr + i - 1] = IF sdOp.fn = "write" THEN sdOp.data[i] ELSE readBuf[i]

SdReturnOk ==
  /\ sdOp # NoSdOp /\ sdLate = {} /\ WrittenOrRead
  /\ sdOp' = NoSdOp /\ sdAnswer' = "ok"
  /\ UNCHANGED <<sectors, readBuf, sdLate>>

SdReturnError ==
  /\ sdOp # NoSdOp
  /\ sdOp' = NoSdOp /\ sdAnswer' = "failed"
  /\ sdLate' \in {sdLate, {}, From(sdOp)}
  /\ UNCHANGED <<sectors, readBuf>>

SdStoreNext(Ops) ==
  \/ \E o \in Ops : SdBegin(o)
  \/ SdWrites \/ SdReads \/ SdGoesOn \/ SdReturnOk \/ SdReturnError
=============================================================================

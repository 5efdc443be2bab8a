----------------------------- MODULE ClockTree -----------------------------
(***************************************************************************)
(* The calls of driver/cmu/ClockManager.c as functions of the registers: a  *)
(* register file r maps each field to its value. Frequencies are 32-bit     *)
(* words, kept as <<high half, low half>>, and wrap as the code's do. The   *)
(* load bit that a divider's setter clears and sets again is left out: the  *)
(* fields are what the divider is set to.                                   *)
(***************************************************************************)
EXTENDS ClockDevices

Half == 65536
Word(x) == <<x \div Half, x % Half>>
Value(w) == w[1] * Half + w[2]
Times(w, k) == <<(w[1] * k + (w[2] * k) \div Half) % Half, (w[2] * k) % Half>>
Overflows(w, k) == w[1] * k + (w[2] * k) \div Half >= Half

(* The division of the processor: by zero it gives all ones. *)
Over(w, k) ==
  IF k = 0 THEN <<Half - 1, Half - 1>>
           ELSE <<w[1] \div k, ((w[1] % k) * Half + w[2]) \div k>>

(* The sources that are chosen by a divider of the PLL, in its order; the   *)
(* limit is the largest value their function takes.                         *)
MHz(x) == x * 1000000
PllSource(field, limit, freqs) == [field |-> field, limit |-> limit, freqs |-> freqs]
Core == PllSource("SYSPLL_POSTDIV_SYSTEM_DIV_SEL", 15,
                  <<MHz(300), MHz(240), MHz(200), MHz(150), MHz(133), MHz(120), MHz(100)>>)
PsramSrc == PllSource("SYSPLL_POSTDIV_PSRAM_DIV_SEL", 15,
                      <<MHz(240), MHz(200), MHz(150), MHz(133), MHz(120), MHz(100)>>)
Peri == PllSource("SYSPLL_POSTDIV_PERI_DIV_SEL", 3, <<MHz(100), MHz(75), MHz(50)>>)
FlashSrc == PllSource("SYSPLL_POSTDIV_FLASH_DIV_SEL", 3,
                      <<MHz(200), MHz(150), MHz(120), MHz(100)>>)
PllSources == [core |-> Core, psram |-> PsramSrc, peri |-> Peri, flash |-> FlashSrc]

PllFields == {"SYSPLL_ENABLE", "BBPLL_ENABLE", "RCCAL_RESULT"}
               \cup {PllSources[s].field : s \in DOMAIN PllSources}
FieldsOf(d) == {Device[d].fields[f] : f \in {"gate", "sel", "n", "m"}} \ {NoField}
RegFields == PllFields \cup UNION {FieldsOf(d) : d \in Devices}

(* CRM_GetSrcFreq, but for the source of the buses. *)
XtalFreq == MHz(24)
SrcFreq(r, src) ==
  CASE src \in DOMAIN PllSources ->
         LET s == PllSources[src]
         IN  IF r[s.field] < Len(s.freqs) THEN Word(s.freqs[r[s.field] + 1]) ELSE Word(0)
    [] src = "xtal" -> Word(XtalFreq)
    [] src = "cmn32k" -> Word(32000)
    [] src = "rc32k" -> Over(Word(XtalFreq), r["RCCAL_RESULT"] \div 16)

Chosen(r, d) == d.from[IF d.fields.sel = NoField THEN 1 ELSE r[d.fields.sel] + 1]
Numerator(r, d) == IF d.fields.n = NoField THEN 1 ELSE r[d.fields.n]
Denominator(r, d) ==
  d.by * (IF d.fields.m = NoField THEN 1 ELSE r[d.fields.m] + d.less)
Scaled(r, d, freq) == Over(Times(freq, Numerator(r, d)), Denominator(r, d))

HclkFreq(r) == Scaled(r, HCLK, SrcFreq(r, Chosen(r, HCLK)))
FreqOf(r, src) == IF src = "hclk" THEN HclkFreq(r) ELSE SrcFreq(r, src)

(* CRM_Get...Freq *)
GetFreq(r, d) ==
  IF d.fields.gate # NoField /\ r[d.fields.gate] = 0 THEN Word(0)
  ELSE Scaled(r, d, FreqOf(r, Chosen(r, d)))

-----------------------------------------------------------------------------
(* __HAL_CRM_..._CLK_ENABLE and DISABLE *)
SetGate(r, d, on) == [r EXCEPT ![d.fields.gate] = on]

(* HAL_CRM_Set...ClkDiv refuses what is out of range and changes nothing. *)
DivAccepted(d, n, m) == (d.n = 0 \/ n \in 1..d.n) /\ m \in 1..d.m
SetDiv(r, d, n, m) ==
  IF ~DivAccepted(d, n, m) THEN r
  ELSE [f \in DOMAIN r |-> CASE f = d.fields.n -> n
                             [] f = d.fields.m -> m - d.less
                             [] OTHER -> r[f]]

(* HAL_CRM_Set...ClkSrc says nothing of a source it does not know. *)
Sources(d) == {d.from[i] : i \in 1..Len(d.from)}
SetSrc(r, d, src) ==
  [f \in DOMAIN r |->
     IF f = d.fields.sel /\ src \in Sources(d)
     THEN (CHOOSE i \in 1..Len(d.from) : d.from[i] = src) - 1
     ELSE r[f]]

(* CRM_Init...Src *)
InitSrc(r, s, div) == IF div > s.limit THEN r ELSE [r EXCEPT ![s.field] = div]

(* SYSPLL_Init and BBPLL_Init wait for the lock. *)
InitPll(r, field) == [r EXCEPT ![field] = 1]
=============================================================================

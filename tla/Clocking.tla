------------------------------ MODULE Clocking ------------------------------
(***************************************************************************)
(* The clocks as the program sets them, call by call: the start-up code     *)
(* (driver/cmu/clock_config.c, unless it is built without), main, the       *)
(* set-up of UART0 (uart_boot.c, driver/uart/uart.c) and the commands       *)
(* PLL_EN and ESP_SET_BAUD (stub_load.c); or, instead of the program, any   *)
(* calls of the clock manager.                                              *)
(***************************************************************************)
EXTENDS ClockTree, UartBaud

CONSTANTS
  Bauds,         \* the rates the host asks for
  PllRequests,   \* what a PLL_EN command carries
  MaxCommands,   \* commands of the host
  MaxCalls       \* calls in place of the program

VARIABLES
  clock,         \* the registers
  user,          \* who calls: the program, or anyone
  calls,         \* the calls left: of the program, or allowed
  commands,      \* commands given
  uart,          \* UART0: whether configured, for which rate, DIVISOR_MODE
  asked,         \* what each device was last asked to be, and accepted
  limit,         \* the most each bus is meant to run at, in Hz
  ceiling        \* and while the core changes under it

clockVars == <<clock, user, calls, commands, uart, asked, limit, ceiling>>

NoLimit == MHz(300)
Buses == {"AON_CFG_PCLK", "CMN_PERI_PCLK", "AP_PERI_PCLK"}
Unconfigured == [configured |-> FALSE, baud |-> 0, divisor |-> 4]

(* After reset everything runs from the crystal, undivided. *)
ResetField(f, on) ==
  CASE \E d \in Devices : f = Device[d].fields.gate -> on
    [] \E d \in Devices : f \in {Device[d].fields.n, Device[d].fields.m} ->
         IF f = FLASH.fields.m THEN 0 ELSE 1
    [] f = "RCCAL_RESULT" -> 12000
    [] OTHER -> 0

-----------------------------------------------------------------------------
(* Calls *)
GateCall(d, on) == [op |-> "gate", dev |-> d, on |-> on]
DivCall(d, n, m) == [op |-> "div", dev |-> d, n |-> n, m |-> m]
SrcCall(d, src) == [op |-> "src", dev |-> d, src |-> src]
SourceCall(s, div) == [op |-> "source", source |-> s, div |-> div]
PllCall(field) == [op |-> "pll", field |-> field]
UartCall(baud) == [op |-> "uart", baud |-> baud]
LogCall(baud) == [op |-> "log", baud |-> baud]

DivAndSrc(d, n, m, src) == <<DivCall(d, n, m), SrcCall(d, src)>>

(* The calls of BootClock_Init, with the values of clock_config.h. *)
BootClock ==
  << PllCall("SYSPLL_ENABLE"), PllCall("BBPLL_ENABLE"),
     SourceCall("core", 0), SourceCall("psram", 1), SourceCall("peri", 0), SourceCall("flash", 3),
     DivCall("CMN_PERI_PCLK", 1, 4), DivCall("AON_CFG_PCLK", 1, 8), DivCall("AP_PERI_PCLK", 1, 4) >>
  \o DivAndSrc("HCLK", 1, 1, "core")
  \o << DivCall("PSRAM", 1, 1) >> \o DivAndSrc("FLASH", 1, 1, "flash")
  \o << DivCall("MTIME", 1, 24) >>
  \o DivAndSrc("SPI0", 1, 1, "xtal") \o DivAndSrc("UART0", 1, 1, "xtal")
  \o DivAndSrc("SPI1", 1, 1, "xtal") \o DivAndSrc("UART1", 1, 1, "xtal")
  \o DivAndSrc("SPI2", 1, 1, "xtal") \o DivAndSrc("UART2", 1, 1, "xtal")
  \o << DivCall("GPT_T0", 1, 1), DivCall("GPT_S", 1, 1), DivCall("GPADC", 1, 1),
        DivCall("IR_TX", 1, 1) >>
  \o DivAndSrc("RGB", 1, 1, "xtal") \o DivAndSrc("SDIO_H", 1, 1, "xtal")
  \o DivAndSrc("QSPI0", 1, 1, "xtal") \o DivAndSrc("QSPI1", 1, 1, "xtal")

(* pll_init: INVALID_PLL_VALUE stands for the default. *)
INVALID_PLL_VALUE == 255
Given(x, default) == IF x = INVALID_PLL_VALUE THEN default ELSE x

(* Mutation: the core clock is taken before the dividers of the buses. *)
PllScriptHclkFirst(c) ==
  << PllCall("SYSPLL_ENABLE"), SourceCall("core", Given(c.cpu, 0)) >>
  \o DivAndSrc("HCLK", 1, IF c.hclk = 0 THEN 1 ELSE Given(c.hclk, 1), "core")
  \o << SourceCall("flash", 3) >> \o DivAndSrc("FLASH", 1, Given(c.flash, 1), "flash")
  \o << SourceCall("peri", 0),
        DivCall("AON_CFG_PCLK", 1, Given(c.aon, 8)),
        DivCall("CMN_PERI_PCLK", 1, Given(c.cmn, 4)),
        DivCall("AP_PERI_PCLK", 1, Given(c.ap, 4)) >>

PllScript(c) ==
  << PllCall("SYSPLL_ENABLE"), SourceCall("core", Given(c.cpu, 0)), SourceCall("flash", 3) >>
  \o DivAndSrc("FLASH", 1, Given(c.flash, 1), "flash")
  \o << SourceCall("peri", 0),
        DivCall("AON_CFG_PCLK", 1, Given(c.aon, 8)),
        DivCall("CMN_PERI_PCLK", 1, Given(c.cmn, 4)),
        DivCall("AP_PERI_PCLK", 1, Given(c.ap, 4)) >>
  \o DivAndSrc("HCLK", 1, IF c.hclk = 0 THEN 1 ELSE Given(c.hclk, 1), "core")

(* main, from its start to the loop that serves the host: with ROM_DBG it   *)
(* opens the log on UART0 first; looking for a card it sets its clock.       *)
DEFAULT_BAUD_RATE == 115200
SystemInit == << DivCall("AP_PERI_PCLK", 1, 1) >>
DebugLog == << LogCall(115200) >>
CardProbe == << SrcCall("SDIO_H", "invalid"), GateCall("SDIO_H", 1) >>
UartInit == << GateCall("UART0", 1), GateCall("DMA", 1), UartCall(DEFAULT_BAUD_RATE) >>

ClockingInit ==
  /\ \E on \in {0, 1} : clock = [f \in RegFields |-> ResetField(f, on)]
  /\ \/ /\ user = "program"
        /\ \E boot \in {<<>>, BootClock}, log \in {<<>>, DebugLog}, card \in {<<>>, CardProbe} :
             calls = boot \o SystemInit \o log \o card \o UartInit
     \/ user = "anyone" /\ calls = [i \in 1..MaxCalls |-> "any"]
  /\ commands = 0 /\ uart = Unconfigured
  /\ asked = [d \in {} |-> 0]
  /\ limit = [AON_CFG_PCLK |-> MHz(75) \div 2, CMN_PERI_PCLK |-> MHz(75), AP_PERI_PCLK |-> MHz(75)]
  /\ ceiling = limit

-----------------------------------------------------------------------------
(* What a call does to the registers *)
Logged(r, baud) ==
  LET div == LogComputeDiv(baud)
  IN  IF div = NoDivider THEN r
      ELSE SetDiv(SetGate(r, UART0, 1), UART0, div.n, div.m)

(* UART_PowerControl and UART_Control with a rate: the clock is taken        *)
(* undivided, measured, and divided; a rate it cannot have leaves it so.     *)
Undivided(r) == SetDiv(SetGate(r, UART0, 1), UART0, 1, 1)
BaudDivider(r, baud) == ComputeDiv(Value(GetFreq(Undivided(r), UART0)), baud)
Rated(r, baud) ==
  LET div == BaudDivider(r, baud)
  IN  IF div = NoDivider THEN Undivided(r) ELSE SetDiv(Undivided(r), UART0, div.n, div.m)

Performed(r, c) ==
  CASE c.op = "gate" -> SetGate(r, Device[c.dev], c.on)
    [] c.op = "div" -> SetDiv(r, Device[c.dev], c.n, c.m)
    [] c.op = "src" -> SetSrc(r, Device[c.dev], c.src)
    [] c.op = "source" -> InitSrc(r, PllSources[c.source], c.div)
    [] c.op = "pll" -> InitPll(r, c.field)
    [] c.op = "uart" -> Rated(r, c.baud)
    [] c.op = "log" -> Logged(r, c.baud)

UartAfter(c) ==
  IF c.op # "uart" THEN uart
  ELSE LET div == BaudDivider(clock, c.baud)
       IN  IF div = NoDivider THEN Unconfigured
           ELSE [configured |-> TRUE, baud |-> c.baud, divisor |-> div.divisor]

(* What a device is asked to be by a call it accepts. *)
Before(d) ==
  IF d \in DOMAIN asked THEN asked[d]
  ELSE [ on |-> IF Device[d].fields.gate = NoField THEN 1 ELSE clock[Device[d].fields.gate],
         src |-> Device[d].from[1], n |-> 1, m |-> 1 ]
AskedNow(d, a) == [e \in DOMAIN asked \cup {d} |-> IF e = d THEN a ELSE asked[e]]
AskedAfter(c) ==
  CASE c.op = "gate" -> AskedNow(c.dev, [Before(c.dev) EXCEPT !.on = c.on])
    [] c.op = "div" /\ DivAccepted(Device[c.dev], c.n, c.m) ->
         AskedNow(c.dev, [Before(c.dev) EXCEPT !.n = c.n, !.m = c.m])
    [] c.op = "src" /\ c.src \in Sources(Device[c.dev]) ->
         AskedNow(c.dev, [Before(c.dev) EXCEPT !.src = c.src])
    [] c.op \in {"uart", "log"} ->
         LET r == Performed(clock, c)
         IN  AskedNow("UART0", [Before("UART0") EXCEPT !.on = 1, !.n = r[UART0.fields.n],
                                                      !.m = r[UART0.fields.m]])
    [] OTHER -> asked

Perform(c) ==
  /\ clock' = Performed(clock, c)
  /\ uart' = UartAfter(c)
  /\ asked' = AskedAfter(c)

(* system_init runs the AP bus undivided. A change ends with its last call.  *)
ProgramCall ==
  /\ user = "program" /\ calls # <<>>
  /\ Perform(Head(calls)) /\ calls' = Tail(calls)
  /\ IF commands = 0
       THEN /\ limit' = IF Head(calls) = SystemInit[1] THEN [limit EXCEPT !.AP_PERI_PCLK = NoLimit]
                                                        ELSE limit
            /\ ceiling' = limit'
       ELSE UNCHANGED limit /\ ceiling' = IF Tail(calls) = <<>> THEN limit ELSE ceiling
  /\ UNCHANGED <<user, commands>>

(* The host is heard while the UART is configured. *)
Command ==
  /\ user = "program" /\ calls = <<>> /\ uart.configured /\ commands < MaxCommands
  /\ commands' = commands + 1
  /\ UNCHANGED <<clock, user, uart, asked>>

(* What PLL_EN asks for: a value that is refused leaves what there is.       *)
CoreAsked(c) == Value(SrcFreq(InitSrc(clock, Core, Given(c.cpu, 0)), "core"))
DividerAsked(d, m) ==
  IF DivAccepted(Device[d], 1, m) THEN m ELSE clock[Device[d].fields.m]
RequestOf(c) ==
  [ HCLK          |-> DividerAsked("HCLK", IF c.hclk = 0 THEN 1 ELSE Given(c.hclk, 1)),
    AON_CFG_PCLK  |-> DividerAsked("AON_CFG_PCLK", Given(c.aon, 8)),
    CMN_PERI_PCLK |-> DividerAsked("CMN_PERI_PCLK", Given(c.cmn, 4)),
    AP_PERI_PCLK  |-> DividerAsked("AP_PERI_PCLK", Given(c.ap, 4)) ]

(* The buses with a core clock and dividers.                                 *)
BusesAt(core, div) == [bus \in Buses |-> (core \div div.HCLK) \div div[bus]]

(* Once the buses run from the core, its clock changes under them before     *)
(* their dividers do (stub_load.c:78): the faster core, the smaller dividers.*)
Larger(x, y) == IF x > y THEN x ELSE y
Smaller(x, y) == IF x < y THEN x ELSE y
Ceiling(c) ==
  IF clock["SEL_HCLK"] = 0 THEN BusesAt(CoreAsked(c), RequestOf(c))
  ELSE BusesAt(Larger(CoreAsked(c), Value(SrcFreq(clock, "core"))),
               [d \in DOMAIN RequestOf(c) |-> Smaller(RequestOf(c)[d], clock[Device[d].fields.m])])

PllEnable ==
  /\ Command
  /\ \E c \in PllRequests :
       IF c.flag = 0 THEN UNCHANGED <<calls, limit, ceiling>>
       ELSE /\ calls' = PllScript(c)
            /\ limit' = BusesAt(CoreAsked(c), RequestOf(c))
            /\ ceiling' = Ceiling(c)

(* ESP_SET_BAUD: the UART is set up anew when the rate is another one. *)
SetBaud ==
  /\ Command
  /\ \E baud \in Bauds : calls' = IF baud = uart.baud THEN <<>> ELSE << UartCall(baud) >>
  /\ UNCHANGED <<limit, ceiling>>

(* Any call of the clock manager, with values at the limits. *)
Ends(max) == IF max = 0 THEN {1} ELSE {0, 1, max, max + 1}
CallsOf(d) ==
  LET dev == Device[d]
  IN  (IF dev.fields.gate = NoField THEN {} ELSE {GateCall(d, on) : on \in {0, 1}})
        \cup (IF dev.m = 0 THEN {} ELSE {DivCall(d, n, m) : n \in Ends(dev.n), m \in Ends(dev.m)})
        \cup (IF dev.fields.sel = NoField THEN {}
              ELSE {SrcCall(d, src) : src \in Sources(dev) \cup {"invalid"}})
SourceCalls == UNION {{SourceCall(s, div) : div \in Ends(PllSources[s].limit)} : s \in DOMAIN PllSources}

AnyCall ==
  /\ user = "anyone" /\ calls # <<>> /\ calls' = Tail(calls)
  /\ \E c \in SourceCalls \cup UNION {CallsOf(d) : d \in Devices} : Perform(c)
  /\ UNCHANGED <<user, commands, limit, ceiling>>

ClockingNext == ProgramCall \/ PllEnable \/ SetBaud \/ AnyCall

-----------------------------------------------------------------------------
(* What the clock manager reports of a device is what was last asked of it,  *)
(* by whatever calls for other devices in between: no two of the copied      *)
(* blocks share a field (ClockManager.h). A product of frequency and n that   *)
(* exceeds 32 bits is the exception (ClockManager.c:775).                     *)
ReportsAsAsked ==
  \A d \in DOMAIN asked :
    LET a == asked[d]
        freq == FreqOf(clock, a.src)
    IN  IF a.on = 0 THEN GetFreq(clock, Device[d]) = Word(0)
        ELSE \/ Overflows(freq, a.n)
             \/ GetFreq(clock, Device[d]) = Over(Times(freq, a.n), a.m * Device[d].by)

(* Once the core clock drives the buses, none of them is faster than was     *)
(* asked for, from the call that makes it drive them: their dividers come     *)
(* first (clock_config.c, stub_load.c:67).  A later PLL_EN changes the core    *)
(* before the dividers (stub_load.c:78), and does run buses faster than is     *)
(* asked for before and after: from 200 MHz by 6 to 300 MHz by 8, AON runs     *)
(* at 50 MHz in between, where 37.5 are meant.  Meanwhile it is held only to    *)
(* the faster core by the smaller dividers, and after it to what was asked.    *)
(* And what runs from the PLL runs only once it is locked.                     *)
BusesWithinLimits ==
  user = "program" =>
    /\ clock["SEL_HCLK"] = 1 =>
         \A bus \in Buses : Value(GetFreq(clock, Device[bus])) <= ceiling[bus]
    /\ \A d \in {"HCLK", "FLASH"} :
         Chosen(clock, Device[d]) \in DOMAIN PllSources => clock["SYSPLL_ENABLE"] = 1

(* A UART that counts as configured has the rate it was configured for, as   *)
(* near as the fields of the divider allow: no divider is computed that the  *)
(* clock manager refuses, and the fraction is the nearest one (uart.c:175).   *)
(* In units of 100 Hz; a rate of 0 is the exception.                          *)
ConfiguredMeansRate ==
  uart.configured /\ uart.baud # 0 =>
    LET unit == 100
        n == clock[UART0.fields.n]
        m == clock[UART0.fields.m]
    IN  Distance((n * (XtalFreq \div unit)) \div m, (uart.divisor * uart.baud) \div unit)
          <= XtalFreq \div (2 * 1023 * unit) + 1
=============================================================================

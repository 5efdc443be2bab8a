---------------------------- MODULE ClockDevices ----------------------------
(***************************************************************************)
(* The clocked devices, as include/ClockManager.h and                       *)
(* driver/cmu/ClockManager.c name them: for each device the register fields *)
(* its macros and inline functions touch, and what its functions make of    *)
(* them. Each block is a copy of the one before with other names in it.     *)
(***************************************************************************)
EXTENDS Integers, Sequences

NoField == "none"

(* Fields of a device: the gate of its clock, the choice of its source, and  *)
(* numerator and denominator of its divider.                                 *)
Fields(gate, sel, n, m) == [gate |-> gate, sel |-> sel, n |-> n, m |-> m]
Gate(gate) == Fields(gate, NoField, NoField, NoField)
NoFields == Gate(NoField)

CRM_PSRAM == Fields("ENA_PSRAM_CLK", NoField, NoField, "DIV_PSRAM_CLK_M")
CRM_FLASH == Fields("ENA_FLASH_CLK", "SEL_FLASH_CLK", NoField, "DIV_FLASH_CLK_M")
CRM_MTIME == Fields("ENA_MTIME_TOGGLE", NoField, NoField, "DIV_MTIME_TOGGLE_M")
CRM_SPI0 == Fields("ENA_SPI0_CLK", "SEL_SPI0_CLK", "DIV_SPI0_CLK_N", "DIV_SPI0_CLK_M")
CRM_UART0 == Fields("ENA_UART0_CLK", "SEL_UART0_CLK", "DIV_UART0_CLK_N", "DIV_UART0_CLK_M")
CRM_SPI1 == Fields("ENA_SPI1_CLK", "SEL_SPI1_CLK", "DIV_SPI1_CLK_N", "DIV_SPI1_CLK_M")
CRM_UART1 == Fields("ENA_UART1_CLK", "SEL_UART1_CLK", "DIV_UART1_CLK_N", "DIV_UART1_CLK_M")
CRM_SPI2 == Fields("ENA_SPI2_CLK", "SEL_SPI2_CLK", "DIV_SPI2_CLK_N", "DIV_SPI2_CLK_M")
(* Mutation: a field kept from the block that was copied. *)
CRM_UART2Copied == Fields("ENA_UART2_CLK", "SEL_UART2_CLK", "DIV_UART1_CLK_N", "DIV_UART2_CLK_M")
CRM_UART2 == Fields("ENA_UART2_CLK", "SEL_UART2_CLK", "DIV_UART2_CLK_N", "DIV_UART2_CLK_M")
CRM_GPT_T0 == Fields("ENA_GPT_CLK_T0", NoField, NoField, "DIV_GPT_CLK_T0_M")
CRM_GPT_S == Fields("ENA_GPT_CLK_S", NoField, NoField, "DIV_GPT_CLK_S_M")
CRM_GPADC == Fields("ENA_GPADC_CLK", NoField, NoField, "DIV_GPADC_CLK_M")
CRM_IR_TX == Fields(NoField, NoField, NoField, "DIV_IR_CLK_TX_M")
CRM_IR == Gate("ENA_IR_CLK")
CRM_DMA == Gate("ENA_DMAC_CLK")
CRM_GPIO0 == Gate("ENA_GPIO0_CLK")
CRM_GPIO1 == Gate("ENA_GPIO1_CLK")
CRM_I2C0 == Gate("ENA_I2C0_CLK")
CRM_I2C1 == Gate("ENA_I2C1_CLK")
CRM_QDEC == Gate("ENA_QDEC_CLK")
CRM_SMID == Gate("ENA_SMID_CLK")
CRM_RFIF == Gate("ENA_RFIF_CLK")
CRM_TRNG == Gate("ENA_TRNG_CLK")
CRM_CALENDAR == Gate("ENA_CALENDAR_CLK")
CRM_USB == Gate("ENA_USB_CLK")
CRM_BT == Gate("ENA_BT_HCLK")
CRM_WIFI == Gate("ENA_WF_HCLK")
CRM_CRYPTO == Gate("ENA_CRYPTO_CLK")
CRM_JPEG == Gate("ENA_JPEG_CLK")
CRM_GPDMA == Gate("ENA_DMAC_GP_CLK")
CRM_RGB == Fields("ENA_RGB_CLK", "SEL_RGB_CLK", NoField, "DIV_RGB_CLK_M")
CRM_BLENDER == NoFields
CRM_SDIO_D == NoFields
CRM_SDIO_H == Fields("ENA_SDIOH_CLK", "SEL_SDIOH_CLK2X", "DIV_SDIOH_CLK2X_N", "DIV_SDIOH_CLK2X_M")
CRM_WDT == NoFields
CRM_APC == Gate("ENA_APC_CLK")
CRM_I2S == Gate("ENA_I2S_CLK")
CRM_DAC == Gate("ENA_CODEC_DAC_CLK")
CRM_ADC == Gate("ENA_CODEC_ADC_CLK")
CRM_EFUSE == Gate("ENA_EFUSE_CLK")
CRM_DMA2D == NoFields
CRM_VIDEO == Gate("ENA_VIDEO_CLK")
CRM_QSPI0 == Fields("ENA_QSPI0_CLK", "SEL_QSPI0_CLK", "DIV_QSPI0_CLK_N", "DIV_QSPI0_CLK_M")
CRM_QSPI1 == Fields("ENA_QSPI1_CLK", "SEL_QSPI1_CLK", "DIV_QSPI1_CLK_N", "DIV_QSPI1_CLK_M")
CRM_DVP == Gate("ENA_VIC_CLK")
CRM_KEYSENSE0 == Gate("ENA_KEYSENSE0_CLK")
CRM_KEYSENSE1 == Gate("ENA_KEYSENSE1_CLK")
CRM_DUALTIMER == NoFields
CRM_AON_TIMER == Gate("ENA_AON_TIMER_CLK")
CRM_AON_WDT == NoFields
CRM_MAILBOX == NoFields
CRM_MUTEX == NoFields
CRM_LUNA == Gate("ENA_LUNA_CLK")
CRM_CMN_PERI_PCLK == Fields(NoField, NoField, "DIV_CMN_PERI_PCLK_N", "DIV_CMN_PERI_PCLK_M")
CRM_AON_CFG_PCLK == Fields(NoField, NoField, "DIV_AON_CFG_PCLK_N", "DIV_AON_CFG_PCLK_M")
CRM_AP_PERI_PCLK == Fields(NoField, NoField, "DIV_AP_PERI_PCLK_N", "DIV_AP_PERI_PCLK_M")
CRM_HCLK == Fields(NoField, "SEL_HCLK", "DIV_HCLK_N", "DIV_HCLK_M")
CRM_CPU == NoFields

(* A device with its fields runs from one of the sources, divided as its    *)
(* functions allow: n and m up to a limit, zero where it has none; less is   *)
(* what is taken off m on its way into the field, by a fixed division.       *)
Fraction(fields, from, n, m) ==
  [fields |-> fields, from |-> from, n |-> n, m |-> m, less |-> 0, by |-> 1]
Divided(fields, from, m) == Fraction(fields, from, 0, m)
Fixed(fields, from) == Fraction(fields, from, 0, 0)

Xtal == <<"xtal">>
Psram == <<"psram">>
Hclk == <<"hclk">>
Cmn32k == <<"cmn32k">>
Rc32k == <<"rc32k">>
XtalOrPeri == <<"xtal", "peri">>
XtalOrFlash == <<"xtal", "flash">>
XtalOrCore == <<"xtal", "core">>

PSRAM == Divided(CRM_PSRAM, Psram, 31)
FLASH == [Divided(CRM_FLASH, XtalOrFlash, 32) EXCEPT !.less = 1]
MTIME == Divided(CRM_MTIME, Xtal, 63)
SPI0 == Fraction(CRM_SPI0, XtalOrPeri, 7, 15)
UART0 == Fraction(CRM_UART0, XtalOrPeri, 511, 1023)
SPI1 == Fraction(CRM_SPI1, XtalOrPeri, 7, 15)
UART1 == Fraction(CRM_UART1, XtalOrPeri, 511, 1023)
SPI2 == Fraction(CRM_SPI2, XtalOrPeri, 7, 15)
UART2 == Fraction(CRM_UART2, XtalOrPeri, 511, 1023)
GPT_T0 == Divided(CRM_GPT_T0, Xtal, 15)
GPT_S == Divided(CRM_GPT_S, Xtal, 15)
GPADC == Divided(CRM_GPADC, Xtal, 1023)
IR_TX == Divided(CRM_IR_TX, Xtal, 63)
IR == [Fixed(CRM_IR, Xtal) EXCEPT !.by = 750]
DMA == Fixed(CRM_DMA, Hclk)
GPIO0 == Fixed(CRM_GPIO0, Xtal)
GPIO1 == Fixed(CRM_GPIO1, Xtal)
I2C0 == Fixed(CRM_I2C0, Xtal)
I2C1 == Fixed(CRM_I2C1, Xtal)
QDEC == Fixed(CRM_QDEC, Xtal)
SMID == Fixed(CRM_SMID, Xtal)
RFIF == Fixed(CRM_RFIF, Xtal)
TRNG == Fixed(CRM_TRNG, Xtal)
CALENDAR == Fixed(CRM_CALENDAR, Xtal)
USB == Fixed(CRM_USB, Xtal)
BT == Fixed(CRM_BT, Hclk)
WIFI == Fixed(CRM_WIFI, Hclk)
CRYPTO == Fixed(CRM_CRYPTO, Hclk)
JPEG == Fixed(CRM_JPEG, Hclk)
GPDMA == Fixed(CRM_GPDMA, Hclk)
RGB == Divided(CRM_RGB, XtalOrPeri, 7)
BLENDER == Fixed(CRM_BLENDER, Hclk)
SDIO_D == Fixed(CRM_SDIO_D, Hclk)
SDIO_H == Fraction(CRM_SDIO_H, XtalOrPeri, 7, 15)
WDT == Fixed(CRM_WDT, Cmn32k)
APC == Fixed(CRM_APC, Hclk)
I2S == Fixed(CRM_I2S, Hclk)
DAC == Fixed(CRM_DAC, Hclk)
ADC == Fixed(CRM_ADC, Hclk)
EFUSE == Fixed(CRM_EFUSE, Cmn32k)
DMA2D == Fixed(CRM_DMA2D, Hclk)
VIDEO == Fixed(CRM_VIDEO, Hclk)
QSPI0 == Fraction(CRM_QSPI0, XtalOrPeri, 7, 15)
QSPI1 == Fraction(CRM_QSPI1, XtalOrPeri, 7, 15)
DVP == Fixed(CRM_DVP, Hclk)
KEYSENSE0 == Fixed(CRM_KEYSENSE0, Cmn32k)
KEYSENSE1 == Fixed(CRM_KEYSENSE1, Cmn32k)
DUALTIMER == Fixed(CRM_DUALTIMER, Cmn32k)
AON_TIMER == Fixed(CRM_AON_TIMER, Rc32k)
AON_WDT == Fixed(CRM_AON_WDT, Rc32k)
MAILBOX == Fixed(CRM_MAILBOX, Hclk)
MUTEX == Fixed(CRM_MUTEX, Hclk)
LUNA == Fixed(CRM_LUNA, Hclk)
CMN_PERI_PCLK == Fraction(CRM_CMN_PERI_PCLK, Hclk, 15, 31)
AON_CFG_PCLK == Fraction(CRM_AON_CFG_PCLK, Hclk, 31, 63)
AP_PERI_PCLK == Fraction(CRM_AP_PERI_PCLK, Hclk, 15, 31)
HCLK == Fraction(CRM_HCLK, XtalOrCore, 15, 31)
CPU == Fixed(CRM_CPU, Hclk)

Device ==
  [ PSRAM |-> PSRAM, FLASH |-> FLASH, MTIME |-> MTIME, SPI0 |-> SPI0,
    UART0 |-> UART0, SPI1 |-> SPI1, UART1 |-> UART1, SPI2 |-> SPI2,
    UART2 |-> UART2, GPT_T0 |-> GPT_T0, GPT_S |-> GPT_S, GPADC |-> GPADC,
    IR_TX |-> IR_TX, IR |-> IR, DMA |-> DMA, GPIO0 |-> GPIO0,
    GPIO1 |-> GPIO1, I2C0 |-> I2C0, I2C1 |-> I2C1, QDEC |-> QDEC,
    SMID |-> SMID, RFIF |-> RFIF, TRNG |-> TRNG, CALENDAR |-> CALENDAR,
    USB |-> USB, BT |-> BT, WIFI |-> WIFI, CRYPTO |-> CRYPTO,
    JPEG |-> JPEG, GPDMA |-> GPDMA, RGB |-> RGB, BLENDER |-> BLENDER,
    SDIO_D |-> SDIO_D, SDIO_H |-> SDIO_H, WDT |-> WDT, APC |-> APC,
    I2S |-> I2S, DAC |-> DAC, ADC |-> ADC, EFUSE |-> EFUSE,
    DMA2D |-> DMA2D, VIDEO |-> VIDEO, QSPI0 |-> QSPI0, QSPI1 |-> QSPI1,
    DVP |-> DVP, KEYSENSE0 |-> KEYSENSE0, KEYSENSE1 |-> KEYSENSE1,
    DUALTIMER |-> DUALTIMER, AON_TIMER |-> AON_TIMER,
    AON_WDT |-> AON_WDT, MAILBOX |-> MAILBOX, MUTEX |-> MUTEX,
    LUNA |-> LUNA, CMN_PERI_PCLK |-> CMN_PERI_PCLK,
    AON_CFG_PCLK |-> AON_CFG_PCLK, AP_PERI_PCLK |-> AP_PERI_PCLK,
    HCLK |-> HCLK, CPU |-> CPU ]

Devices == DOMAIN Device
=============================================================================

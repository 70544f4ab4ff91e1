------------------------------- MODULE FwBoot -------------------------------
(***************************************************************************)
(* How the driver (re)starts the device's firmware:                        *)
(* hw_atl_utils_soft_reset() and the two sequences it chooses from, one    *)
(* for devices that boot from flash (FLB) and one for those whose boot     *)
(* code is in ROM (RBL).  Every wait of the code is two actions: one for   *)
(* the condition that comes true in time, and one for the tries that are   *)
(* used up (AQ_HW_WAIT_FOR and the loops of 1000 tries).                   *)
(***************************************************************************)
EXTENDS Naturals

CONSTANTS
    FastStart,  \* builds: is AQ_CFG_FAST_START defined (a subset of BOOLEAN)
    Majors      \* major versions of the firmware in the flash

ASSUME BootAssumption == FastStart \subseteq BOOLEAN /\ Majors \subseteq Nat \ {0}

VARIABLES
    bpc,     \* where the running soft reset is, or how the last one ended
    fast,    \* fast_start_enabled
    rbl,     \* rbl_enabled
    ver0,    \* the firmware version read on entry, 0 when there was none
    chain,   \* who answers: nobody yet, the flash loader or the ROM loader
    fw,      \* the firmware: off, booting, up, or none to be found
    major,   \* its major version
    born     \* history: the firmware came up since the last reset

bootVars == <<bpc, fast, rbl, ver0, chain, fw, major, born>>

Waiting == {"who", "cold", "deinit1x", "rbl", "rbl_boot", "flb", "kick", "version"}

BootInit ==
    /\ bpc = "idle"
    /\ fast \in FastStart
    /\ rbl = FALSE
    /\ ver0 = 0
    /\ chain \in {"none", "flb", "rbl"}
    /\ fw \in {"booting", "up"}
    /\ major \in Majors
    /\ born = FALSE

\* The version register, 0 until the firmware is up.
FwVersion == IF fw = "up" THEN major ELSE 0

----------------------------------------------------------------------------
(* The device, modelled from how the code uses it.                         *)

\* A loader reports in HW_ATL_MPI_DAISY_CHAIN_STATUS or _BOOT_EXIT_CODE.
LoaderReports ==
    /\ chain = "none"
    /\ chain' \in {"flb", "rbl"}
    /\ UNCHANGED <<bpc, fast, rbl, ver0, fw, major, born>>

FirmwareComesUp ==
    /\ fw = "booting" /\ chain # "none"
    /\ fw' = "up"
    /\ born' = TRUE
    /\ UNCHANGED <<bpc, fast, rbl, ver0, chain, major>>

\* The ROM loader finds no firmware in the flash (status 0xF1A7).
NoFirmware ==
    /\ fw = "booting" /\ bpc = "rbl_boot"
    /\ fw' = "none"
    /\ UNCHANGED <<bpc, fast, rbl, ver0, chain, major, born>>

----------------------------------------------------------------------------
(* hw_atl_utils_soft_reset                                                 *)

Goto(to) ==
    /\ bpc' = to
    /\ UNCHANGED <<fast, rbl, ver0, chain, fw, major, born>>

SoftReset ==
    /\ bpc = "idle"
    /\ bpc' = "who"
    /\ ver0' = FwVersion
    /\ born' = FALSE
    /\ UNCHANGED <<fast, rbl, chain, fw, major>>

\* "Neither RBL nor FLB firmware started"
NobodyStarted == bpc = "who" /\ chain = "none" /\ Goto("failed")

\* A slip: with fast start a firmware that is already up is taken as fresh.
LoaderFoundSkips ==
    /\ bpc = "who" /\ chain # "none"
    /\ rbl' = (chain = "rbl")
    /\ bpc' = IF fast THEN "cold" ELSE "deinit1x"
    /\ UNCHANGED <<fast, ver0, chain, fw, major, born>>

\* Version 0 on entry means that a cold start is under way: with fast start
\* the code waits for it instead of resetting.
LoaderFound ==
    /\ bpc = "who" /\ chain # "none"
    /\ rbl' = (chain = "rbl")
    /\ bpc' = IF fast /\ ver0 = 0 THEN "cold" ELSE "deinit1x"
    /\ UNCHANGED <<fast, ver0, chain, fw, major, born>>

ColdStartDone == bpc = "cold" /\ fw = "up" /\ Goto("ok")

\* The wait writes the version it reads last, which the next test uses.
ColdStartLate ==
    /\ bpc = "cold"
    /\ bpc' = "deinit1x"
    /\ ver0' = FwVersion
    /\ UNCHANGED <<fast, rbl, chain, fw, major, born>>

\* Firmware 1.x is told to leave its power state; nobody looks whether it did.
Deinit1x == bpc = "deinit1x" /\ Goto(IF rbl THEN "rbl" ELSE "flb")

\* hw_atl_utils_soft_reset_rbl: the status is overwritten, the device reset.
ResetRbl ==
    /\ bpc = "rbl"
    /\ fw' = "booting" /\ born' = FALSE
    /\ bpc' = "rbl_boot"
    /\ UNCHANGED <<fast, rbl, ver0, chain, major>>

RblBooted == bpc = "rbl_boot" /\ fw # "none" /\ Goto("version")

\* "RBL Restart failed", or "No FW detected"
RblFailed == bpc = "rbl_boot" /\ Goto("failed")

\* hw_atl_utils_soft_reset_flb: unless fast start is on, the MAC is kicked
\* and the firmware reset on its own before the device is.
ResetFlb ==
    /\ bpc = "flb"
    /\ IF fast THEN bpc' = "version" /\ fw' = "booting"
               ELSE bpc' = "kick" /\ fw' = "off"
    /\ born' = FALSE
    /\ UNCHANGED <<fast, rbl, ver0, chain, major>>

MacKicked ==
    /\ bpc = "kick"
    /\ bpc' = "version"
    /\ fw' = "booting"
    /\ UNCHANGED <<fast, rbl, ver0, chain, major, born>>

\* "MAC kickstart failed"
MacKickFailed == bpc = "kick" /\ Goto("failed")

Started == bpc = "version" /\ FwVersion # 0 /\ Goto("ok")

\* "FW kickstart failed"
StartFailed == bpc = "version" /\ Goto("failed")

BootStep ==
    \/ NobodyStarted \/ LoaderFound
    \/ ColdStartDone \/ ColdStartLate
    \/ Deinit1x
    \/ ResetRbl \/ RblBooted \/ RblFailed
    \/ ResetFlb \/ MacKicked \/ MacKickFailed
    \/ Started \/ StartFailed

DeviceBoots == LoaderReports \/ FirmwareComesUp \/ NoFirmware

\* The caller takes the result.
BootReturns ==
    /\ bpc \in {"ok", "failed"}
    /\ bpc' = "idle" /\ ver0' = 0 /\ born' = FALSE
    /\ UNCHANGED <<fast, rbl, chain, fw, major>>

----------------------------------------------------------------------------
\* The values the reset and the device range over.
BootTypeOK ==
    /\ bpc \in Waiting \cup {"idle", "ok", "failed"}
    /\ fast \in BOOLEAN /\ rbl \in BOOLEAN /\ born \in BOOLEAN
    /\ ver0 \in Majors \cup {0} /\ major \in Majors
    /\ chain \in {"none", "flb", "rbl"}
    /\ fw \in {"off", "booting", "up", "none"}

\* A soft reset that returns 0 leaves a firmware that is up and that started
\* after the reset was called, whether the device was reset or a cold start
\* only waited for (hw_atl_utils_soft_reset).  The requests, settings and
\* counters the rest of the driver begins with depend on it.
FreshFirmware == bpc = "ok" => fw = "up" /\ born
=============================================================================

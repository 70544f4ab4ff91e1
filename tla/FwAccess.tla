------------------------------ MODULE FwAccess ------------------------------
(***************************************************************************)
(* How the driver reaches what it shares with the firmware: its memory     *)
(* (word by word, through one address register), a register of the MAC and *)
(* the PHY over MDIO.  Each is guarded by a semaphore of the device, which *)
(* is taken by reading it and released by anybody's writing it.            *)
(*                                                                         *)
(* A wait polls a bounded number of times.  AQ_HW_WAIT_FOR looks at the    *)
(* condition once more after the last try and then reports a timeout all   *)
(* the same: a semaphore got by that look is held by a caller that thinks  *)
(* it is not.                                                              *)
(***************************************************************************)
EXTENDS Naturals, Sequences, FiniteSets

CONSTANTS
    Threads,    \* the threads that make calls
    JobSets,    \* which functions the threads call: a set of functions on Threads
    W,          \* words of a transfer
    Vers,       \* bound: the firmware's data has version 0 .. Vers - 1
    MaxPhy,     \* HW_ATL_PHY_ID_MAX
    PhyAt,      \* where the PHY is
    PtpRegs,    \* ptp_registers, a sequence
    Hangs,      \* may the firmware die?
    Fw, Free    \* who holds a semaphore: the firmware, nobody

ASSUME AccessAssumption ==
    /\ W \in Nat \ {0} /\ Vers \in Nat \ {0} /\ MaxPhy \in Nat /\ PhyAt \in 0 .. MaxPhy - 1
    /\ Hangs \in BOOLEAN /\ Fw \notin Threads /\ Free \notin Threads \cup {Fw}
    /\ PtpRegs \in Seq(Nat) /\ PtpRegs # <<>>
    /\ \A f \in JobSets : f \in [Threads -> SUBSET {"downld", "upload", "msm", "phy"}]
    \* aq_phy_init and aq_phy_disable_ptp are called by aq_nic_init alone, under rtnl
    /\ \A f \in JobSets : \A t, u \in Threads : "phy" \in f[t] /\ "phy" \in f[u] => t = u

Sems == {"RAM", "MSM", "MDIO"}
MboxArea == 1 .. W
RpcArea == W + 1 .. 2 * W
NoAddr == 2 * W + 1      \* past the words of interest

VARIABLES
    jobs,      \* the member of JobSets of this behaviour
    sem,       \* HW_ATL_FW_SM_*
    pc, err,   \* of each thread
    buf,       \* the words a thread has downloaded, or has still to upload
    addr,      \* HW_ATL_MIF_ADDR
    ram,       \* memory: the version of each mailbox word, the writer of each RPC word
    fw,        \* the firmware: idle, hung, or the semaphore it works under
    fwn, fwv,  \* the mailbox word it writes next, and the version it writes
    phy_id,    \* aq_hw->phy_id
    phy,       \* the PTP registers: is the PTP bit set, are the other bits as they were
    val,       \* the value the PHY calls work on
    rn,        \* the number of the PTP register they are at
    forced,    \* history: a semaphore was taken away from its holder
    misread    \* history: a PHY read gave up, or MDIO was still busy

ramVars == <<buf, addr, ram>>
fwVars == <<fw, fwn, fwv>>
phyVars == <<phy_id, phy, val, rn, misread>>
vars == <<jobs, sem, pc, err, ramVars, fwVars, phyVars, forced>>

\* Register values: the PTP bit, and whose other bits they are; register 0 is
\* the identifier, and a value of no register is all ones.
Reg(i) == [ptp |-> i # 0, rest |-> i]
Id == Reg(0)
Ones == Reg(Len(PtpRegs) + 1)

Init ==
    /\ jobs \in JobSets
    /\ sem = [s \in Sems |-> Free]
    /\ pc = [t \in Threads |-> "idle"]
    /\ err = [t \in Threads |-> FALSE]
    /\ buf = [t \in Threads |-> <<>>]
    /\ addr = NoAddr
    /\ ram = [a \in MboxArea \cup RpcArea |-> IF a \in MboxArea THEN 0 ELSE Fw]
    /\ fw = "idle" /\ fwn = NoAddr /\ fwv = 0
    /\ phy_id = MaxPhy
    /\ phy = [i \in DOMAIN PtpRegs |-> Reg(i)]
    /\ val = Id /\ rn = 0
    /\ forced = FALSE /\ misread = FALSE

Goto(t, to) == pc' = [pc EXCEPT ![t] = to]
Take(t, s) == sem[s] = Free /\ sem' = [sem EXCEPT ![s] = t]
\* sem_set(1): released whoever holds it.
Release(s) == sem' = [sem EXCEPT ![s] = Free]
Failed(t) == err' = [err EXCEPT ![t] = TRUE]

Call(t, j) ==
    /\ pc[t] = "idle" /\ j \in jobs[t]
    /\ Goto(t, j)
    /\ buf' = [buf EXCEPT ![t] = IF j = "upload" THEN [i \in 1 .. W |-> t] ELSE <<>>]
    /\ UNCHANGED <<jobs, sem, err, addr, ram, fwVars, phyVars, forced>>

----------------------------------------------------------------------------
(* hw_atl_utils_fw_downld_dwords                                           *)

\* A slip: the address register is left as it was.
DownldNoAddr(t) ==
    /\ pc[t] = "downld"
    /\ Take(t, "RAM")
    /\ Goto(t, "downld_word")
    /\ UNCHANGED <<jobs, err, ramVars, fwVars, phyVars, forced>>

DownldGot(t) ==
    /\ pc[t] = "downld"
    /\ Take(t, "RAM")
    /\ addr' = 1
    /\ Goto(t, "downld_word")
    /\ UNCHANGED <<jobs, err, buf, ram, fwVars, phyVars, forced>>

\* A slip: a timeout leaves the semaphore alone.
DownldTimeout(t) ==
    /\ pc[t] = "downld"
    /\ Goto(t, "idle")
    /\ UNCHANGED <<jobs, sem, err, ramVars, fwVars, phyVars, forced>>

\* The tries are used up: the semaphore is released for whoever holds it.
DownldForce(t) ==
    /\ pc[t] = "downld"
    /\ Failed(t)
    /\ forced' = (forced \/ sem["RAM"] # Free)
    /\ Release("RAM")
    /\ Goto(t, "downld_again")
    /\ UNCHANGED <<jobs, ramVars, fwVars, phyVars>>

\* A slip: the error is returned with the semaphore got.
DownldGotReturns(t) ==
    /\ pc[t] = "downld_again"
    /\ IF sem["RAM"] = Free THEN Take(t, "RAM") ELSE UNCHANGED sem
    /\ Goto(t, "idle")
    /\ err' = [err EXCEPT ![t] = FALSE]
    /\ UNCHANGED <<jobs, ramVars, fwVars, phyVars, forced>>

\* Got or not, no word is read: err is still set.
DownldAgain(t) ==
    /\ pc[t] = "downld_again"
    /\ IF sem["RAM"] = Free THEN Take(t, "RAM") /\ addr' = 1 /\ Goto(t, "put")
       ELSE Goto(t, "idle") /\ UNCHANGED <<sem, addr>>
    /\ err' = [err EXCEPT ![t] = pc'[t] # "idle"]
    /\ UNCHANGED <<jobs, buf, ram, fwVars, phyVars, forced>>

\* Once a semaphore was taken away the words transferred are anybody's, and
\* not followed.
Followed == ~forced /\ addr \in DOMAIN ram

\* The word is read also when the wait for it timed out.
DownldWord(t) ==
    /\ pc[t] = "downld_word"
    /\ buf' = [buf EXCEPT ![t] = Append(@, IF Followed THEN ram[addr] ELSE 0)]
    /\ addr' = IF addr = NoAddr THEN addr ELSE addr + 1
    /\ \/ UNCHANGED err /\ Goto(t, IF Len(buf'[t]) = W THEN "put" ELSE "downld_word")
       \/ Failed(t) /\ Goto(t, "put")
    /\ UNCHANGED <<jobs, sem, ram, fwVars, phyVars, forced>>

(* hw_atl_utils_fw_upload_dwords                                           *)

\* One try.
UploadGet(t) ==
    /\ pc[t] = "upload"
    /\ IF sem["RAM"] = Free
       THEN Take(t, "RAM") /\ addr' = W + 1 /\ Goto(t, "upload_word")
       ELSE Goto(t, "idle") /\ UNCHANGED <<sem, addr>>
    /\ UNCHANGED <<jobs, err, buf, ram, fwVars, phyVars, forced>>

\* A wait that timed out does not end the loop.
UploadWord(t) ==
    /\ pc[t] = "upload_word"
    /\ ram' = IF Followed THEN [ram EXCEPT ![addr] = Head(buf[t])] ELSE ram
    /\ addr' = IF addr = NoAddr THEN addr ELSE addr + 1
    /\ buf' = [buf EXCEPT ![t] = Tail(@)]
    /\ UNCHANGED err \/ Failed(t)
    /\ Goto(t, IF buf'[t] = <<>> THEN "put" ELSE "upload_word")
    /\ UNCHANGED <<jobs, sem, fwVars, phyVars, forced>>

RamPut(t) ==
    /\ pc[t] = "put"
    /\ Release("RAM")
    /\ Goto(t, "idle")
    /\ err' = [err EXCEPT ![t] = FALSE]
    /\ buf' = [buf EXCEPT ![t] = <<>>]
    /\ UNCHANGED <<jobs, addr, ram, fwVars, phyVars, forced>>

(* hw_atl_msm_read: the wait, the access, the release.                     *)

MsmGet(t) ==
    /\ pc[t] = "msm"
    /\ \/ Take(t, "MSM") /\ Goto(t, "msm_put")
       \/ Goto(t, "idle") /\ UNCHANGED sem
       \/ Goto(t, "idle") /\ Take(t, "MSM")   \* got by the look after the last try
    /\ UNCHANGED <<jobs, err, ramVars, fwVars, phyVars, forced>>

MsmPut(t) ==
    /\ pc[t] = "msm_put"
    /\ Release("MSM")
    /\ Goto(t, "idle")
    /\ UNCHANGED <<jobs, err, ramVars, fwVars, phyVars, forced>>

----------------------------------------------------------------------------
(* The PHY.  aq_phy_read_reg and aq_phy_write_reg ignore the result of     *)
(* aq_mdio_busy_wait, and a read that gets no semaphore gives all ones.    *)

\* What the PHY answers: nothing but ones where there is none.
PhyReg(i) == IF phy_id # PhyAt THEN Ones ELSE IF i = 0 THEN Id ELSE phy[i]

\* In a PHY call t waits for the semaphore and then goes to the access.
PhyGet(t, from, access, without) ==
    /\ pc[t] = from
    /\ \/ Take(t, "MDIO") /\ Goto(t, access) /\ UNCHANGED phyVars
       \/ /\ Goto(t, without)
          /\ UNCHANGED sem \/ Take(t, "MDIO")   \* or got by the last look
          /\ val' = IF from = "write" THEN val ELSE Ones
          /\ misread' = TRUE
          /\ UNCHANGED <<jobs, phy_id, phy, rn>>
    /\ UNCHANGED <<jobs, err, ramVars, fwVars, forced>>

\* The value read, or the one the last read has left while MDIO is busy.
PhyRead(t, from, to, i) ==
    /\ pc[t] = from
    /\ \/ val' = PhyReg(i) /\ UNCHANGED misread
       \/ val' = val /\ misread' = TRUE
    /\ Release("MDIO")
    /\ Goto(t, to)
    /\ UNCHANGED <<jobs, err, ramVars, fwVars, phy_id, phy, rn, forced>>

\* aq_nic_init sets phy_id to HW_ATL_PHY_ID_MAX, and aq_phy_init looks for it.
PhyInit(t) ==
    /\ pc[t] = "phy"
    /\ phy_id' = 0
    /\ Goto(t, "scan")
    /\ UNCHANGED <<jobs, sem, err, ramVars, fwVars, phy, val, rn, misread, forced>>

\* aq_phy_init_phy_id
PhyScan(t) ==
    /\ pc[t] = "scanned"
    /\ IF val # Ones THEN Goto(t, "ident") /\ UNCHANGED phy_id
       ELSE /\ phy_id' = phy_id + 1
            /\ Goto(t, IF phy_id' = MaxPhy THEN "idle" ELSE "scan")
    /\ UNCHANGED <<jobs, sem, err, ramVars, fwVars, phy, val, rn, misread, forced>>

\* The rest of aq_phy_init: the identifier is read, the PHY given up if it is
\* all ones.
PhyIdent(t) ==
    /\ pc[t] = "idented"
    /\ IF val # Ones THEN Goto(t, "read") /\ rn' = 1 /\ UNCHANGED phy_id
       ELSE Goto(t, "idle") /\ phy_id' = MaxPhy /\ UNCHANGED rn
    /\ UNCHANGED <<jobs, sem, err, ramVars, fwVars, phy, val, misread, forced>>

\* aq_phy_disable_ptp: each register is read and written without its PTP bit.
PhyWrite(t) ==
    /\ pc[t] = "mdio_write"
    /\ \/ /\ phy' = IF phy_id = PhyAt THEN [phy EXCEPT ![rn] = [val EXCEPT !.ptp = FALSE]]
                    ELSE phy
          /\ UNCHANGED misread
       \/ UNCHANGED phy /\ misread' = TRUE
    /\ Release("MDIO")
    /\ Goto(t, "written")
    /\ UNCHANGED <<jobs, err, ramVars, fwVars, phy_id, val, rn, forced>>

\* A slip: the value is read once, for the first register.
PhyReadOnce(t) ==
    /\ pc[t] = "written"
    /\ IF rn < Len(PtpRegs) THEN rn' = rn + 1 /\ Goto(t, "write")
       ELSE rn' = 0 /\ Goto(t, "idle")
    /\ UNCHANGED <<jobs, sem, err, ramVars, fwVars, phy_id, phy, val, misread, forced>>

PhyNext(t) ==
    /\ pc[t] = "written"
    /\ IF rn < Len(PtpRegs) THEN rn' = rn + 1 /\ Goto(t, "read")
       ELSE rn' = 0 /\ Goto(t, "idle")
    /\ UNCHANGED <<jobs, sem, err, ramVars, fwVars, phy_id, phy, val, misread, forced>>

PhyStep(t) ==
    \/ PhyInit(t) \/ PhyScan(t) \/ PhyIdent(t) \/ PhyWrite(t) \/ PhyNext(t)
    \/ PhyGet(t, "scan", "mdio_scan", "scanned")
    \/ PhyRead(t, "mdio_scan", "scanned", 0)
    \/ PhyGet(t, "ident", "mdio_ident", "idented")
    \/ PhyRead(t, "mdio_ident", "idented", 0)
    \/ PhyGet(t, "read", "mdio_read", "write")
    \/ PhyRead(t, "mdio_read", "write", rn)
    \/ PhyGet(t, "write", "mdio_write", "written")

Step(t) ==
    \/ DownldGot(t) \/ DownldForce(t) \/ DownldAgain(t) \/ DownldWord(t)
    \/ UploadGet(t) \/ UploadWord(t) \/ RamPut(t)
    \/ MsmGet(t) \/ MsmPut(t)
    \/ PhyStep(t)

----------------------------------------------------------------------------
(* The firmware, modelled from how the code uses it: it takes a semaphore, *)
(* rewrites the mailbox word by word, and may die at any time.             *)
FwTake(s) ==
    /\ fw = "idle" /\ sem[s] = Free
    /\ sem' = [sem EXCEPT ![s] = Fw]
    /\ fw' = s
    /\ fwv' = IF s = "RAM" THEN (fwv + 1) % Vers ELSE fwv
    /\ fwn' = IF s = "RAM" THEN 1 ELSE NoAddr
    /\ UNCHANGED <<jobs, pc, err, ramVars, phyVars, forced>>
FwWord ==
    /\ fw = "RAM" /\ fwn \in MboxArea
    /\ ram' = IF forced THEN ram ELSE [ram EXCEPT ![fwn] = fwv]
    /\ fwn' = fwn + 1
    /\ UNCHANGED <<jobs, sem, pc, err, buf, addr, fw, fwv, phyVars, forced>>
FwPut ==
    /\ fw \in Sems /\ fwn \notin MboxArea
    /\ Release(fw)
    /\ forced' = (forced \/ sem[fw] # Fw)
    /\ fw' = "idle" /\ fwn' = NoAddr
    /\ UNCHANGED <<jobs, pc, err, ramVars, fwv, phyVars>>
FwHang ==
    /\ Hangs /\ fw # "hung"
    /\ fw' = "hung"
    /\ UNCHANGED <<jobs, sem, pc, err, ramVars, fwn, fwv, phyVars, forced>>
FwStep == (\E s \in Sems : FwTake(s)) \/ FwWord \/ FwPut \/ FwHang

Next ==
    \/ \E t \in Threads : Step(t) \/ \E j \in jobs[t] : Call(t, j)
    \/ FwStep

\* Every wait is bounded, so a call goes on whatever the firmware does; the
\* statistics are read every second, whatever else is called.
Fairness ==
    \A t \in Threads : WF_vars(Step(t)) /\ SF_vars(Call(t, "downld"))

Spec == Init /\ [][Next]_vars /\ Fairness

----------------------------------------------------------------------------
InRam(t) == pc[t] \in {"downld_word", "upload_word", "put"}
InMsm(t) == pc[t] = "msm_put"
InMdio(t) == pc[t] \in {"mdio_scan", "mdio_ident", "mdio_read", "mdio_write"}
Inside(t, s) ==
    (s = "RAM" /\ InRam(t)) \/ (s = "MSM" /\ InMsm(t)) \/ (s = "MDIO" /\ InMdio(t))

Steps ==
    {"idle", "downld", "downld_again", "downld_word", "upload", "upload_word", "put",
     "msm", "msm_put", "phy", "scan", "mdio_scan", "scanned", "ident", "mdio_ident",
     "idented", "read", "mdio_read", "write", "mdio_write", "written"}

\* The values the semaphores, the threads and the PHY calls range over.
TypeOK ==
    /\ jobs \in JobSets
    /\ sem \in [Sems -> Threads \cup {Fw, Free}]
    /\ pc \in [Threads -> Steps] /\ err \in [Threads -> BOOLEAN]
    /\ fw \in Sems \cup {"idle", "hung"}
    /\ forced \in BOOLEAN /\ misread \in BOOLEAN

\* The driver never loses the memory's semaphore: who holds it is inside a
\* transfer, although the last look of a wait may get it unnoticed
\* (hw_atl_utils_fw_downld_dwords).  The MSM and MDIO semaphores, whose timeout
\* paths release nothing, can stay taken (hw_atl_msm_read, aq_phy_read_reg).
RamReturned == \A t \in Threads : sem["RAM"] = t => InRam(t)

\* Two threads, or a thread and the firmware, are inside one semaphore's
\* section only after a download took it away from its holder.
OneInside ==
    ~forced => \A s \in Sems :
        /\ \A t \in Threads : Inside(t, s) => sem[s] = t
        /\ fw = s => sem[s] = Fw

\* The semaphores do what they are for: one at a time is inside, and the
\* memory's is held by nobody who is outside.
SemaphoresHold == RamReturned /\ OneInside

\* A download that reports success has the words of one state of the mailbox,
\* and an upload has left its own words, unless a semaphore was taken away
\* meanwhile; a transfer whose waits timed out does not report success.
WholeTransfer ==
    \A t \in Threads : ~forced /\ ~err[t] /\ pc[t] = "put" =>
        \/ buf[t] = <<>> /\ \A a \in RpcArea : ram[a] = t
        \/ Len(buf[t]) = W /\ \A i \in 1 .. W : buf[t][i] = ram[i]

\* The PTP workaround changes nothing in the PHY but the PTP bit, and finds
\* the PHY where it is, unless a read gave up or MDIO was busy too long: then
\* aq_phy_disable_ptp writes back what the failed read returned.
OnlyThePtpBit ==
    ~misread => /\ \A i \in DOMAIN phy : phy[i].rest = i
                /\ \A t \in Threads : pc[t] \in {"read", "mdio_read", "write", "mdio_write"}
                       => phy_id = PhyAt

\* A firmware that dies with the memory's semaphore does not keep it: some
\* download runs out of tries and releases it (hw_atl_utils_fw_downld_dwords).
RamRecovers ==
    fw = "hung" /\ sem["RAM"] = Fw /\ (\E t \in Threads : "downld" \in jobs[t])
    ~> sem["RAM"] # Fw
=============================================================================

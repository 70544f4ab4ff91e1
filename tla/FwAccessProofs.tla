--------------------------- MODULE FwAccessProofs ---------------------------
(***************************************************************************)
(* The semaphores of the firmware exclude, for any number of threads that  *)
(* make any calls, and for transfers of any length; the PTP workaround     *)
(* changes the PTP bit alone.                                              *)
(***************************************************************************)
EXTENDS FwAccess, TLAPS

Inv == TypeOK /\ RamReturned /\ OneInside

LEMMA InitInv == Init => Inv
<1> SUFFICES ASSUME Init PROVE Inv
  OBVIOUS
<1>1. TypeOK
  BY AccessAssumption DEF Init, TypeOK, Sems, Steps
<1>2. RamReturned /\ OneInside
  BY AccessAssumption DEF Init, RamReturned, OneInside, Inside, InRam, InMsm, InMdio, Sems
<1> QED BY <1>1, <1>2 DEF Inv

\* The section a step of the program lies in.
Section(l) ==
    CASE l \in {"downld_word", "upload_word", "put"} -> "RAM"
      [] l = "msm_put" -> "MSM"
      [] l \in {"mdio_scan", "mdio_ident", "mdio_read", "mdio_write"} -> "MDIO"
      [] OTHER -> "none"

LEMMA InsideIs ==
    /\ \A t \in Threads : InRam(t) <=> Section(pc[t]) = "RAM"
    /\ \A t \in Threads, s \in Sems : Inside(t, s) <=> Section(pc[t]) = s
    /\ \A t \in Threads : InRam(t)' <=> Section(pc'[t]) = "RAM"
    /\ \A t \in Threads, s \in Sems : Inside(t, s)' <=> Section(pc'[t]) = s
  BY DEF Section, Inside, InRam, InMsm, InMdio, Sems

\* Inv in terms of sections.
LEMMA InvIs ==
    /\ Inv <=> /\ TypeOK
               /\ \A t \in Threads : sem["RAM"] = t => Section(pc[t]) = "RAM"
               /\ ~forced => \A s \in Sems :
                     /\ \A t \in Threads : Section(pc[t]) = s => sem[s] = t
                     /\ fw = s => sem[s] = Fw
    /\ Inv' <=> /\ TypeOK'
                /\ \A t \in Threads : sem'["RAM"] = t => Section(pc'[t]) = "RAM"
                /\ ~forced' => \A s \in Sems :
                      /\ \A t \in Threads : Section(pc'[t]) = s => sem'[s] = t
                      /\ fw' = s => sem'[s] = Fw
  BY InsideIs, Zenon DEF Inv, RamReturned, OneInside

\* What a step of thread t leaves to the others.
Moves(t, l) ==
    /\ Goto(t, l) /\ UNCHANGED <<jobs, fw>>
    /\ err' \in [Threads -> BOOLEAN] /\ misread' \in BOOLEAN

LEMMA MoveType ==
    ASSUME TypeOK, NEW t \in Threads, NEW l \in Steps, Moves(t, l),
           sem' \in [Sems -> Threads \cup {Fw, Free}], forced' \in BOOLEAN
    PROVE  TypeOK' /\ pc'[t] = l /\ \A u \in Threads \ {t} : pc'[u] = pc[u]
  BY DEF TypeOK, Moves, Goto

\* A step that stays in its section, or outside of all.
LEMMA StayInv ==
    ASSUME Inv, NEW t \in Threads, NEW l \in Steps, Moves(t, l), UNCHANGED <<sem, forced>>,
           Section(l) = Section(pc[t])
    PROVE  Inv'
<1>1. TypeOK' /\ pc'[t] = l /\ \A u \in Threads \ {t} : pc'[u] = pc[u]
  BY MoveType DEF Inv, TypeOK
<1>2. \A u \in Threads : Section(pc'[u]) = Section(pc[u])
  BY <1>1
<1> QED BY <1>1, <1>2, InvIs DEF Moves

\* A step that takes a semaphore and enters its section.
LEMMA TakeInv ==
    ASSUME Inv, NEW t \in Threads, NEW l \in Steps, NEW s \in Sems, Moves(t, l), Take(t, s),
           UNCHANGED forced, Section(pc[t]) = "none", Section(l) = s
    PROVE  Inv'
<1>1. sem' \in [Sems -> Threads \cup {Fw, Free}] /\ sem'[s] = t /\ sem[s] = Free
      /\ \A r \in Sems \ {s} : sem'[r] = sem[r]
  BY DEF Take, Inv, TypeOK
<1>2. TypeOK' /\ pc'[t] = l /\ \A u \in Threads \ {t} : pc'[u] = pc[u]
  BY <1>1, MoveType DEF Inv, TypeOK
<1>3. "RAM" \in Sems
  BY DEF Sems
<1>4. \A u \in Threads : sem'["RAM"] = u => Section(pc'[u]) = "RAM"
  BY <1>1, <1>2, <1>3, InvIs
<1>5. ASSUME ~forced', NEW r \in Sems
      PROVE  /\ \A u \in Threads : Section(pc'[u]) = r => sem'[r] = u
             /\ fw' = r => sem'[r] = Fw
  <2>1. \A u \in Threads : Section(pc[u]) # s /\ fw # s
    BY <1>1, <1>5, InvIs, AccessAssumption
  <2> QED BY <1>1, <1>2, <1>5, <2>1, InvIs DEF Moves
<1> QED BY <1>2, <1>4, <1>5, InvIs

\* A semaphore other than the memory's got unnoticed.
LEMMA LoseInv ==
    ASSUME Inv, NEW t \in Threads, NEW l \in Steps, NEW s \in Sems \ {"RAM"}, Moves(t, l),
           Take(t, s), UNCHANGED forced, Section(pc[t]) = "none", Section(l) = "none"
    PROVE  Inv'
<1>1. sem' \in [Sems -> Threads \cup {Fw, Free}] /\ sem'[s] = t /\ sem[s] = Free
      /\ \A r \in Sems \ {s} : sem'[r] = sem[r]
  BY DEF Take, Inv, TypeOK
<1>2. TypeOK' /\ pc'[t] = l /\ \A u \in Threads \ {t} : pc'[u] = pc[u]
  BY <1>1, MoveType DEF Inv, TypeOK
<1>3. "RAM" \in Sems \ {s} /\ "none" \notin Sems
  BY DEF Sems
<1>4. \A u \in Threads : sem'["RAM"] = u => Section(pc'[u]) = "RAM"
  BY <1>1, <1>2, <1>3, InvIs
<1>5. ASSUME ~forced', NEW r \in Sems
      PROVE  /\ \A u \in Threads : Section(pc'[u]) = r => sem'[r] = u
             /\ fw' = r => sem'[r] = Fw
  <2>1. \A u \in Threads : Section(pc[u]) # s /\ fw # s
    BY <1>1, <1>5, InvIs, AccessAssumption
  <2> QED BY <1>1, <1>2, <1>3, <1>5, <2>1, InvIs DEF Moves
<1> QED BY <1>2, <1>4, <1>5, InvIs

\* A step that leaves its section and releases the semaphore.
LEMMA ReleaseInv ==
    ASSUME Inv, NEW t \in Threads, NEW l \in Steps, NEW s \in Sems, Moves(t, l), Release(s),
           UNCHANGED forced, Section(pc[t]) = s, Section(l) = "none"
    PROVE  Inv'
<1>1. sem' \in [Sems -> Threads \cup {Fw, Free}] /\ sem'[s] = Free
      /\ \A r \in Sems \ {s} : sem'[r] = sem[r]
  BY DEF Release, Inv, TypeOK
<1>2. TypeOK' /\ pc'[t] = l /\ \A u \in Threads \ {t} : pc'[u] = pc[u]
  BY <1>1, MoveType DEF Inv, TypeOK
<1>3. "RAM" \in Sems /\ "none" \notin Sems
  BY DEF Sems
<1>4. \A u \in Threads : sem'["RAM"] = u => Section(pc'[u]) = "RAM"
  <2> TAKE u \in Threads
  <2> HAVE sem'["RAM"] = u
  <2>1. s # "RAM"
    BY <1>1, AccessAssumption
  <2>2. sem["RAM"] = u
    BY <1>1, <1>3, <2>1
  <2>3. Section(pc[u]) = "RAM"
    BY <2>2, InvIs
  <2> QED BY <1>2, <2>1, <2>3
<1>5. ASSUME ~forced', NEW r \in Sems
      PROVE  /\ \A u \in Threads : Section(pc'[u]) = r => sem'[r] = u
             /\ fw' = r => sem'[r] = Fw
  <2>1. sem[s] = t
    BY <1>5, InvIs
  <2>2. fw # s /\ \A u \in Threads \ {t} : Section(pc[u]) # s
    BY <1>5, <2>1, InvIs, AccessAssumption
  <2> QED BY <1>1, <1>2, <1>3, <1>5, <2>2, InvIs DEF Moves
<1> QED BY <1>2, <1>4, <1>5, InvIs

\* A call begins outside of every section.
LEMMA CallInv ==
    ASSUME Inv, NEW t \in Threads, NEW j \in jobs[t], Call(t, j)
    PROVE  Inv'
<1>1. j \in {"downld", "upload", "msm", "phy"}
  BY AccessAssumption DEF Inv, TypeOK
<1>2. Moves(t, j) /\ UNCHANGED <<sem, forced>> /\ pc[t] = "idle"
  BY DEF Call, Moves, Inv, TypeOK, fwVars, phyVars
<1>3. j \in Steps /\ Section(j) = Section(pc[t])
  BY <1>1, <1>2 DEF Section, Steps
<1> QED BY <1>2, <1>3, StayInv

\* Transfers of memory.
LEMMA RamInv ==
    ASSUME Inv, NEW t \in Threads,
           \/ DownldGot(t) \/ DownldForce(t) \/ DownldAgain(t) \/ DownldWord(t)
           \/ UploadGet(t) \/ UploadWord(t) \/ RamPut(t)
    PROVE  Inv'
<1> USE DEF fwVars, phyVars, ramVars
<1>0. /\ {"idle", "downld_again", "downld_word", "upload_word", "put"} \subseteq Steps
      /\ "RAM" \in Sems
      /\ \A l \in {"idle", "downld", "downld_again", "upload"} : Section(l) = "none"
      /\ \A l \in {"downld_word", "upload_word", "put"} : Section(l) = "RAM"
  BY DEF Steps, Sems, Section
<1>1. CASE DownldGot(t)
  <2>1. Moves(t, "downld_word") /\ Take(t, "RAM") /\ UNCHANGED forced /\ pc[t] = "downld"
    BY <1>1 DEF DownldGot, Moves, Inv, TypeOK
  <2> QED BY <1>0, <2>1, TakeInv
<1>2. CASE DownldForce(t)
  <2>1. /\ Moves(t, "downld_again") /\ pc[t] = "downld" /\ Release("RAM")
        /\ forced' = (forced \/ sem["RAM"] # Free)
    BY <1>2 DEF DownldForce, Moves, Failed, Inv, TypeOK
  <2>2. sem' \in [Sems -> Threads \cup {Fw, Free}] /\ sem'["RAM"] = Free
        /\ \A r \in Sems \ {"RAM"} : sem'[r] = sem[r]
    BY <1>0, <2>1 DEF Release, Inv, TypeOK
  <2>3. forced' \in BOOLEAN
    BY <2>1 DEF Inv, TypeOK
  <2>4. TypeOK' /\ pc'[t] = "downld_again" /\ \A u \in Threads \ {t} : pc'[u] = pc[u]
    BY <1>0, <2>1, <2>2, <2>3, MoveType DEF Inv
  <2>5. \A u \in Threads : Section(pc'[u]) = Section(pc[u])
    BY <1>0, <2>1, <2>4
  <2>6. ~forced' => ~forced /\ sem' = sem
    <3>1. SUFFICES ASSUME ~forced' PROVE ~forced /\ sem' = sem
      OBVIOUS
    <3>2. ~forced /\ sem["RAM"] = Free
      BY <2>1, <3>1
    <3> QED BY <2>1, <3>2 DEF Release, Inv, TypeOK
  <2>7. ~forced' => \A s \in Sems :
            /\ \A u \in Threads : Section(pc'[u]) = s => sem'[s] = u
            /\ fw' = s => sem'[s] = Fw
    BY <2>1, <2>5, <2>6, InvIs DEF Moves
  <2>8. \A u \in Threads : sem'["RAM"] = u => Section(pc'[u]) = "RAM"
    BY <2>2, AccessAssumption
  <2> QED BY <2>4, <2>7, <2>8, InvIs
<1>3. CASE DownldAgain(t)
  <2>1. pc[t] = "downld_again" /\ UNCHANGED <<jobs, fw, forced, misread>>
        /\ err' \in [Threads -> BOOLEAN]
    BY <1>3 DEF DownldAgain, Inv, TypeOK
  <2>2. misread' \in BOOLEAN
    BY <2>1 DEF Inv, TypeOK
  <2>3. CASE sem["RAM"] = Free
    <3>1. Moves(t, "put") /\ Take(t, "RAM")
      BY <1>3, <2>1, <2>2, <2>3 DEF DownldAgain, Moves
    <3> QED BY <1>0, <2>1, <3>1, TakeInv
  <2>4. CASE sem["RAM"] # Free
    <3>1. Moves(t, "idle") /\ UNCHANGED sem
      BY <1>3, <2>1, <2>2, <2>4 DEF DownldAgain, Moves
    <3> QED BY <1>0, <2>1, <3>1, StayInv
  <2> QED BY <2>3, <2>4
<1>4. CASE DownldWord(t)
  <2>1. pc[t] = "downld_word" /\ UNCHANGED <<jobs, sem, fw, forced, misread>>
        /\ err' \in [Threads -> BOOLEAN]
    BY <1>4 DEF DownldWord, Failed, Inv, TypeOK
  <2>2. PICK l \in {"put", "downld_word"} : Goto(t, l)
    BY <1>4 DEF DownldWord
  <2>3. Moves(t, l)
    BY <2>1, <2>2 DEF Moves, Inv, TypeOK
  <2> QED BY <1>0, <2>1, <2>2, <2>3, StayInv
<1>5. CASE UploadGet(t)
  <2>1. pc[t] = "upload" /\ UNCHANGED <<jobs, err, fw, forced, misread>>
    BY <1>5 DEF UploadGet
  <2>2. err' \in [Threads -> BOOLEAN] /\ misread' \in BOOLEAN
    BY <2>1 DEF Inv, TypeOK
  <2>3. CASE sem["RAM"] = Free
    <3>1. Moves(t, "upload_word") /\ Take(t, "RAM")
      BY <1>5, <2>1, <2>2, <2>3 DEF UploadGet, Moves
    <3> QED BY <1>0, <2>1, <3>1, TakeInv
  <2>4. CASE sem["RAM"] # Free
    <3>1. Moves(t, "idle") /\ UNCHANGED sem
      BY <1>5, <2>1, <2>2, <2>4 DEF UploadGet, Moves
    <3> QED BY <1>0, <2>1, <3>1, StayInv
  <2> QED BY <2>3, <2>4
<1>6. CASE UploadWord(t)
  <2>1. pc[t] = "upload_word" /\ UNCHANGED <<jobs, sem, fw, forced, misread>>
        /\ err' \in [Threads -> BOOLEAN]
    BY <1>6 DEF UploadWord, Failed, Inv, TypeOK
  <2>2. PICK l \in {"put", "upload_word"} : Goto(t, l)
    BY <1>6 DEF UploadWord
  <2>3. Moves(t, l)
    BY <2>1, <2>2 DEF Moves, Inv, TypeOK
  <2> QED BY <1>0, <2>1, <2>2, <2>3, StayInv
<1>7. CASE RamPut(t)
  <2>1. Moves(t, "idle") /\ Release("RAM") /\ UNCHANGED forced /\ pc[t] = "put"
    BY <1>7 DEF RamPut, Moves, Inv, TypeOK
  <2> QED BY <1>0, <2>1, ReleaseInv
<1> QED BY <1>1, <1>2, <1>3, <1>4, <1>5, <1>6, <1>7

\* The MSM register and the PHY.
LEMMA MsmInv ==
    ASSUME Inv, NEW t \in Threads, MsmGet(t) \/ MsmPut(t)
    PROVE  Inv'
<1> USE DEF fwVars, phyVars, ramVars
<1>0. /\ {"idle", "msm_put"} \subseteq Steps /\ "MSM" \in Sems \ {"RAM"}
      /\ Section("idle") = "none" /\ Section("msm") = "none" /\ Section("msm_put") = "MSM"
  BY DEF Steps, Sems, Section
<1>1. UNCHANGED <<jobs, fw, forced, misread, err>>
  BY DEF MsmGet, MsmPut
<1>2. \A l : Goto(t, l) => Moves(t, l)
  BY <1>1 DEF Moves, Inv, TypeOK
<1>3. CASE MsmGet(t)
  <2>1. pc[t] = "msm"
    BY <1>3 DEF MsmGet
  <2>2. CASE Take(t, "MSM") /\ Goto(t, "msm_put")
    BY <1>0, <1>1, <1>2, <2>1, <2>2, TakeInv
  <2>3. CASE Goto(t, "idle") /\ UNCHANGED sem
    BY <1>0, <1>1, <1>2, <2>1, <2>3, StayInv
  <2>4. CASE Goto(t, "idle") /\ Take(t, "MSM")
    BY <1>0, <1>1, <1>2, <2>1, <2>4, LoseInv
  <2> QED BY <1>3, <2>2, <2>3, <2>4 DEF MsmGet
<1>4. CASE MsmPut(t)
  <2>1. pc[t] = "msm_put" /\ Release("MSM") /\ Goto(t, "idle")
    BY <1>4 DEF MsmPut
  <2> QED BY <1>0, <1>1, <1>2, <2>1, ReleaseInv
<1> QED BY <1>3, <1>4

LEMMA PhyInv ==
    ASSUME Inv, NEW t \in Threads, PhyStep(t)
    PROVE  Inv'
<1> DEFINE Out == {"idle", "phy", "scan", "scanned", "ident", "idented", "read", "write",
                   "written"}
           In == {"mdio_scan", "mdio_ident", "mdio_read", "mdio_write"}
<1> USE DEF fwVars, phyVars, ramVars
<1>0. /\ Out \cup In \subseteq Steps /\ "MDIO" \in Sems \ {"RAM"}
      /\ \A l \in Out : Section(l) = "none"
      /\ \A l \in In : Section(l) = "MDIO"
  BY DEF Steps, Sems, Section
<1>1. ASSUME PhyInit(t) \/ PhyScan(t) \/ PhyIdent(t) \/ PhyNext(t) PROVE Inv'
  <2>1. /\ UNCHANGED <<jobs, sem, fw, forced, misread, err>> /\ pc[t] \in Out
        /\ \E l \in Out : Goto(t, l)
    BY <1>1 DEF PhyInit, PhyScan, PhyIdent, PhyNext
  <2>2. PICK l \in Out : Goto(t, l)
    BY <2>1
  <2>3. Moves(t, l)
    BY <2>1, <2>2 DEF Moves, Inv, TypeOK
  <2> HIDE DEF Out, In
  <2> QED BY <1>0, <2>1, <2>2, <2>3, StayInv
<1>2. ASSUME PhyWrite(t) PROVE Inv'
  <2>1. /\ UNCHANGED <<jobs, fw, forced, err>> /\ misread' \in BOOLEAN
        /\ pc[t] = "mdio_write" /\ Goto(t, "written") /\ Release("MDIO")
    BY <1>2 DEF PhyWrite, Inv, TypeOK
  <2>2. Moves(t, "written")
    BY <2>1 DEF Moves, Inv, TypeOK
  <2> QED BY <1>0, <2>1, <2>2, ReleaseInv
<1>3. ASSUME NEW from \in Out, NEW access \in In, NEW without \in Out,
             PhyGet(t, from, access, without)
      PROVE  Inv'
  <2>1. pc[t] = from /\ UNCHANGED <<jobs, fw, forced, err>> /\ misread' \in BOOLEAN
    BY <1>3 DEF PhyGet, Inv, TypeOK
  <2>2. \A l : Goto(t, l) => Moves(t, l)
    BY <2>1 DEF Moves, Inv, TypeOK
  <2> HIDE DEF Out, In
  <2>3. CASE Take(t, "MDIO") /\ Goto(t, access)
    BY <1>0, <2>1, <2>2, <2>3, TakeInv
  <2>4. CASE Goto(t, without) /\ UNCHANGED sem
    BY <1>0, <2>1, <2>2, <2>4, StayInv
  <2>5. CASE Goto(t, without) /\ Take(t, "MDIO")
    BY <1>0, <2>1, <2>2, <2>5, LoseInv
  <2> QED BY <1>3, <2>3, <2>4, <2>5 DEF PhyGet
<1>4. ASSUME NEW from \in In, NEW to \in Out, NEW i, PhyRead(t, from, to, i)
      PROVE  Inv'
  <2>1. /\ UNCHANGED <<jobs, fw, forced, err>> /\ misread' \in BOOLEAN
        /\ pc[t] = from /\ Goto(t, to) /\ Release("MDIO")
    BY <1>4 DEF PhyRead, Inv, TypeOK
  <2>2. Moves(t, to)
    BY <2>1 DEF Moves, Inv, TypeOK
  <2> HIDE DEF Out, In
  <2> QED BY <1>0, <2>1, <2>2, ReleaseInv
<1> QED BY <1>1, <1>2, <1>3, <1>4 DEF PhyStep

LEMMA FwInv ==
    ASSUME Inv, FwStep
    PROVE  Inv'
<1> USE AccessAssumption DEF Inv, TypeOK, Release, Sems, fwVars,
        phyVars, ramVars, RamReturned, OneInside, Inside, InRam, InMsm, InMdio
<1>1. ASSUME NEW s \in Sems, FwTake(s) PROVE Inv'
  BY <1>1 DEF FwTake
<1>2. CASE FwWord
  BY <1>2 DEF FwWord
<1>3. CASE FwPut
  BY <1>3 DEF FwPut
<1>4. CASE FwHang
  BY <1>4 DEF FwHang
<1> QED BY <1>1, <1>2, <1>3, <1>4 DEF FwStep

LEMMA NextInv == Inv /\ [Next]_vars => Inv'
<1> SUFFICES ASSUME Inv, [Next]_vars PROVE Inv'
  OBVIOUS
<1>1. ASSUME NEW t \in Threads, Step(t) PROVE Inv'
  BY <1>1, RamInv, MsmInv, PhyInv DEF Step
<1>2. ASSUME NEW t \in Threads, NEW j \in jobs[t], Call(t, j) PROVE Inv'
  BY <1>2, CallInv
<1>3. CASE FwStep
  BY <1>3, FwInv
<1>4. CASE UNCHANGED vars
  BY <1>4 DEF vars, fwVars, phyVars, ramVars, Inv, TypeOK, RamReturned, OneInside, Inside,
              InRam, InMsm, InMdio
<1> QED BY <1>1, <1>2, <1>3, <1>4 DEF Next

-----------------------------------------------------------------------------
(* What a transfer in the middle has done so far.                           *)

Vals == Nat \cup Threads \cup {Fw}

DataType ==
    /\ buf \in [Threads -> Seq(Vals)]
    /\ addr \in 1 .. NoAddr
    /\ ram \in [1 .. 2 * W -> Vals]
    /\ fwn \in Nat /\ fwv \in Nat

Progress(t) ==
    /\ pc[t] = "downld" => buf[t] = <<>>
    /\ pc[t] = "downld_word" =>
          /\ Len(buf[t]) < W /\ addr = Len(buf[t]) + 1
          /\ \A i \in 1 .. Len(buf[t]) : buf[t][i] = ram[i]
    /\ pc[t] = "upload" => buf[t] \in Seq({t}) /\ Len(buf[t]) = W
    /\ pc[t] = "upload_word" =>
          /\ buf[t] \in Seq({t}) /\ Len(buf[t]) \in 1 .. W
          /\ addr = 2 * W + 1 - Len(buf[t])
          /\ \A a \in W + 1 .. addr - 1 : ram[a] = t
    /\ pc[t] = "put" /\ ~err[t] =>
          \/ buf[t] = <<>> /\ \A a \in RpcArea : ram[a] = t
          \/ Len(buf[t]) = W /\ \A i \in 1 .. W : buf[t][i] = ram[i]

\* Once a semaphore was taken away nothing is said of the words.
TransferInv == ~forced => DataType /\ \A t \in Threads : Progress(t)

LEMMA ForcedStays == forced /\ [Next]_vars => forced'
  BY DEF Next, Call, Step, PhyStep, FwStep, DownldGot, DownldForce, DownldAgain, DownldWord,
         UploadGet, UploadWord, RamPut, MsmGet, MsmPut, PhyInit, PhyScan, PhyIdent,
         PhyWrite, PhyNext, PhyGet, PhyRead, FwTake, FwWord, FwPut, FwHang, vars

\* One thread is inside the memory's section, and nobody while it is free.
LEMMA OneInRam ==
    ASSUME Inv, ~forced, NEW t \in Threads, NEW u \in Threads, u # t,
           sem["RAM"] \in {t, Free, Fw}
    PROVE  ~InRam(u)
  BY AccessAssumption DEF Inv, OneInside, Inside, Sems

\* A thread that is not inside the section does not depend on the memory.
LEMMA Outside ==
    ASSUME NEW u \in Threads, Progress(u), ~InRam(u),
           pc'[u] = pc[u], buf'[u] = buf[u]
    PROVE  Progress(u)'
  BY DEF Progress, InRam

\* Nor does any other thread's step reach one that is.
LEMMA Frame ==
    ASSUME NEW u \in Threads, Progress(u),
           pc'[u] = pc[u], buf'[u] = buf[u], err'[u] = err[u], UNCHANGED <<ram, addr>>
    PROVE  Progress(u)'
  BY DEF Progress

\* A step that touches no thread and no word.
LEMMA Untouched ==
    ASSUME TransferInv, ~forced' => ~forced, UNCHANGED <<pc, err, buf, addr, ram>>,
           ~forced => fwn' \in Nat /\ fwv' \in Nat
    PROVE  TransferInv'
<1> SUFFICES ASSUME ~forced' PROVE DataType' /\ \A u \in Threads : Progress(u)'
  BY DEF TransferInv
<1>1. DataType'
  BY DEF TransferInv, DataType
<1>2. ASSUME NEW u \in Threads PROVE Progress(u)'
  <2>1. Progress(u)
    BY DEF TransferInv
  <2> QED BY <2>1, Frame
<1> QED BY <1>1, <1>2

LEMMA InitTransfer == Init => TransferInv
<1> SUFFICES ASSUME Init PROVE TransferInv
  OBVIOUS
<1>1. DataType
  <2>1. MboxArea \cup RpcArea = 1 .. 2 * W
    BY AccessAssumption DEF MboxArea, RpcArea
  <2>2. ram \in [1 .. 2 * W -> Vals]
    BY <2>1 DEF Init, Vals
  <2>3. buf \in [Threads -> Seq(Vals)]
    BY DEF Init
  <2> QED BY <2>2, <2>3, AccessAssumption DEF Init, DataType, NoAddr
<1>2. \A t \in Threads : Progress(t)
  BY DEF Init, Progress
<1> QED BY <1>1, <1>2 DEF TransferInv

LEMMA CallTransfer ==
    ASSUME Inv, TransferInv, ~forced, NEW t \in Threads, NEW j \in jobs[t], Call(t, j)
    PROVE  TransferInv'
<1> DEFINE words == [i \in 1 .. W |-> t]
<1>1. j \in {"downld", "upload", "msm", "phy"}
  BY AccessAssumption DEF Inv, TypeOK
<1>2. words \in Seq({t}) /\ words \in Seq(Vals) /\ Len(words) = W
  BY AccessAssumption DEF Vals
<1>3. buf' = [buf EXCEPT ![t] = IF j = "upload" THEN words ELSE <<>>]
  BY DEF Call
<1>4. UNCHANGED <<err, addr, ram, fwn, fwv, forced>> /\ pc' = [pc EXCEPT ![t] = j]
  BY DEF Call, Goto, fwVars
<1> HIDE DEF words
<1>5. DataType'
  BY <1>2, <1>3, <1>4 DEF TransferInv, DataType
<1>6. ASSUME ~forced', NEW u \in Threads PROVE Progress(u)'
  <2>1. Progress(u)
    BY <1>4, <1>6 DEF TransferInv
  <2>2. CASE u # t
    BY <1>3, <1>4, <2>1, <2>2, Frame DEF Inv, TypeOK, TransferInv, DataType
  <2>3. CASE u = t
    <3>1. pc'[u] = j /\ buf'[u] = IF j = "upload" THEN words ELSE <<>>
      BY <1>3, <1>4, <2>3 DEF Inv, TypeOK, TransferInv, DataType
    <3> QED BY <1>1, <1>2, <2>3, <3>1 DEF Progress
  <2> QED BY <2>2, <2>3
<1> QED BY <1>5, <1>6 DEF TransferInv

\* Steps that leave the memory alone: the thread is in none of the places
\* Progress speaks of when they are done.
LEMMA ElseTransfer ==
    ASSUME Inv, TransferInv, ~forced, NEW t \in Threads, NEW l \in Steps, Goto(t, l),
           l \notin {"downld", "downld_word", "upload", "upload_word", "put"},
           UNCHANGED <<err, ramVars, fwVars, forced>>
    PROVE  TransferInv'
<1>1. DataType'
  BY DEF TransferInv, DataType, ramVars, fwVars
<1>2. ASSUME ~forced', NEW u \in Threads PROVE Progress(u)'
  <2>1. CASE u # t
    BY <1>2, <2>1, Frame DEF Inv, TypeOK, TransferInv, Goto, ramVars
  <2>2. CASE u = t
    BY <2>2 DEF Goto, Inv, TypeOK, Progress
  <2> QED BY <2>1, <2>2
<1> QED BY <1>1, <1>2 DEF TransferInv

LEMMA OtherTransfer ==
    ASSUME Inv, TransferInv, ~forced, NEW t \in Threads, MsmGet(t) \/ MsmPut(t) \/ PhyStep(t)
    PROVE  TransferInv'
<1> DEFINE Away == {"idle", "msm_put", "scan", "mdio_scan", "scanned", "ident",
                    "mdio_ident", "idented", "read", "mdio_read", "write", "mdio_write",
                    "written"}
<1>1. UNCHANGED <<err, ramVars, fwVars, forced>>
  BY DEF MsmGet, MsmPut, PhyStep, PhyInit, PhyScan, PhyIdent, PhyWrite, PhyNext, PhyGet,
         PhyRead
<1>2. \E l \in Away : Goto(t, l)
  <2>1. ASSUME MsmGet(t) \/ MsmPut(t) PROVE \E l \in Away : Goto(t, l)
    BY <2>1 DEF MsmGet, MsmPut
  <2>2. ASSUME PhyInit(t) \/ PhyScan(t) \/ PhyIdent(t) \/ PhyWrite(t) \/ PhyNext(t)
        PROVE  \E l \in Away : Goto(t, l)
    BY <2>2 DEF PhyInit, PhyScan, PhyIdent, PhyWrite, PhyNext
  <2>3. ASSUME NEW from, NEW access \in Away, NEW without \in Away,
               PhyGet(t, from, access, without)
        PROVE  \E l \in Away : Goto(t, l)
    BY <2>3 DEF PhyGet
  <2>4. ASSUME NEW from, NEW to \in Away, NEW i, PhyRead(t, from, to, i)
        PROVE  \E l \in Away : Goto(t, l)
    BY <2>4 DEF PhyRead
  <2> QED BY <2>1, <2>2, <2>3, <2>4 DEF PhyStep
<1>3. PICK l \in Away : Goto(t, l)
  BY <1>2
<1> QED BY <1>1, <1>3, ElseTransfer DEF Steps

LEMMA FwTransfer ==
    ASSUME Inv, TransferInv, ~forced, FwStep
    PROVE  TransferInv'
<1>1. ASSUME NEW s \in Sems, FwTake(s) PROVE TransferInv'
  <2>1. UNCHANGED <<pc, err, buf, addr, ram, forced>>
    BY <1>1 DEF FwTake, ramVars
  <2>2. fwn' \in Nat /\ fwv' \in Nat
    BY <1>1, AccessAssumption DEF FwTake, NoAddr, TransferInv, DataType
  <2> QED BY <2>1, <2>2, Untouched
<1>2. CASE FwWord
  <2>1. fwn \in 1 .. W /\ UNCHANGED <<pc, err, buf, addr, forced, fwv>> /\ fwn' = fwn + 1
    BY <1>2 DEF FwWord, MboxArea
  <2>2. ram' \in [1 .. 2 * W -> Vals]
    BY <1>2, <2>1 DEF FwWord, TransferInv, DataType, Vals
  <2>3. DataType'
    BY <2>1, <2>2 DEF TransferInv, DataType
  <2>4. ASSUME ~forced', NEW u \in Threads PROVE Progress(u)'
    <3>1. ~InRam(u)
      BY <1>2, <2>1, <2>4, AccessAssumption DEF FwWord, Inv, OneInside, Inside, Sems
    <3> QED BY <2>1, <2>4, <3>1, Outside DEF TransferInv
  <2> QED BY <2>3, <2>4 DEF TransferInv
<1>3. CASE FwPut
  <2>1. UNCHANGED <<pc, err, buf, addr, ram>>
    BY <1>3 DEF FwPut, ramVars
  <2>2. fwn' \in Nat /\ fwv' \in Nat
    BY <1>3, AccessAssumption DEF FwPut, NoAddr, TransferInv, DataType
  <2>3. ~forced' => ~forced
    BY <1>3 DEF FwPut
  <2> QED BY <2>1, <2>2, <2>3, Untouched
<1>4. CASE FwHang
  <2>1. UNCHANGED <<pc, err, buf, addr, ram, forced, fwn, fwv>>
    BY <1>4 DEF FwHang, ramVars
  <2>2. fwn' \in Nat /\ fwv' \in Nat
    BY <2>1 DEF TransferInv, DataType
  <2> QED BY <2>1, <2>2, Untouched
<1> QED BY <1>1, <1>2, <1>3, <1>4 DEF FwStep

\* The memory's own steps.  The others are outside while t holds or gets the
\* semaphore.
LEMMA DownldTransfer ==
    ASSUME Inv, TransferInv, ~forced, NEW t \in Threads,
           DownldGot(t) \/ DownldForce(t) \/ DownldAgain(t)
    PROVE  TransferInv'
<1>1. CASE DownldGot(t)
  <2>1. /\ sem["RAM"] = Free /\ pc[t] = "downld" /\ addr' = 1
        /\ pc' = [pc EXCEPT ![t] = "downld_word"] /\ UNCHANGED <<err, buf, ram, fwn, fwv, forced>>
    BY <1>1 DEF DownldGot, Take, Goto, fwVars
  <2>2. DataType'
    BY <2>1, AccessAssumption DEF TransferInv, DataType, NoAddr
  <2>3. ASSUME ~forced', NEW u \in Threads PROVE Progress(u)'
    <3>1. CASE u # t
      BY <2>1, <2>3, <3>1, OneInRam, Outside DEF TransferInv, Inv, TypeOK
    <3>2. CASE u = t
      <4>1. pc'[t] = "downld_word" /\ buf'[t] = <<>> /\ addr' = 1
        BY <2>1, <2>3 DEF TransferInv, Inv, TypeOK, Progress
      <4>2. Len(buf'[t]) = 0
        BY <4>1
      <4> QED BY <3>2, <4>1, <4>2, AccessAssumption DEF Progress
    <3> QED BY <3>1, <3>2
  <2> QED BY <2>2, <2>3 DEF TransferInv
<1>2. CASE DownldForce(t)
  <2>1. /\ pc' = [pc EXCEPT ![t] = "downld_again"] /\ UNCHANGED <<buf, addr, ram, fwn, fwv>>
        /\ err' = [err EXCEPT ![t] = TRUE]
    BY <1>2 DEF DownldForce, Goto, Failed, ramVars, fwVars
  <2>2. ~forced' => ~forced
    BY <1>2 DEF DownldForce
  <2>3. DataType'
    BY <2>1 DEF TransferInv, DataType
  <2>4. ASSUME ~forced', NEW u \in Threads PROVE Progress(u)'
    <3>1. CASE u # t
      BY <2>1, <2>2, <2>4, <3>1, Frame DEF TransferInv, Inv, TypeOK
    <3>2. CASE u = t
      BY <2>1, <3>2 DEF Progress, Inv, TypeOK
    <3> QED BY <3>1, <3>2
  <2> QED BY <2>3, <2>4 DEF TransferInv
<1>3. CASE DownldAgain(t)
  <2>1. /\ UNCHANGED <<buf, ram, fwn, fwv, forced>> /\ addr' \in {1, addr}
        /\ err' = [err EXCEPT ![t] = pc'[t] # "idle"]
    BY <1>3 DEF DownldAgain, fwVars
  <2>2. DataType'
    BY <2>1, AccessAssumption DEF TransferInv, DataType, NoAddr
  <2>3. ASSUME ~forced', NEW u \in Threads PROVE Progress(u)'
    <3>1. CASE sem["RAM"] = Free
      <4>1. pc' = [pc EXCEPT ![t] = "put"]
        BY <1>3, <3>1 DEF DownldAgain, Goto
      <4>2. CASE u # t
        BY <2>1, <2>3, <3>1, <4>1, <4>2, OneInRam, Outside DEF TransferInv, Inv, TypeOK
      <4>3. CASE u = t
        BY <2>1, <4>1, <4>3 DEF Progress, Inv, TypeOK
      <4> QED BY <4>2, <4>3
    <3>2. CASE sem["RAM"] # Free
      <4>1. pc' = [pc EXCEPT ![t] = "idle"] /\ addr' = addr
        BY <1>3, <3>2 DEF DownldAgain, Goto
      <4>2. CASE u # t
        BY <2>1, <2>3, <4>1, <4>2, Frame DEF TransferInv, Inv, TypeOK
      <4>3. CASE u = t
        BY <4>1, <4>3 DEF Progress, Inv, TypeOK
      <4> QED BY <4>2, <4>3
    <3> QED BY <3>1, <3>2
  <2> QED BY <2>2, <2>3 DEF TransferInv
<1> QED BY <1>1, <1>2, <1>3

LEMMA DownldWordTransfer ==
    ASSUME Inv, TransferInv, ~forced, NEW t \in Threads, DownldWord(t)
    PROVE  TransferInv'
<1> DEFINE word == IF Followed THEN ram[addr] ELSE 0
<1>1. /\ pc[t] = "downld_word" /\ UNCHANGED <<sem, ram, fwn, fwv, forced>>
      /\ buf' = [buf EXCEPT ![t] = Append(buf[t], word)]
      /\ addr' = IF addr = NoAddr THEN addr ELSE addr + 1
  BY DEF DownldWord, fwVars
<1>2. DOMAIN ram = 1 .. 2 * W /\ buf[t] \in Seq(Vals)
  BY DEF TransferInv, DataType
<1>3. word \in Vals
  BY <1>2 DEF Followed, TransferInv, DataType, Vals
<1>4. Append(buf[t], word) \in Seq(Vals)
  BY <1>2, <1>3
<1>5. DataType'
  <2>1. addr' \in 1 .. NoAddr
    <3>1. addr \in 1 .. NoAddr /\ addr' = IF addr = NoAddr THEN addr ELSE addr + 1
      BY <1>1 DEF TransferInv, DataType
    <3> QED BY <3>1, AccessAssumption DEF NoAddr
  <2>2. buf' \in [Threads -> Seq(Vals)]
    BY <1>1, <1>4 DEF TransferInv, DataType
  <2> QED BY <1>1, <2>1, <2>2 DEF TransferInv, DataType
<1>6. ASSUME ~forced', NEW u \in Threads PROVE Progress(u)'
  <2>0. ~forced /\ Progress(u) /\ Progress(t) /\ sem["RAM"] = t
    BY <1>1, <1>6 DEF TransferInv, Inv, OneInside, Inside, InRam, Sems
  <2>1. CASE u # t
    <3>1. pc'[u] = pc[u] /\ buf'[u] = buf[u]
      BY <1>1, <2>1 DEF DownldWord, Goto, Inv, TypeOK, TransferInv, DataType
    <3> QED BY <2>0, <2>1, <3>1, OneInRam, Outside
  <2>2. CASE u = t
    <3>1. /\ Len(buf[t]) < W /\ addr = Len(buf[t]) + 1
          /\ \A i \in 1 .. Len(buf[t]) : buf[t][i] = ram[i]
      BY <1>1, <2>0 DEF Progress
    <3>2. word = ram[addr] /\ addr # NoAddr
      BY <1>2, <2>0, <3>1, AccessAssumption DEF Followed, NoAddr
    <3>3. buf'[t] = Append(buf[t], word)
      BY <1>1 DEF TransferInv, DataType
    <3> HIDE DEF word
    <3>4. /\ Len(buf'[t]) = Len(buf[t]) + 1 /\ addr' = Len(buf'[t]) + 1
          /\ \A i \in 1 .. Len(buf'[t]) : buf'[t][i] = ram'[i]
      BY <1>1, <1>2, <1>3, <3>1, <3>2, <3>3
    <3>5. \/ pc'[t] = "downld_word" /\ Len(buf'[t]) # W
          \/ pc'[t] = "put" /\ Len(buf'[t]) = W
          \/ pc'[t] = "put" /\ err'[t]
      BY DEF DownldWord, Goto, Failed, Inv, TypeOK
    <3>6. CASE pc'[t] = "downld_word" /\ Len(buf'[t]) # W
      <4>0. W \in Nat /\ Len(buf[t]) \in Nat
        BY <1>2, AccessAssumption
      <4>1. Len(buf'[t]) < W
        BY <3>1, <3>4, <3>6, <4>0
      <4> QED BY <2>2, <3>4, <3>6, <4>1 DEF Progress
    <3>7. CASE pc'[t] = "put" /\ (Len(buf'[t]) = W \/ err'[t])
      BY <2>2, <3>4, <3>7 DEF Progress
    <3> QED BY <3>5, <3>6, <3>7
  <2> QED BY <2>1, <2>2
<1> QED BY <1>5, <1>6 DEF TransferInv

LEMMA UploadTransfer ==
    ASSUME Inv, TransferInv, ~forced, NEW t \in Threads, UploadGet(t) \/ RamPut(t)
    PROVE  TransferInv'
<1>1. CASE UploadGet(t)
  <2>1. pc[t] = "upload" /\ UNCHANGED <<err, buf, ram, fwn, fwv, forced>>
    BY <1>1 DEF UploadGet, fwVars
  <2>2. CASE sem["RAM"] = Free
    <3>1. addr' = W + 1 /\ pc' = [pc EXCEPT ![t] = "upload_word"]
      BY <1>1, <2>2 DEF UploadGet, Goto
    <3>2. DataType'
      BY <2>1, <3>1, AccessAssumption DEF TransferInv, DataType, NoAddr
    <3>3. ASSUME ~forced', NEW u \in Threads PROVE Progress(u)'
      <4>1. CASE u # t
        BY <2>1, <2>2, <3>1, <3>3, <4>1, OneInRam, Outside DEF TransferInv, Inv, TypeOK
      <4>2. CASE u = t
        <5>1. pc'[t] = "upload_word" /\ buf'[t] \in Seq({t}) /\ Len(buf'[t]) = W
          BY <2>1, <3>1, <3>3 DEF TransferInv, Inv, TypeOK, Progress
        <5>2. addr' = 2 * W + 1 - W /\ W \in 1 .. W /\ W + 1 .. addr' - 1 = {}
          BY <3>1, AccessAssumption
        <5> QED BY <4>2, <5>1, <5>2 DEF Progress
      <4> QED BY <4>1, <4>2
    <3> QED BY <3>2, <3>3 DEF TransferInv
  <2>3. CASE sem["RAM"] # Free
    <3>1. Goto(t, "idle") /\ UNCHANGED <<err, ramVars, fwVars, forced>>
      BY <1>1, <2>3 DEF UploadGet, ramVars
    <3> QED BY <3>1, ElseTransfer DEF Steps
  <2> QED BY <2>2, <2>3
<1>2. CASE RamPut(t)
  <2>1. /\ pc[t] = "put" /\ pc' = [pc EXCEPT ![t] = "idle"]
        /\ UNCHANGED <<addr, ram, fwn, fwv, forced>> /\ buf' = [buf EXCEPT ![t] = <<>>]
        /\ err' = [err EXCEPT ![t] = FALSE]
    BY <1>2 DEF RamPut, Goto, fwVars
  <2>2. DataType'
    BY <2>1 DEF TransferInv, DataType
  <2>3. ASSUME ~forced', NEW u \in Threads PROVE Progress(u)'
    <3>1. CASE u # t
      BY <2>1, <2>3, <3>1, Frame DEF TransferInv, DataType, Inv, TypeOK
    <3>2. CASE u = t
      BY <2>1, <3>2 DEF Progress, Inv, TypeOK
    <3> QED BY <3>1, <3>2
  <2> QED BY <2>2, <2>3 DEF TransferInv
<1> QED BY <1>1, <1>2

LEMMA UploadWordTransfer ==
    ASSUME Inv, TransferInv, ~forced, NEW t \in Threads, UploadWord(t)
    PROVE  TransferInv'
<1> DEFINE word == Head(buf[t])
           rest == Tail(buf[t])
<1>1. /\ pc[t] = "upload_word" /\ UNCHANGED <<sem, fwn, fwv, forced>>
      /\ buf' = [buf EXCEPT ![t] = rest]
      /\ addr' = IF addr = NoAddr THEN addr ELSE addr + 1
      /\ ram' = IF Followed THEN [ram EXCEPT ![addr] = word] ELSE ram
      /\ pc' = [pc EXCEPT ![t] = IF buf'[t] = <<>> THEN "put" ELSE "upload_word"]
  BY DEF UploadWord, Goto, fwVars
<1>2. DOMAIN ram = 1 .. 2 * W /\ addr \in 1 .. NoAddr
  BY DEF TransferInv, DataType
<1>3. ~forced => /\ buf[t] \in Seq({t}) /\ Len(buf[t]) \in 1 .. W
                 /\ addr = 2 * W + 1 - Len(buf[t])
                 /\ \A a \in W + 1 .. addr - 1 : ram[a] = t
                 /\ sem["RAM"] = t
  BY <1>1 DEF TransferInv, Progress, Inv, OneInside, Inside, InRam, Sems
<1>4. ~forced => /\ word = t /\ rest \in Seq({t})
                 /\ Len(rest) = Len(buf[t]) - 1
  <2> SUFFICES ASSUME ~forced PROVE word = t /\ rest \in Seq({t}) /\ Len(rest) = Len(buf[t]) - 1
    OBVIOUS
  <2>1. buf[t] \in Seq({t}) /\ buf[t] # <<>> /\ Len(buf[t]) \in 1 .. W
    BY <1>3, AccessAssumption
  <2>2. word \in {t} /\ rest \in Seq({t})
    BY <2>1
  <2>3. Len(rest) = Len(buf[t]) - 1
    BY <2>1
  <2> QED BY <2>2, <2>3
<1> HIDE DEF word, rest
<1>5. DataType'
  <2>1. ram' \in [1 .. 2 * W -> Vals]
    BY <1>1, <1>2, <1>4 DEF Followed, TransferInv, DataType, Vals
  <2>2. addr' \in 1 .. NoAddr
    BY <1>1, <1>2, AccessAssumption DEF NoAddr
  <2>3. buf' \in [Threads -> Seq(Vals)]
    <3>1. buf[t] \in Seq(Vals) /\ buf[t] # <<>>
      BY <1>3, AccessAssumption DEF TransferInv, DataType
    <3>2. rest \in Seq(Vals)
      BY <3>1 DEF rest
    <3> QED BY <1>1, <3>2 DEF TransferInv, DataType
  <2> QED BY <1>1, <2>1, <2>2, <2>3 DEF TransferInv, DataType
<1>6. ASSUME ~forced', NEW u \in Threads PROVE Progress(u)'
  <2>0. ~forced /\ Progress(u)
    BY <1>1, <1>6 DEF TransferInv
  <2>1. CASE u # t
    <3>1. pc'[u] = pc[u] /\ buf'[u] = buf[u]
      BY <1>1, <2>1 DEF Inv, TypeOK, TransferInv, DataType
    <3> QED BY <1>3, <2>0, <2>1, <3>1, OneInRam, Outside
  <2>2. CASE u = t
    <3>1. /\ buf'[t] = rest /\ pc'[t] = IF rest = <<>> THEN "put" ELSE "upload_word"
      BY <1>1 DEF Inv, TypeOK, TransferInv, DataType
    <3>2. addr \in 1 .. 2 * W /\ addr # NoAddr /\ addr' = 2 * W + 1 - Len(rest)
      <4>1. PICK n \in 1 .. W : n = Len(buf[t])
        BY <1>3
      <4>2. addr = 2 * W + 1 - n /\ Len(rest) = n - 1
        BY <1>3, <1>4, <4>1
      <4>3. addr \in 1 .. 2 * W /\ addr # NoAddr
        BY <4>2, AccessAssumption DEF NoAddr
      <4> QED BY <1>1, <4>2, <4>3, AccessAssumption
    <3>3. \A a \in W + 1 .. addr' - 1 : ram'[a] = t
      <4>1. ram' = [ram EXCEPT ![addr] = t]
        BY <1>1, <1>2, <1>4, <2>0, <3>2 DEF Followed
      <4>2. addr' = addr + 1
        BY <1>1, <3>2
      <4>3. ASSUME NEW a \in W + 1 .. addr' - 1 PROVE ram'[a] = t
        <5>1. a \in 1 .. 2 * W /\ (a = addr \/ a \in W + 1 .. addr - 1)
          BY <3>2, <4>2, AccessAssumption
        <5>2. CASE a = addr
          BY <1>2, <4>1, <5>1, <5>2
        <5>3. CASE a # addr
          BY <1>2, <1>3, <2>0, <4>1, <5>1, <5>3
        <5> QED BY <5>2, <5>3
      <4> QED BY <4>3
    <3>4. CASE rest = <<>>
      <4>1. Len(rest) = 0
        BY <3>4
      <4>2. \A a \in RpcArea : ram'[a] = t
        BY <3>2, <3>3, <4>1, AccessAssumption DEF RpcArea
      <4> QED BY <2>2, <3>1, <3>4, <4>2 DEF Progress
    <3>5. CASE rest # <<>>
      <4>1. rest \in Seq({t}) /\ Len(rest) \in Nat /\ Len(rest) # 0
        BY <1>4, <2>0, <3>5
      <4>2. Len(rest) \in 1 .. W
        BY <1>3, <1>4, <2>0, <4>1, AccessAssumption
      <4> QED BY <2>2, <3>1, <3>2, <3>3, <3>5, <4>1, <4>2 DEF Progress
    <3> QED BY <3>4, <3>5
  <2> QED BY <2>1, <2>2
<1> QED BY <1>5, <1>6 DEF TransferInv

LEMMA NextTransfer == Inv /\ TransferInv /\ [Next]_vars => TransferInv'
<1> SUFFICES ASSUME Inv, TransferInv, [Next]_vars, ~forced PROVE TransferInv'
  BY ForcedStays DEF TransferInv
<1>1. ASSUME NEW t \in Threads, Step(t) PROVE TransferInv'
  BY <1>1, DownldTransfer, DownldWordTransfer, UploadTransfer, UploadWordTransfer,
     OtherTransfer DEF Step
<1>2. ASSUME NEW t \in Threads, NEW j \in jobs[t], Call(t, j) PROVE TransferInv'
  BY <1>2, CallTransfer
<1>3. CASE FwStep
  BY <1>3, FwTransfer
<1>4. CASE UNCHANGED vars
  <2>1. UNCHANGED <<pc, err, buf, addr, ram, forced, fwn, fwv>>
    BY <1>4 DEF vars, fwVars, ramVars
  <2>2. fwn' \in Nat /\ fwv' \in Nat
    BY <2>1 DEF TransferInv, DataType
  <2> QED BY <2>1, <2>2, Untouched
<1> QED BY <1>1, <1>2, <1>3, <1>4 DEF Next

-----------------------------------------------------------------------------
(* The PTP workaround.                                                      *)

\* From the time the scan has found it, phy_id is where the PHY is.
Found == {"ident", "mdio_ident", "idented", "read", "mdio_read", "write", "mdio_write",
          "written"}
PhySteps == Found \cup {"phy", "scan", "mdio_scan", "scanned"}
Value == [ptp : BOOLEAN, rest : Nat]

PhyCaller == \A t \in Threads : pc[t] \in PhySteps => "phy" \in jobs[t]

PhyTypes == /\ phy \in [1 .. Len(PtpRegs) -> Value] /\ val \in Value
            /\ \A i \in 1 .. Len(PtpRegs) : phy[i].rest = i

PhyAtStep(t) ==
    /\ pc[t] = "scanned" /\ val # Ones => phy_id = PhyAt
    /\ pc[t] \in Found => phy_id = PhyAt
    /\ pc[t] \in {"read", "mdio_read", "write", "mdio_write", "written"}
          => rn \in 1 .. Len(PtpRegs)
    /\ pc[t] \in {"write", "mdio_write"} => val.rest = rn

\* Once a read gave up nothing is said of the PHY.
PhyKnown == PhyCaller /\ (~misread => PhyTypes /\ \A t \in Threads : PhyAtStep(t))

LEMMA RegsAre ==
    /\ Len(PtpRegs) \in Nat \ {0} /\ DOMAIN PtpRegs = 1 .. Len(PtpRegs)
    /\ Id \in Value /\ Ones \in Value /\ Id # Ones /\ Ones.rest = Len(PtpRegs) + 1
    /\ \A i \in 1 .. Len(PtpRegs) : Reg(i) \in Value /\ Reg(i).rest = i
<1>1. Len(PtpRegs) \in Nat \ {0} /\ DOMAIN PtpRegs = 1 .. Len(PtpRegs)
  BY AccessAssumption
<1> QED BY <1>1 DEF Id, Ones, Reg, Value

LEMMA InitPhy == Init => PhyKnown
<1> SUFFICES ASSUME Init PROVE PhyKnown
  OBVIOUS
<1>1. PhyCaller
  BY DEF Init, PhyCaller, PhySteps, Found
<1>2. PhyTypes
  BY RegsAre DEF Init, PhyTypes
<1>3. \A t \in Threads : PhyAtStep(t)
  BY DEF Init, PhyAtStep, Found
<1> QED BY <1>1, <1>2, <1>3 DEF PhyKnown

\* The thread in a PHY call is the only one.
LEMMA OneCaller ==
    ASSUME Inv, PhyCaller, NEW t \in Threads, NEW u \in Threads, u # t, pc[t] \in PhySteps
    PROVE  pc[u] \notin PhySteps
  BY AccessAssumption DEF Inv, TypeOK, PhyCaller

\* A step of t from a PHY call's step to l.
LEMMA PhyMove ==
    ASSUME Inv, PhyKnown, NEW t \in Threads, NEW l \in PhySteps \cup {"idle"},
           pc[t] \in PhySteps, Goto(t, l), UNCHANGED jobs,
           ~misread' => ~misread /\ PhyTypes' /\ PhyAtStep(t)'
    PROVE  PhyKnown'
<1>1. pc'[t] = l /\ \A u \in Threads \ {t} : pc'[u] = pc[u]
  BY DEF Goto, Inv, TypeOK
<1>2. "idle" \notin PhySteps
  BY DEF PhySteps, Found
<1>3. PhyCaller'
  BY <1>1, <1>2 DEF PhyKnown, PhyCaller
<1>4. ASSUME ~misread', NEW u \in Threads PROVE PhyAtStep(u)'
  <2>1. CASE u = t
    BY <1>4, <2>1
  <2>2. CASE u # t
    <3>1. pc'[u] \notin PhySteps
      BY <1>1, <2>2, OneCaller DEF PhyKnown
    <3> QED BY <3>1 DEF PhyAtStep, PhySteps, Found
  <2> QED BY <2>1, <2>2
<1> QED BY <1>3, <1>4 DEF PhyKnown

\* A step of t that is not of a PHY call, but may begin one.
LEMMA PhyElse ==
    ASSUME Inv, PhyKnown, NEW t \in Threads, NEW l, Goto(t, l), UNCHANGED <<jobs, phyVars>>,
           l \in PhySteps => l = "phy" /\ "phy" \in jobs[t]
    PROVE  PhyKnown'
<1>1. pc'[t] = l /\ \A u \in Threads \ {t} : pc'[u] = pc[u]
  BY DEF Goto, Inv, TypeOK
<1>2. PhyCaller'
  BY <1>1 DEF PhyKnown, PhyCaller
<1>3. ASSUME ~misread' PROVE PhyTypes' /\ \A u \in Threads : PhyAtStep(u)'
  <2>1. PhyTypes /\ \A u \in Threads : PhyAtStep(u)
    BY <1>3 DEF PhyKnown, phyVars
  <2>2. PhyTypes'
    BY <2>1 DEF PhyTypes, phyVars
  <2>3. \A u \in Threads \ {t} : PhyAtStep(u)'
    BY <1>1, <2>1 DEF PhyAtStep, phyVars
  <2>4. PhyAtStep(t)'
    BY <1>1 DEF PhyAtStep, PhySteps, Found
  <2> QED BY <2>2, <2>3, <2>4
<1> QED BY <1>2, <1>3 DEF PhyKnown

LEMMA PhyGetKnown ==
    ASSUME Inv, PhyKnown, NEW t \in Threads,
           \/ PhyGet(t, "scan", "mdio_scan", "scanned")
           \/ PhyGet(t, "ident", "mdio_ident", "idented")
           \/ PhyGet(t, "read", "mdio_read", "write")
           \/ PhyGet(t, "write", "mdio_write", "written")
    PROVE  PhyKnown'
<1>1. PICK w \in {<<"scan", "mdio_scan", "scanned">>, <<"ident", "mdio_ident", "idented">>,
                  <<"read", "mdio_read", "write">>, <<"write", "mdio_write", "written">>} :
          PhyGet(t, w[1], w[2], w[3])
  OBVIOUS
<1>2. /\ pc[t] = w[1] /\ w[1] \in PhySteps /\ w[2] \in PhySteps /\ w[3] \in PhySteps
      /\ UNCHANGED jobs
  BY <1>1 DEF PhyGet, PhySteps, Found
<1>3. CASE Goto(t, w[2]) /\ UNCHANGED phyVars
  <2>1. pc'[t] = w[2]
    BY <1>3 DEF Goto, Inv, TypeOK
  <2>2. ASSUME ~misread' PROVE ~misread /\ PhyTypes' /\ PhyAtStep(t)'
    <3>1. ~misread /\ PhyTypes /\ PhyAtStep(t)
      BY <1>3, <2>2 DEF PhyKnown, phyVars
    <3>2. PhyTypes'
      BY <1>3, <3>1 DEF PhyTypes, phyVars
    <3>3. PhyAtStep(t)'
      BY <1>1, <1>2, <1>3, <2>1, <3>1 DEF PhyAtStep, Found, phyVars
    <3> QED BY <3>1, <3>2, <3>3
  <2> QED BY <1>2, <1>3, <2>2, PhyMove
<1>4. CASE Goto(t, w[3]) /\ misread'
  BY <1>2, <1>4, PhyMove
<1> QED BY <1>1, <1>3, <1>4 DEF PhyGet

LEMMA PhyReadKnown ==
    ASSUME Inv, PhyKnown, NEW t \in Threads,
           \/ PhyRead(t, "mdio_scan", "scanned", 0)
           \/ PhyRead(t, "mdio_ident", "idented", 0)
           \/ PhyRead(t, "mdio_read", "write", rn)
    PROVE  PhyKnown'
<1>1. PICK w \in {<<"mdio_scan", "scanned", 0>>, <<"mdio_ident", "idented", 0>>,
                  <<"mdio_read", "write", rn>>} : PhyRead(t, w[1], w[2], w[3])
  OBVIOUS
<1>2. /\ pc[t] = w[1] /\ Goto(t, w[2]) /\ UNCHANGED <<jobs, phy_id, phy, rn>>
      /\ (val' = PhyReg(w[3]) /\ UNCHANGED misread) \/ misread'
  BY <1>1 DEF PhyRead
<1>3. w[1] \in PhySteps /\ w[2] \in PhySteps
  BY <1>1 DEF PhySteps, Found
<1>4. ASSUME ~misread' PROVE ~misread /\ PhyTypes' /\ PhyAtStep(t)'
  <2>1. ~misread /\ PhyTypes /\ PhyAtStep(t) /\ val' = PhyReg(w[3])
    BY <1>2, <1>4 DEF PhyKnown
  <2>2. pc'[t] = w[2]
    BY <1>2 DEF Goto, Inv, TypeOK
  <2>3. CASE w = <<"mdio_read", "write", rn>>
    <3>1. phy_id = PhyAt /\ rn \in 1 .. Len(PtpRegs)
      BY <1>2, <2>1, <2>3 DEF PhyAtStep, Found
    <3>2. val' = phy[rn]
      BY <2>1, <2>3, <3>1 DEF PhyReg
    <3>3. val' \in Value /\ val'.rest = rn
      BY <2>1, <3>1, <3>2 DEF PhyTypes
    <3> QED BY <1>2, <2>1, <2>2, <2>3, <3>1, <3>3 DEF PhyTypes, PhyAtStep, Found
  <2>4. CASE w = <<"mdio_ident", "idented", 0>>
    <3>1. phy_id = PhyAt
      BY <1>2, <2>1, <2>4 DEF PhyAtStep, Found
    <3>2. val' \in Value
      BY <2>1, <2>4, <3>1, RegsAre DEF PhyReg
    <3> QED BY <1>2, <2>1, <2>2, <2>4, <3>1, <3>2 DEF PhyTypes, PhyAtStep, Found
  <2>5. CASE w = <<"mdio_scan", "scanned", 0>>
    <3>1. val' \in Value /\ (val' # Ones => phy_id = PhyAt)
      BY <2>1, <2>5, RegsAre DEF PhyReg
    <3> QED BY <1>2, <2>1, <2>2, <2>5, <3>1 DEF PhyTypes, PhyAtStep, Found, Ones, Reg
  <2> QED BY <1>1, <2>3, <2>4, <2>5
<1> QED BY <1>2, <1>3, <1>4, PhyMove

LEMMA PhyOwnKnown ==
    ASSUME Inv, PhyKnown, NEW t \in Threads,
           PhyInit(t) \/ PhyScan(t) \/ PhyIdent(t) \/ PhyNext(t) \/ PhyWrite(t)
    PROVE  PhyKnown'
<1>1. CASE PhyInit(t) \/ PhyScan(t) \/ PhyIdent(t) \/ PhyNext(t)
  <2>1. /\ UNCHANGED <<jobs, phy, val, misread>> /\ pc[t] \in PhySteps
        /\ \E l \in PhySteps \cup {"idle"} : Goto(t, l)
    BY <1>1 DEF PhyInit, PhyScan, PhyIdent, PhyNext, PhySteps, Found
  <2>2. PICK l \in PhySteps \cup {"idle"} : Goto(t, l)
    BY <2>1
  <2>3. pc'[t] = l
    BY <2>2 DEF Goto, Inv, TypeOK
  <2>4. ASSUME ~misread' PROVE ~misread /\ PhyTypes' /\ PhyAtStep(t)'
    <3>1. ~misread /\ PhyTypes /\ PhyAtStep(t)
      BY <2>1, <2>4 DEF PhyKnown
    <3>2. PhyTypes'
      BY <2>1, <3>1 DEF PhyTypes
    <3>3. CASE PhyInit(t)
      <4>1. pc'[t] = "scan"
        BY <3>3 DEF PhyInit, Goto, Inv, TypeOK
      <4> QED BY <3>1, <3>2, <4>1 DEF PhyAtStep, Found
    <3>4. CASE PhyScan(t)
      <4>1. /\ pc[t] = "scanned"
            /\ \/ pc'[t] = "ident" /\ val # Ones /\ UNCHANGED phy_id
               \/ pc'[t] \in {"idle", "scan"}
        BY <3>4 DEF PhyScan, Goto, Inv, TypeOK
      <4> QED BY <3>1, <3>2, <4>1 DEF PhyAtStep, Found
    <3>5. CASE PhyIdent(t)
      <4>1. /\ pc[t] = "idented"
            /\ \/ pc'[t] = "read" /\ UNCHANGED phy_id /\ rn' = 1
               \/ pc'[t] = "idle"
        BY <3>5 DEF PhyIdent, Goto, Inv, TypeOK
      <4>2. 1 \in 1 .. Len(PtpRegs)
        BY RegsAre
      <4> QED BY <3>1, <3>2, <4>1, <4>2 DEF PhyAtStep, Found
    <3>6. CASE PhyNext(t)
      <4>1. /\ pc[t] = "written" /\ UNCHANGED phy_id
            /\ \/ pc'[t] = "read" /\ rn < Len(PtpRegs) /\ rn' = rn + 1
               \/ pc'[t] = "idle"
        BY <3>6 DEF PhyNext, Goto, Inv, TypeOK
      <4>2. rn \in 1 .. Len(PtpRegs) /\ phy_id = PhyAt
        BY <3>1, <4>1 DEF PhyAtStep, Found
      <4>3. pc'[t] = "read" => rn' \in 1 .. Len(PtpRegs)
        BY <4>1, <4>2, RegsAre
      <4> QED BY <3>1, <3>2, <4>1, <4>2, <4>3 DEF PhyAtStep, Found
    <3> QED BY <1>1, <3>3, <3>4, <3>5, <3>6
  <2> QED BY <2>1, <2>2, <2>4, PhyMove
<1>2. CASE PhyWrite(t)
  <2>1. /\ UNCHANGED <<jobs, phy_id, val, rn>> /\ pc[t] = "mdio_write" /\ Goto(t, "written")
        /\ \/ /\ UNCHANGED misread
              /\ phy' = IF phy_id = PhyAt THEN [phy EXCEPT ![rn] = [val EXCEPT !.ptp = FALSE]]
                        ELSE phy
           \/ misread'
    BY <1>2 DEF PhyWrite
  <2>2. pc'[t] = "written"
    BY <2>1 DEF Goto, Inv, TypeOK
  <2>3. ASSUME ~misread' PROVE ~misread /\ PhyTypes' /\ PhyAtStep(t)'
    <3>1. ~misread /\ PhyTypes /\ PhyAtStep(t)
      BY <2>1, <2>3 DEF PhyKnown
    <3>2. phy_id = PhyAt /\ rn \in 1 .. Len(PtpRegs) /\ val.rest = rn
      BY <2>1, <3>1 DEF PhyAtStep, Found
    <3>3. phy' = [phy EXCEPT ![rn] = [val EXCEPT !.ptp = FALSE]]
      BY <2>1, <2>3, <3>2
    <3>4. [val EXCEPT !.ptp = FALSE] \in Value /\ [val EXCEPT !.ptp = FALSE].rest = rn
      BY <3>1, <3>2 DEF PhyTypes, Value
    <3>5. PhyTypes'
      BY <2>1, <3>1, <3>2, <3>3, <3>4 DEF PhyTypes
    <3> QED BY <2>1, <2>2, <3>1, <3>2, <3>5 DEF PhyAtStep, Found
  <2>4. "written" \in PhySteps /\ "mdio_write" \in PhySteps
    BY DEF PhySteps, Found
  <2> QED BY <2>1, <2>3, <2>4, PhyMove
<1> QED BY <1>1, <1>2

LEMMA NextPhy == Inv /\ PhyKnown /\ [Next]_vars => PhyKnown'
<1> SUFFICES ASSUME Inv, PhyKnown, [Next]_vars PROVE PhyKnown'
  OBVIOUS
<1>0. {"idle", "downld", "downld_again", "downld_word", "upload", "upload_word", "put", "msm",
       "msm_put"} \cap PhySteps = {}
  BY DEF PhySteps, Found
<1>1. ASSUME NEW t \in Threads, Step(t) PROVE PhyKnown'
  <2>1. CASE PhyStep(t)
    BY <2>1, PhyGetKnown, PhyReadKnown, PhyOwnKnown DEF PhyStep
  <2>2. CASE ~PhyStep(t)
    <3>1. UNCHANGED <<jobs, phyVars>> /\ \E l \in {"idle", "downld_again", "downld_word",
              "upload_word", "put", "msm_put"} : Goto(t, l)
      <4>1. CASE DownldGot(t) \/ DownldForce(t) \/ DownldAgain(t) \/ DownldWord(t)
        BY <4>1 DEF DownldGot, DownldForce, DownldAgain, DownldWord
      <4>2. CASE UploadGet(t) \/ UploadWord(t) \/ RamPut(t) \/ MsmGet(t) \/ MsmPut(t)
        BY <4>2 DEF UploadGet, UploadWord, RamPut, MsmGet, MsmPut
      <4> QED BY <1>1, <2>2, <4>1, <4>2 DEF Step
    <3> QED BY <1>0, <3>1, PhyElse
  <2> QED BY <2>1, <2>2
<1>2. ASSUME NEW t \in Threads, NEW j \in jobs[t], Call(t, j) PROVE PhyKnown'
  <2>1. j \in {"downld", "upload", "msm", "phy"}
    BY AccessAssumption DEF Inv, TypeOK
  <2>2. Goto(t, j) /\ UNCHANGED <<jobs, phyVars>>
    BY <1>2 DEF Call
  <2> QED BY <1>0, <2>1, <2>2, PhyElse
<1>3. CASE FwStep \/ UNCHANGED vars
  <2>1. UNCHANGED <<jobs, pc, phyVars>>
    BY <1>3 DEF FwStep, FwTake, FwWord, FwPut, FwHang, vars
  <2> QED BY <2>1 DEF PhyKnown, PhyCaller, PhyTypes, PhyAtStep, phyVars
<1> QED BY <1>1, <1>2, <1>3 DEF Next

-----------------------------------------------------------------------------
\* SemaphoresHold for all threads, calls and firmwares: the memory's
\* semaphore is held only by a thread inside a transfer, and, unless a download
\* took one away, only its holder is inside a semaphore's section
\* (hw_atl_utils_fw_downld_dwords, hw_atl_utils_fw_upload_dwords,
\* hw_atl_msm_read, aq_phy_read_reg, aq_phy_write_reg).
THEOREM SemaphoresExclude == Spec => []SemaphoresHold
<1>1. Inv => SemaphoresHold
  BY DEF Inv, SemaphoresHold
<1> QED BY <1>1, InitInv, NextInv, PTL DEF Spec

\* Type correctness of the semaphores and the threads.
THEOREM TypeCorrect == Spec => []TypeOK
<1>1. Inv => TypeOK
  BY DEF Inv
<1> QED BY <1>1, InitInv, NextInv, PTL DEF Spec

\* WholeTransfer for transfers of any length: a download that reports success
\* has the words of one state of the mailbox, an upload has left all its words,
\* unless a semaphore was taken away (hw_atl_utils_fw_downld_dwords,
\* hw_atl_utils_fw_upload_dwords).
THEOREM TransfersAreWhole == Spec => []WholeTransfer
<1>1. Inv /\ TransferInv => WholeTransfer
  BY DEF TransferInv, WholeTransfer, Progress
<1> QED BY <1>1, InitInv, NextInv, InitTransfer, NextTransfer, PTL DEF Spec

\* OnlyThePtpBit for any table of PTP registers and any place of the PHY: as
\* long as no read gave up, the workaround writes each register back with
\* nothing but its PTP bit changed, and only where the PHY is
\* (aq_phy_init, aq_phy_disable_ptp).
THEOREM PtpBitAlone == Spec => []OnlyThePtpBit
<1>1. PhyKnown => OnlyThePtpBit
  <2> SUFFICES ASSUME PhyKnown, ~misread
               PROVE  /\ \A i \in DOMAIN phy : phy[i].rest = i
                      /\ \A t \in Threads : pc[t] \in {"read", "mdio_read", "write", "mdio_write"}
                             => phy_id = PhyAt
    BY DEF OnlyThePtpBit
  <2> QED BY DEF PhyKnown, PhyTypes, PhyAtStep, Found
<1> QED BY <1>1, InitInv, NextInv, InitPhy, NextPhy, PTL DEF Spec

=============================================================================

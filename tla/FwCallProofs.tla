---------------------------- MODULE FwCallProofs ----------------------------
(***************************************************************************)
(* A soft reset of the device, whichever thread makes it and whatever else *)
(* is called meanwhile, ends with a fresh firmware or with an error.       *)
(* Whenever no call of the stack runs, the control register holds what the *)
(* settings ask for, unless two threads have written it over each other:   *)
(* the programs that hw_atl_fw2x.c and hw_atl_utils.c have for a firmware  *)
(* are written out instruction by instruction, and for every position a    *)
(* call of rtnl can be at, the invariant says what the register holds.     *)
(* From there follow the statistics, which never count a packet that was   *)
(* not there, and that an answer and a message belong to their request.    *)
(***************************************************************************)
EXTENDS FwCall, WellFoundedInduction, TLAPS

\* While a reset can still end well, a firmware that is up has come up since it
\* began: in "who" that is known only when there was none on entry, in
\* "deinit1x", "rbl" and "flb" it need not hold, as the device is reset after.
BornIfUp == fw = "up" => born
BootInv ==
    /\ BootTypeOK
    /\ bpc = "who" /\ ver0 = 0 => BornIfUp
    /\ bpc \in {"cold", "rbl_boot", "kick", "version"} => BornIfUp
    /\ bpc = "ok" => fw = "up" /\ born

LEMMA BootInitInv == BootInit => BootInv
  BY BootAssumption DEF BootInit, BootInv, BootTypeOK, Waiting, BornIfUp

LEMMA VersionIsZero ==
    ASSUME BootTypeOK
    PROVE  FwVersion \in Majors \cup {0} /\ (FwVersion = 0 <=> fw # "up")
  BY BootAssumption DEF BootTypeOK, FwVersion

\* The device boots behind the driver's back.
LEMMA DeviceInv == BootInv /\ DeviceBoots => BootInv'
<1> SUFFICES ASSUME BootInv, DeviceBoots PROVE BootInv'
  OBVIOUS
<1> USE DEF BootInv, BootTypeOK, BornIfUp
<1>1. CASE LoaderReports
  BY <1>1 DEF LoaderReports
<1>2. CASE FirmwareComesUp
  BY <1>2 DEF FirmwareComesUp
<1>3. CASE NoFirmware
  BY <1>3 DEF NoFirmware
<1> QED BY <1>1, <1>2, <1>3 DEF DeviceBoots

\* The reset is entered and left.
LEMMA CallerInv == BootInv /\ (SoftReset \/ BootReturns) => BootInv'
<1> SUFFICES ASSUME BootInv, SoftReset \/ BootReturns PROVE BootInv'
  OBVIOUS
<1>1. FwVersion \in Majors \cup {0} /\ (FwVersion = 0 <=> fw # "up")
  BY VersionIsZero DEF BootInv
<1>2. CASE SoftReset
  BY <1>1, <1>2 DEF SoftReset, BootInv, BootTypeOK, BornIfUp, Waiting
<1>3. CASE BootReturns
  BY <1>3 DEF BootReturns, BootInv, BootTypeOK, BornIfUp
<1> QED BY <1>2, <1>3

LEMMA BootStepInv == BootInv /\ BootStep => BootInv'
<1> SUFFICES ASSUME BootInv, BootStep PROVE BootInv'
  OBVIOUS
<1>0. FwVersion \in Majors \cup {0} /\ (FwVersion = 0 <=> fw # "up")
  BY VersionIsZero DEF BootInv
<1> USE DEF BootInv, BootTypeOK, BornIfUp, Waiting
<1>1. CASE LoaderFound
  BY <1>1 DEF LoaderFound
<1>2. CASE ColdStartLate
  BY <1>0, <1>2 DEF ColdStartLate
<1>3. CASE ResetRbl \/ ResetFlb \/ MacKicked
  BY <1>3 DEF ResetRbl, ResetFlb, MacKicked
<1>4. CASE NobodyStarted \/ Deinit1x \/ RblFailed \/ MacKickFailed \/ StartFailed
  BY <1>4 DEF NobodyStarted, Deinit1x, RblFailed, MacKickFailed, StartFailed, Goto
<1>5. CASE ColdStartDone \/ RblBooted \/ Started
  BY <1>0, <1>5 DEF ColdStartDone, RblBooted, Started, Goto
<1> QED BY <1>1, <1>2, <1>3, <1>4, <1>5 DEF BootStep

\* No other step of the calls or of the firmware touches the reset.
LEMMA CallsLeaveBoot ==
    ASSUME CallNext
    PROVE  SoftReset \/ BootReturns \/ BootStep \/ DeviceBoots \/ UNCHANGED bootVars
<1>1. CASE Calls
  <2>1. ASSUME NEW t, NEW prog, Begin(t, prog) PROVE UNCHANGED bootVars
    BY <2>1 DEF Begin
  <2> QED BY <1>1, <2>1 DEF Calls, Open, HwmonTemp, HwmonCable, PtpRequest, User, Probe, Close,
        EthtoolStats, GetEee, SetEee, SetPauseparam, SetPrivFlags, NwayReset, SetWol, ServiceTask
<1>2. ASSUME NEW t \in Threads, DoLock(t) \/ ThreadStep(t)
      PROVE  SoftReset \/ BootReturns \/ UNCHANGED bootVars
  <2>1. CASE BeginReset(t) \/ EndReset(t)
    BY <2>1 DEF BeginReset, EndReset
  <2>2. CASE DoLock(t) \/ DoUnlock(t) \/ DoReturn(t) \/ DoRead(t) \/ DoAnswer(t) \/ DoTry(t)
    BY <2>2 DEF DoLock, DoUnlock, DoReturn, DoRead, DoAnswer, DoTry
  <2>3. CASE DoWrite(t) \/ DoToggle(t)
    BY <2>3 DEF DoWrite, DoToggle, PutControl
  <2>4. CASE DoUpload(t) \/ DoRpcCall(t) \/ DoRpcWait(t)
    BY <2>4 DEF DoUpload, DoRpcCall, DoRpcWait
  <2>5. CASE DoAccount(t) \/ DoNoLink(t) \/ DoCfg(t) \/ DoBecome(t) \/ DoOps(t)
    BY <2>5 DEF DoAccount, DoNoLink, DoCfg, DoBecome, DoOps
  <2> QED BY <1>2, <2>1, <2>2, <2>3, <2>4, <2>5 DEF ThreadStep
<1>3. CASE ResetRuns
  BY <1>3 DEF ResetRuns
<1>4. CASE Firmware
  BY <1>4 DEF Firmware, ServeToggle, ServeMode, DropMode, ServeRpc, Packet, DeviceStep
<1> QED BY <1>1, <1>2, <1>3, <1>4 DEF CallNext

LEMMA CallNextInv == BootInv /\ [CallNext]_vars => BootInv'
<1> SUFFICES ASSUME BootInv, [CallNext]_vars PROVE BootInv'
  OBVIOUS
<1>1. CASE UNCHANGED bootVars
  BY <1>1 DEF bootVars, BootInv, BootTypeOK, BornIfUp
<1>2. CASE SoftReset \/ BootReturns \/ BootStep \/ DeviceBoots
  BY <1>2, CallerInv, BootStepInv, DeviceInv
<1>3. UNCHANGED vars => UNCHANGED bootVars
  BY DEF vars
<1> QED BY <1>1, <1>2, <1>3, CallsLeaveBoot

-----------------------------------------------------------------------------
\* FreshFirmware whatever the calls, the builds and the versions of the
\* firmware: a soft reset that returns 0 leaves a firmware that is up and came up
\* since the reset was called (hw_atl_utils_soft_reset).
THEOREM ResetLeavesFresh == CallSpec => []FreshFirmware
<1>1. CallInit => BootInv
  BY BootInitInv DEF CallInit
<1>2. BootInv => FreshFirmware
  BY DEF BootInv, FreshFirmware
<1> QED BY <1>1, <1>2, CallNextInv, PTL DEF CallSpec

-----------------------------------------------------------------------------
(* Programs and what is left of them. *)

\* What a program still has to do from its m-th instruction on.
Rest(p, m) == SubSeq(p, m, Len(p))

\* A program is a sequence of whatever instructions it has.
IsProgram(p) == \E S : p \in Seq(S)

\* Where an error of an instruction stops, as FailTo has it.
Stops == {"unlock", "unlock_check", "return"}

\* From its m-th instruction on, an error takes a program to the n-th.
ErrorGoes(p, m, n, stops) ==
    /\ n \in m + 1 .. Len(p) + 1
    /\ n <= Len(p) => p[n].i \in stops
    /\ \A k \in m + 1 .. n - 1 : p[k].i \notin stops

\* What Min takes from a set of numbers is its least one.
LEMMA SmallestIndex ==
    ASSUME NEW T, T \subseteq Nat, T # {}
    PROVE  Min(T) \in T /\ \A k \in T : Min(T) <= k
<1> DEFINE R == OpToRel(<, Nat)
<1>1. PICK n \in T : \A m \in T : ~(<<m, n>> \in R)
  <2>1. IsWellFoundedOn(R, Nat)
    BY NatLessThanWellFounded
  <2> HIDE DEF R
  <2> QED BY <2>1, WFMin
<1>2. \A m, k \in Nat : m < k => <<m, k>> \in R
  BY DEF OpToRel
<1> HIDE DEF R
<1>3. n \in Nat /\ \A m \in T : m \in Nat /\ ~(m < n)
  BY <1>1, <1>2
<1>4. \A m \in T : n <= m
  BY <1>3
<1> QED BY <1>1, <1>4 DEF Min

\* Two sequences of the same elements are the same sequence.
LEMMA SameSeq ==
    ASSUME NEW S, NEW p \in Seq(S), NEW q \in Seq(S), Len(p) = Len(q),
           \A k \in 1 .. Len(p) : p[k] = q[k]
    PROVE  p = q
  OBVIOUS

\* The rest of a program has its instructions, from the m-th on.
LEMMA RestIs ==
    ASSUME NEW S, NEW p \in Seq(S), NEW m \in 1 .. Len(p) + 1
    PROVE  /\ Rest(p, m) \in Seq(S)
           /\ Len(Rest(p, m)) = Len(p) - m + 1
           /\ \A k \in 1 .. Len(p) - m + 1 : Rest(p, m)[k] = p[k + m - 1]
  BY DEF Rest

LEMMA RestSteps ==
    ASSUME NEW p, IsProgram(p), NEW m \in 1 .. Len(p)
    PROVE  /\ Rest(p, m) # <<>>
           /\ Head(Rest(p, m)) = p[m]
           /\ Tail(Rest(p, m)) = Rest(p, m + 1)
<1>1. PICK S : p \in Seq(S)
  BY DEF IsProgram
<1>2. m \in 1 .. Len(p) + 1 /\ m + 1 \in 1 .. Len(p) + 1
  BY <1>1
<1>3. Rest(p, m) \in Seq(S) /\ Len(Rest(p, m)) = Len(p) - m + 1 /\ Rest(p, m)[1] = p[m]
  <2>1. Rest(p, m) \in Seq(S) /\ Len(Rest(p, m)) = Len(p) - m + 1
    BY <1>1, <1>2, RestIs
  <2>2. \A k \in 1 .. Len(p) - m + 1 : Rest(p, m)[k] = p[k + m - 1]
    BY <1>1, <1>2, RestIs
  <2>3. 1 \in 1 .. Len(p) - m + 1 /\ 1 + m - 1 = m
    BY <1>1
  <2> QED BY <2>1, <2>2, <2>3
<1>4. Rest(p, m + 1) \in Seq(S) /\ Len(Rest(p, m + 1)) = Len(p) - m
  BY <1>1, <1>2, RestIs
<1>5. Tail(Rest(p, m)) \in Seq(S) /\ Len(Tail(Rest(p, m))) = Len(p) - m
  BY <1>1, <1>3
<1>6. ASSUME NEW k \in 1 .. Len(p) - m
      PROVE  Tail(Rest(p, m))[k] = Rest(p, m + 1)[k]
  <2>1. Tail(Rest(p, m))[k] = Rest(p, m)[k + 1]
    BY <1>1, <1>3
  <2>2. Rest(p, m)[k + 1] = p[k + m]
    BY <1>1, <1>2, RestIs
  <2>3. Rest(p, m + 1)[k] = p[k + m]
    BY <1>1, <1>2, RestIs
  <2> QED BY <2>1, <2>2, <2>3
<1>7. Tail(Rest(p, m)) = Rest(p, m + 1)
  BY <1>4, <1>5, <1>6, SameSeq
<1> QED BY <1>1, <1>3, <1>7

\* The rest from the first instruction is all, and past the last one it is empty.
LEMMA RestEnds ==
    ASSUME NEW p, IsProgram(p)
    PROVE  /\ Rest(p, 1) = p
           /\ Rest(p, Len(p) + 1) = <<>>
<1>1. PICK S : p \in Seq(S)
  BY DEF IsProgram
<1>2. Rest(p, 1) = p
  <2>1. 1 \in 1 .. Len(p) + 1
    BY <1>1
  <2>2. Rest(p, 1) \in Seq(S) /\ Len(Rest(p, 1)) = Len(p) - 1 + 1
    BY <1>1, <2>1, RestIs
  <2>3. \A k \in 1 .. Len(p) - 1 + 1 : Rest(p, 1)[k] = p[k + 1 - 1]
    BY <1>1, <2>1, RestIs
  <2>4. Len(Rest(p, 1)) = Len(p) /\ \A k \in 1 .. Len(p) : Rest(p, 1)[k] = p[k]
    BY <1>1, <2>2, <2>3
  <2> QED BY <1>1, <2>2, <2>4, SameSeq
<1>3. Rest(p, Len(p) + 1) \in Seq(S) /\ Len(Rest(p, Len(p) + 1)) = 0
  BY <1>1, RestIs
<1> QED BY <1>2, <1>3

\* What From keeps of the rest of a program is its rest from the first stop on.
LEMMA RestFrom ==
    ASSUME NEW p, IsProgram(p), NEW m \in 1 .. Len(p), NEW stops
    PROVE  \E n : ErrorGoes(p, m, n, stops) /\ From(Tail(Rest(p, m)), stops) = Rest(p, n)
<1> DEFINE q == Rest(p, m + 1)
           K == {k \in DOMAIN q : q[k].i \in stops}
<1>1. PICK S : p \in Seq(S) /\ Len(p) \in Nat
  BY DEF IsProgram
<1>2. Tail(Rest(p, m)) = q
  BY RestSteps
<1>3. /\ q \in Seq(S)
      /\ Len(q) = Len(p) - m
      /\ DOMAIN q = 1 .. Len(p) - m
      /\ \A k \in 1 .. Len(p) - m : q[k] = p[k + m]
  <2>1. m + 1 \in 1 .. Len(p) + 1
    BY <1>1
  <2>2. q \in Seq(S) /\ Len(q) = Len(p) - (m + 1) + 1
    BY <1>1, <2>1, RestIs
  <2>3. \A k \in 1 .. Len(p) - (m + 1) + 1 : q[k] = p[k + (m + 1) - 1]
    BY <1>1, <2>1, RestIs
  <2>4. DOMAIN q = 1 .. Len(q)
    BY <2>2
  <2>5. Len(p) - (m + 1) + 1 = Len(p) - m /\ \A k \in 1 .. Len(p) - m : k + (m + 1) - 1 = k + m
    BY <1>1
  <2>6. \A k \in 1 .. Len(p) - m : q[k] = p[k + m]
    BY <2>3, <2>5
  <2> HIDE DEF q
  <2> QED BY <2>2, <2>4, <2>5, <2>6
<1>4. CASE K = {}
  <2>1. From(q, stops) = <<>>
    BY <1>4 DEF From
  <2>2. Rest(p, Len(p) + 1) = <<>>
    BY RestEnds
  <2>3. ASSUME NEW k \in m + 1 .. Len(p) PROVE p[k].i \notin stops
    <3>1. k - m \in DOMAIN q /\ q[k - m] = p[k]
      BY <1>1, <1>3
    <3> QED BY <1>4, <3>1
  <2>4. ErrorGoes(p, m, Len(p) + 1, stops)
    BY <1>1, <2>3 DEF ErrorGoes
  <2> QED BY <1>2, <2>1, <2>2, <2>4
<1>5. CASE K # {}
  <2> DEFINE j == Min(K)
  <2>1. K \subseteq Nat
    BY <1>1, <1>3
  <2>2. j \in K /\ \A k \in K : j <= k
    BY <1>5, <2>1, SmallestIndex
  <2>3. From(q, stops) = SubSeq(q, j, Len(q))
    BY <1>5 DEF From
  <2>4. j \in 1 .. Len(p) - m /\ q[j].i \in stops
    BY <1>3, <2>2
  <2>5. \A k \in 1 .. j - 1 : q[k].i \notin stops
    <3> SUFFICES ASSUME NEW k \in 1 .. j - 1, q[k].i \in stops PROVE FALSE
      OBVIOUS
    <3>1. k \in DOMAIN q
      BY <1>1, <1>3, <2>4
    <3>2. k \in K
      BY <3>1
    <3>3. j <= k /\ j \in Int /\ k \in Int /\ k <= j - 1
      BY <1>1, <2>2, <2>4, <3>2
    <3> HIDE DEF j
    <3> QED BY <3>3
  <2> HIDE DEF j, K, q
  <2>6. ErrorGoes(p, m, m + j, stops)
    <3>1. p[m + j].i \in stops
      BY <1>1, <1>3, <2>4
    <3>2. ASSUME NEW k \in m + 1 .. m + j - 1 PROVE p[k].i \notin stops
      <4>1. k - m \in 1 .. j - 1 /\ k - m \in 1 .. Len(p) - m /\ k = (k - m) + m
        BY <1>1, <2>4
      <4> QED BY <1>3, <2>5, <4>1
    <3> QED BY <1>1, <2>4, <3>1, <3>2 DEF ErrorGoes
  <2>7. SubSeq(q, j, Len(q)) = Rest(p, m + j)
    <3>1. j \in 1 .. Len(q) + 1 /\ m + j \in 1 .. Len(p) + 1
      BY <1>1, <1>3, <2>4
    <3>2. Rest(q, j) \in Seq(S) /\ Len(Rest(q, j)) = Len(q) - j + 1
      BY <1>3, <3>1, RestIs
    <3>3. Rest(p, m + j) \in Seq(S) /\ Len(Rest(p, m + j)) = Len(p) - (m + j) + 1
      BY <1>1, <3>1, RestIs
    <3>4. ASSUME NEW k \in 1 .. Len(q) - j + 1 PROVE Rest(q, j)[k] = Rest(p, m + j)[k]
      <4>1. Rest(q, j)[k] = q[k + j - 1]
        BY <1>3, <3>1, RestIs
      <4>2. k \in 1 .. Len(p) - (m + j) + 1 /\ k + j - 1 \in 1 .. Len(p) - m
        BY <1>1, <1>3, <2>4
      <4>3. Rest(p, m + j)[k] = p[k + (m + j) - 1]
        BY <1>1, <3>1, <4>2, RestIs
      <4>4. q[k + j - 1] = p[(k + j - 1) + m]
        BY <1>3, <4>2
      <4>5. (k + j - 1) + m = k + (m + j) - 1
        BY <1>1, <2>4
      <4> QED BY <4>1, <4>3, <4>4, <4>5
    <3>5. Len(q) - j + 1 = Len(p) - (m + j) + 1
      BY <1>1, <1>3, <2>4
    <3>6. Rest(q, j) = Rest(p, m + j)
      BY <3>2, <3>3, <3>4, <3>5, SameSeq
    <3> QED BY <3>6 DEF Rest
  <2> QED BY <1>2, <2>3, <2>6, <2>7
<1> QED BY <1>4, <1>5

Init1 == <<Do("reset"), Do("ops"), Try, Try, RpcWait, Become("closed")>>

Init2 == <<Do("reset"), Do("ops"), Try, Try, Become("closed")>>

Open1 ==
    <<Lock, Do("reset"), Read, Try, Write({"RESET"}, States1x \cup {"DIRTY_WAKE"}),
      Return(FALSE), UnlockCheck, Read, Write({"SPEED"}, {"SPEED"}),
      Read, Write({"INIT"}, States1x \cup {"DIRTY_WAKE"}), Do("no_link"), Account,
      Return(TRUE), Become("open")>>

Open2(c) ==
    <<Lock, Do("reset"), Read, Write({}, {}), Return(FALSE), UnlockCheck,
      Read, Write(c \cap {"EEE", "PAUSE"}, {"LINK_DROP", "EEE", "PAUSE"}),
      Do("no_link"), Read, Toggle("STATS"), Answer("STATS"), Account, Return(TRUE),
      Lock, Read, Write(c \cap {"LOOPBACK"}, {"LOOPBACK"}), Unlock, Become("open")>>

Drop1 ==
    <<Become("closing"), Become("closed"), Lock, Read, Write({}, {"SPEED"}),
      Read, Write({"DEINIT", "DIRTY_WAKE"}, States1x \cup {"DIRTY_WAKE"}), Unlock,
      Become("dropped")>>

Drop2 ==
    <<Become("closing"), Become("closed"), Lock, Read, Write({"LINK_DROP"}, {}), Unlock,
      Become("dropped")>>

Arm1 ==
    <<Become("closing"), Become("closed"), Lock, Read, Write({}, {"SPEED"}),
      Read, Write({"DEINIT", "DIRTY_WAKE"}, States1x \cup {"DIRTY_WAKE"}), Unlock,
      RpcWait, RpcCall("wol"), RpcWait, RpcCall("wakeup"), Read, Write({}, {"SPEED"}),
      Read, Write({"POWER", "DIRTY_WAKE"}, States1x \cup {"DIRTY_WAKE"}), Become("armed")>>

Arm2 ==
    <<Become("closing"), Become("closed"), Lock, Read, Write({"LINK_DROP"}, {}), Unlock,
      RpcWait, Read, Write({}, {"PROXY", "LINK_DROP"}), RpcCall("proxy"),
      Write({"PROXY"}, {}), UntilSet("PROXY"),
      RpcWait, Read, Write({}, {"PROXY", "WOL"}), RpcCall("wol"),
      Write({"WOL"}, {}), UntilSet("WOL"), Become("armed")>>

Stats1 == <<Lock, Account, Unlock>>

Stats2 == <<Lock, Read, Toggle("STATS"), Answer("STATS"), Account, Unlock>>

GetEee2 == <<Lock, Try, Try, Unlock>>

SetEee2(on, c) ==
    <<Lock, Try, Try, UnlockCheck, SetCfg(IF on THEN c \cup {"EEE"} ELSE c \ {"EEE"}),
      Lock, Read, Write(IF on THEN {"EEE"} ELSE {}, {"EEE"}), Unlock>>

Pause2(c) == <<Lock, Read, Write(c \cap {"PAUSE"}, {"PAUSE"}), Unlock>>

Loop2(c) == <<Lock, Read, Write(c \cap {"LOOPBACK"}, {"LOOPBACK"}), Unlock, SetCfg(c)>>

Nway2 == <<Lock, Read, Write({"RECONNECT"}, {}), Unlock>>

Temp2 == <<Lock, Read, Toggle("TEMP"), AnswerOrNot("TEMP"), Try, Unlock>>

Cable2 == <<Lock, Try, Unlock>>

Request2 == <<Lock, Upload("request"), Read, Toggle("REQUEST"), Answer("REQUEST"), Unlock>>

\* What the control register x keeps of the settings g in life l, for firmware
\* of major version v; of EEE, PAUSE and LOOPBACK those in S.
Holds(l, S, x, g, v) ==
    /\ l = "open" /\ v # 1 => x \cap S = g \cap S /\ "LINK_DROP" \notin x
    /\ l = "open" /\ v = 1 => {"INIT", "SPEED"} \subseteq x /\ "DIRTY_WAKE" \notin x
    /\ l = "armed"         => IF v = 1 THEN {"POWER", "DIRTY_WAKE"} \subseteq x
                              ELSE "WOL" \in x /\ "LINK_DROP" \notin x
    /\ l = "dropped"       => IF v = 1 THEN {"DEINIT", "DIRTY_WAKE"} \subseteq x
                              ELSE "LINK_DROP" \in x

Kept(l, S) == ~raced => Holds(l, S, ctrl2, cfg, major)

\* Thread t is at the m-th instruction of p; the ones with the lock held are
\* in locked, and on ESXi the register is as t has read it in mid.
Runs(t, p, m, locked, mid) ==
    /\ m \in 1 .. Len(p) /\ todo[t] = Rest(p, m)
    /\ mutex = t <=> m \in locked
    /\ m \in mid /\ ~Linux => reg[t] = ctrl2

\* The lives in which no call has the device open.
Down == life \in {"closed", "armed", "dropped"}

Up == life \in {"closed", "armed", "dropped", "open"}

(* The inductive invariant. Each part of it names the positions rtnl can be at in *)
(* a call, the ones that hold the lock, the ones that have just read the register, *)
(* and what the register holds meanwhile. *)

\* No call of rtnl runs.
AtRest == todo["rtnl"] = <<>> /\ mutex # "rtnl" /\ life # "closing" /\ Kept(life, Settings)

\* Probe.
Initing ==
    /\ life = "absent"
    /\ \E m \in 1 .. 6 : \/ Fw1x /\ Runs("rtnl", Init1, m, {}, {})
                         \/ ~Fw1x /\ Runs("rtnl", Init2, m, {}, {})

\* Open, and a close that arms or drops the link: firmware 1.x, then 2.x.
Opening1(m) ==
    /\ Fw1x /\ Down
    /\ Runs("rtnl", Open1, m, 2 .. 7, {4, 5, 9, 11})
    /\ m <= 2 \/ (m = 7 /\ err["rtnl"]) => Kept(life, Settings)
    /\ m \in {10, 11} => raced \/ "SPEED" \in ctrl2
    /\ m >= 12 => Kept("open", Settings)

Opening2(m) ==
    /\ ~Fw1x /\ Down
    /\ Runs("rtnl", Open2(cfg), m, (2 .. 6) \cup (16 .. 18), {4, 8, 11, 17})
    /\ m <= 2 \/ (m = 6 /\ err["rtnl"]) => Kept(life, Settings)
    /\ m >= 9 => Kept("open", {"EEE", "PAUSE"})
    /\ m >= 18 => Kept("open", Settings)

Leaving(m) ==
    /\ m = 1 => life = "open"
    /\ m = 2 => life = "closing"
    /\ m >= 3 => life = "closed"

Closing1(m) ==
    /\ Fw1x /\ Leaving(m)
    /\ \/ /\ Runs("rtnl", Drop1, m, 4 .. 8, {5, 7})
          /\ m >= 8 => Kept("dropped", Settings)
       \/ /\ Runs("rtnl", Arm1, m, 4 .. 8, {5, 7, 14, 16})
          /\ m >= 17 => Kept("armed", Settings)

Closing2(m) ==
    /\ ~Fw1x /\ Leaving(m)
    /\ \/ /\ Runs("rtnl", Drop2, m, 4 .. 6, {5})
          /\ m >= 6 => Kept("dropped", Settings)
       \/ /\ Runs("rtnl", Arm2, m, 4 .. 6, {5, 9, 10, 11, 15, 16, 17})
          /\ m >= 10 => raced \/ "LINK_DROP" \notin ctrl2
          /\ m >= 18 => Kept("armed", Settings)

\* The calls that change no setting.
Asking(m) ==
    /\ Up /\ Kept(life, Settings)
    /\ \/ Fw1x /\ Runs("rtnl", Stats1, m, {2, 3}, {})
       \/ ~Fw1x /\ Runs("rtnl", Stats2, m, 2 .. 6, {3})
       \/ ~Fw1x /\ Runs("rtnl", GetEee2, m, 2 .. 4, {})
       \/ ~Fw1x /\ Runs("rtnl", Nway2, m, 2 .. 4, {3})

\* The calls that do: the register may lag behind the setting, or go ahead of it.
SettingEee(m) ==
    /\ ~Fw1x /\ Up /\ Linux
    /\ \E on \in BOOLEAN :
         /\ Runs("rtnl", SetEee2(on, cfg), m, (2 .. 4) \cup (7 .. 9), {8})
         /\ m >= 6 => on = ("EEE" \in cfg)
    /\ Kept(life, IF m \in 6 .. 8 THEN {"PAUSE", "LOOPBACK"} ELSE Settings)

SettingPause(m) ==
    /\ ~Fw1x /\ Up
    /\ Runs("rtnl", Pause2(cfg), m, 2 .. 4, {3})
    /\ Kept(life, IF m <= 3 THEN {"EEE", "LOOPBACK"} ELSE Settings)

SettingLoop(m) ==
    /\ ~Fw1x /\ Up /\ Linux
    /\ LET c == Toggled(cfg, "LOOPBACK") IN
         /\ Runs("rtnl", Loop2(c), m, 2 .. 4, {3})
         /\ Kept(life, IF m <= 3 THEN Settings ELSE {"EEE", "PAUSE"})
         /\ m >= 4 /\ life = "open" => raced \/ ("LOOPBACK" \in ctrl2) = ("LOOPBACK" \in c)

RtnlInv ==
    \/ AtRest \/ Initing
    \/ \E m \in 1 .. 19 :
         \/ Opening1(m) \/ Opening2(m) \/ Closing1(m) \/ Closing2(m) \/ Asking(m)
         \/ SettingEee(m) \/ SettingPause(m) \/ SettingLoop(m)

\* The service task, which runs only while the device is open or closes.
ServiceInv ==
    \/ todo["service"] = <<>> /\ mutex # "service"
    \/ /\ life \in {"open", "closing"}
       /\ \E m \in 1 .. 6 :
            \/ Fw1x /\ Runs("service", Stats1, m, {2, 3}, {})
            \/ ~Fw1x /\ Runs("service", Stats2, m, 2 .. 6, {3})

\* The calls of user space, for firmware 2.x on Linux.
UserInv ==
    \/ todo["user"] = <<>> /\ mutex # "user"
    \/ /\ life # "absent" /\ Linux /\ ~Fw1x
       /\ \E m \in 1 .. 6 :
            \/ Runs("user", Temp2, m, 2 .. 6, {3})
            \/ Runs("user", Cable2, m, 2 .. 3, {})
            \/ Runs("user", Request2, m, 2 .. 6, {4})

\* What of the types the steps below need.
CallTypes ==
    /\ todo = [t \in Threads |-> todo[t]] /\ reg = [t \in Threads |-> reg[t]]
    /\ err \in [Threads -> BOOLEAN]
    /\ raced \in BOOLEAN
    /\ life \in {"absent", "closed", "open", "closing", "armed", "dropped"}

SetInv == CallTypes /\ RtnlInv /\ ServiceInv /\ UserInv /\ (raced => Linux)

-----------------------------------------------------------------------------
(* How a step moves a thread in its program. *)

\* The instructions that can fail.
Failing == {"try", "answer", "until_set", "upload", "rpc_call", "rpc_wait", "ops"}

\* From the m-th instruction of p to the n-th; e and e2 are its error before and after.
Move(p, m, n, e, e2) ==
    \/ /\ n = m + 1 /\ (p[m].i = "unlock_check" => ~e)
       /\ IF p[m].i \in Stops THEN ~e2 ELSE e2 = e
    \/ n = m /\ p[m].i \in {"reset", "rpc_wait"} /\ e2 = e
    \/ p[m].i \in Failing /\ ErrorGoes(p, m, n, Stops) /\ e2 = (n <= Len(p))
    \/ p[m].i = "reset" /\ ErrorGoes(p, m, n, {"unlock_check"}) /\ e2 = (n <= Len(p))
    \/ p[m].i = "unlock_check" /\ n = Len(p) + 1 /\ e /\ ~e2

\* The same, whatever the error.
Follows(p, m, n) ==
    \/ n = m + 1
    \/ n = m /\ p[m].i \in {"reset", "rpc_wait"}
    \/ p[m].i \in Failing /\ ErrorGoes(p, m, n, Stops)
    \/ p[m].i = "reset" /\ ErrorGoes(p, m, n, {"unlock_check"})
    \/ p[m].i = "unlock_check" /\ n = Len(p) + 1

LEMMA MoveFollows ==
    ASSUME NEW p, NEW m \in Nat, NEW n \in Nat, NEW e \in BOOLEAN, NEW e2 \in BOOLEAN,
           Move(p, m, n, e, e2)
    PROVE  /\ Follows(p, m, n)
           /\ p[m].i = "return" => ~e2
           /\ p[m].i = "unlock_check" /\ n # m + 1 => e
  BY DEF Move, Follows, Stops, Failing

\* The instructions that release the lock, and the ones after which a thread knows
\* the register no more.
Unlocks == {"unlock", "unlock_check"}

Forgets == Stops \cup {"become", "reset"}

\* Every path of p has the lock at the instructions in locked and has read the
\* register at the ones in mid: a write is in mid, a release in locked.
Guarded(p, locked, mid) ==
    /\ 1 \notin locked \cup mid
    /\ \A m \in 1 .. Len(p) :
         /\ p[m].i \in {"write", "toggle"} => m \in mid
         /\ p[m].i \in Unlocks => m \in locked
    /\ \A m \in 1 .. Len(p), n \in Int, e, e2 \in BOOLEAN :
         Move(p, m, n, e, e2) =>
           /\ n \in 1 .. Len(p) + 1
           /\ n <= Len(p) => (n \in locked <=> IF p[m].i = "lock" THEN TRUE
                                       ELSE m \in locked /\ p[m].i \notin Unlocks)
           /\ n = Len(p) + 1 => p[m].i # "lock" /\ (m \notin locked \/ p[m].i \in Unlocks)
           /\ n \in mid => \/ p[m].i \in {"read", "write", "toggle"}
                           \/ m \in mid /\ p[m].i \notin Forgets

\* The fields of the instructions.
LEMMA OpOf ==
    /\ Lock.i = "lock" /\ Unlock.i = "unlock" /\ UnlockCheck.i = "unlock_check"
    /\ Read.i = "read" /\ Try.i = "try" /\ RpcWait.i = "rpc_wait" /\ Account.i = "account"
    /\ \A x : Do(x).i = x
    /\ \A x \in BOOLEAN : Return(x).i = "return" /\ Return(x).stale = x
    /\ Return(TRUE).i = "return" /\ Return(FALSE).i = "return"
    /\ \A x, y : Write(x, y).i = "write" /\ Write(x, y).on = x /\ Write(x, y).off = y
    /\ \A x : Toggle(x).i = "toggle" /\ Toggle(x).bit = x
    /\ \A x : Answer(x).i = "answer" /\ Answer(x).bit = x
    /\ \A x : AnswerOrNot(x).i = "answer_or_not" /\ AnswerOrNot(x).bit = x
    /\ \A x : UntilSet(x).i = "until_set" /\ UntilSet(x).bit = x
    /\ \A x : Upload(x).i = "upload" /\ Upload(x).msg = x
    /\ \A x : RpcCall(x).i = "rpc_call" /\ RpcCall(x).msg = x
    /\ \A x : SetCfg(x).i = "cfg" /\ SetCfg(x).cfg = x
    /\ \A x : Become(x).i = "become" /\ Become(x).life = x
  BY DEF Lock, Unlock, UnlockCheck, Read, Try, RpcWait, Account, Do, Return, Write, Toggle,
         Answer, AnswerOrNot, UntilSet, Upload, RpcCall, SetCfg, Become

-----------------------------------------------------------------------------
(* For each program: what it is position by position, that its lock and its reads *)
(* are in place, and where each instruction leads. *)

LEMMA Init1Is ==
    /\ IsProgram(Init1) /\ Len(Init1) = 6
    /\ Init1[1] = Do("reset") /\ Init1[2] = Do("ops") /\ Init1[3] = Try /\ Init1[4] = Try
    /\ Init1[5] = RpcWait /\ Init1[6] = Become("closed")
<1> DEFINE S == {Do("reset"), Do("ops"), Try, RpcWait, Become("closed")}
<1>1. Init1 \in Seq(S)
  BY DEF Init1
<1> HIDE DEF S
<1>2. IsProgram(Init1)
  BY <1>1 DEF IsProgram
<1> QED BY <1>2 DEF Init1

LEMMA Init1Ops ==
    /\ Init1[1].i = "reset" /\ Init1[2].i = "ops" /\ Init1[3].i = "try"
    /\ Init1[4].i = "try" /\ Init1[5].i = "rpc_wait" /\ Init1[6].i = "become"
  BY OpOf DEF Init1

LEMMA Init1Guarded ==
    Guarded(Init1, {}, {})
  BY Init1Is, Init1Ops DEF Guarded, Move, ErrorGoes, Stops, Failing, Unlocks, Forgets

LEMMA Init1Move ==
    ASSUME NEW m \in 1 .. 6, NEW n \in Int, Follows(Init1, m, n)
    PROVE  \/ n = m + 1
           \/ n = m /\ m \in {1, 5}
           \/ m \in {1, 2, 3, 4, 5} /\ n = 7
  BY Init1Is, Init1Ops DEF Follows, ErrorGoes, Stops, Failing

LEMMA Init2Is ==
    /\ IsProgram(Init2) /\ Len(Init2) = 5
    /\ Init2[1] = Do("reset") /\ Init2[2] = Do("ops") /\ Init2[3] = Try /\ Init2[4] = Try
    /\ Init2[5] = Become("closed")
<1> DEFINE S == {Do("reset"), Do("ops"), Try, Become("closed")}
<1>1. Init2 \in Seq(S)
  BY DEF Init2
<1> HIDE DEF S
<1>2. IsProgram(Init2)
  BY <1>1 DEF IsProgram
<1> QED BY <1>2 DEF Init2

LEMMA Init2Ops ==
    /\ Init2[1].i = "reset" /\ Init2[2].i = "ops" /\ Init2[3].i = "try"
    /\ Init2[4].i = "try" /\ Init2[5].i = "become"
  BY OpOf DEF Init2

LEMMA Init2Guarded ==
    Guarded(Init2, {}, {})
  BY Init2Is, Init2Ops DEF Guarded, Move, ErrorGoes, Stops, Failing, Unlocks, Forgets

LEMMA Init2Move ==
    ASSUME NEW m \in 1 .. 5, NEW n \in Int, Follows(Init2, m, n)
    PROVE  \/ n = m + 1
           \/ n = m /\ m = 1
           \/ m \in {1, 2, 3, 4} /\ n = 6
  BY Init2Is, Init2Ops DEF Follows, ErrorGoes, Stops, Failing

LEMMA Open1Is ==
    /\ IsProgram(Open1) /\ Len(Open1) = 15
    /\ Open1[1] = Lock /\ Open1[2] = Do("reset") /\ Open1[3] = Read /\ Open1[4] = Try
    /\ Open1[5] = Write({"RESET"}, States1x \cup {"DIRTY_WAKE"})
    /\ Open1[6] = Return(FALSE) /\ Open1[7] = UnlockCheck /\ Open1[8] = Read
    /\ Open1[9] = Write({"SPEED"}, {"SPEED"}) /\ Open1[10] = Read
    /\ Open1[11] = Write({"INIT"}, States1x \cup {"DIRTY_WAKE"})
    /\ Open1[12] = Do("no_link") /\ Open1[13] = Account /\ Open1[14] = Return(TRUE)
    /\ Open1[15] = Become("open")
<1> DEFINE S == {Lock, Do("reset"), Read, Try,
                 Write({"RESET"}, States1x \cup {"DIRTY_WAKE"}), Return(FALSE),
                 UnlockCheck, Write({"SPEED"}, {"SPEED"}),
                 Write({"INIT"}, States1x \cup {"DIRTY_WAKE"}), Do("no_link"), Account,
                 Return(TRUE), Become("open")}
<1>1. Open1 \in Seq(S)
  BY DEF Open1
<1> HIDE DEF S
<1>2. IsProgram(Open1)
  BY <1>1 DEF IsProgram
<1> QED BY <1>2 DEF Open1

LEMMA Open1Ops ==
    /\ Open1[1].i = "lock" /\ Open1[2].i = "reset" /\ Open1[3].i = "read"
    /\ Open1[4].i = "try" /\ Open1[5].i = "write" /\ Open1[6].i = "return"
    /\ Open1[7].i = "unlock_check" /\ Open1[8].i = "read" /\ Open1[9].i = "write"
    /\ Open1[10].i = "read" /\ Open1[11].i = "write" /\ Open1[12].i = "no_link"
    /\ Open1[13].i = "account" /\ Open1[14].i = "return" /\ Open1[15].i = "become"
<1>1. /\ Open1[6].i = "return" /\ Open1[14].i = "return"
  BY OpOf DEF Open1
<1>2. /\ Open1[1].i = "lock" /\ Open1[2].i = "reset" /\ Open1[3].i = "read"
      /\ Open1[4].i = "try" /\ Open1[5].i = "write" /\ Open1[7].i = "unlock_check"
  BY OpOf DEF Open1
<1>3. /\ Open1[8].i = "read" /\ Open1[9].i = "write" /\ Open1[10].i = "read"
      /\ Open1[11].i = "write" /\ Open1[12].i = "no_link" /\ Open1[13].i = "account"
      /\ Open1[15].i = "become"
  BY OpOf DEF Open1
<1> QED BY <1>1, <1>2, <1>3

LEMMA Open1Guarded ==
    Guarded(Open1, 2 .. 7, {4, 5, 9, 11})
<1> DEFINE p == Open1
<1>1. Len(p) = 15
  BY Open1Is
<1>2. /\ p[1].i = "lock" /\ p[2].i = "reset" /\ p[3].i = "read" /\ p[4].i = "try"
      /\ p[5].i = "write" /\ p[6].i = "return" /\ p[7].i = "unlock_check"
      /\ p[8].i = "read" /\ p[9].i = "write" /\ p[10].i = "read" /\ p[11].i = "write"
      /\ p[12].i = "no_link" /\ p[13].i = "account" /\ p[14].i = "return"
      /\ p[15].i = "become"
  BY Open1Ops
<1> HIDE DEF p
<1>3. Guarded(p, 2 .. 7, {4, 5, 9, 11})
  BY <1>1, <1>2 DEF Guarded, Move, ErrorGoes, Stops, Failing, Unlocks, Forgets
<1> QED BY <1>3 DEF p

LEMMA Open1Move ==
    ASSUME NEW m \in 1 .. 15, NEW n \in Int, Follows(Open1, m, n)
    PROVE  \/ n = m + 1
           \/ n = m /\ m = 2
           \/ m = 4 /\ n = 6
           \/ m = 2 /\ n = 7
           \/ m = 7 /\ n = 16
<1> DEFINE p == Open1
<1>1. Len(p) = 15 /\ Follows(p, m, n)
  BY Open1Is
<1>2. /\ p[1].i = "lock" /\ p[2].i = "reset" /\ p[3].i = "read" /\ p[4].i = "try"
      /\ p[5].i = "write" /\ p[6].i = "return" /\ p[7].i = "unlock_check"
      /\ p[8].i = "read" /\ p[9].i = "write" /\ p[10].i = "read" /\ p[11].i = "write"
      /\ p[12].i = "no_link" /\ p[13].i = "account" /\ p[14].i = "return"
      /\ p[15].i = "become"
  BY Open1Ops
<1> HIDE DEF p
<1>3. n = m + 1 \/ (p[m].i \in {"reset", "rpc_wait"} \cup Failing \cup {"unlock_check"})
  BY <1>1 DEF Follows
<1>4. m \in {2, 4, 7} \/ n = m + 1
  BY <1>2, <1>3 DEF Failing
<1>5. CASE m = 2
  <2>1. n = 3 \/ n = 2 \/ ErrorGoes(p, 2, n, {"unlock_check"})
    BY <1>1, <1>2, <1>5 DEF Follows, Failing, Stops
  <2>2. ErrorGoes(p, 2, n, {"unlock_check"}) => n = 7
    BY <1>1, <1>2 DEF ErrorGoes, Stops
  <2> QED BY <1>5, <2>1, <2>2
<1>6. CASE m = 4
  <2>1. n = 5 \/ ErrorGoes(p, 4, n, Stops)
    BY <1>1, <1>2, <1>6 DEF Follows, Failing, Stops
  <2>2. ErrorGoes(p, 4, n, Stops) => n = 6
    BY <1>1, <1>2 DEF ErrorGoes, Stops
  <2> QED BY <1>6, <2>1, <2>2
<1>7. CASE m = 7
  <2>1. p[m].i = "unlock_check"
    BY <1>2, <1>7
  <2>2. n = m + 1 \/ n = Len(p) + 1
    BY <1>1, <2>1 DEF Follows, Failing
  <2> QED BY <1>1, <1>7, <2>2
<1> QED BY <1>4, <1>5, <1>6, <1>7

LEMMA Open2Is ==
    ASSUME NEW c
    PROVE  /\ IsProgram(Open2(c)) /\ Len(Open2(c)) = 19
           /\ Open2(c)[1] = Lock /\ Open2(c)[2] = Do("reset") /\ Open2(c)[3] = Read
           /\ Open2(c)[4] = Write({}, {}) /\ Open2(c)[5] = Return(FALSE)
           /\ Open2(c)[6] = UnlockCheck /\ Open2(c)[7] = Read
           /\ Open2(c)[8] = Write(c \cap {"EEE", "PAUSE"}, {"LINK_DROP", "EEE", "PAUSE"})
           /\ Open2(c)[9] = Do("no_link") /\ Open2(c)[10] = Read
           /\ Open2(c)[11] = Toggle("STATS") /\ Open2(c)[12] = Answer("STATS")
           /\ Open2(c)[13] = Account /\ Open2(c)[14] = Return(TRUE) /\ Open2(c)[15] = Lock
           /\ Open2(c)[16] = Read
           /\ Open2(c)[17] = Write(c \cap {"LOOPBACK"}, {"LOOPBACK"})
           /\ Open2(c)[18] = Unlock /\ Open2(c)[19] = Become("open")
<1> DEFINE S == {Lock, Do("reset"), Read, Write({}, {}), Return(FALSE), UnlockCheck,
                 Write(c \cap {"EEE", "PAUSE"}, {"LINK_DROP", "EEE", "PAUSE"}),
                 Do("no_link"), Toggle("STATS"), Answer("STATS"), Account, Return(TRUE),
                 Write(c \cap {"LOOPBACK"}, {"LOOPBACK"}), Unlock, Become("open")}
<1>1. Open2(c) \in Seq(S)
  BY DEF Open2
<1> HIDE DEF S
<1>2. IsProgram(Open2(c))
  BY <1>1 DEF IsProgram
<1> QED BY <1>2 DEF Open2

LEMMA Open2Ops ==
    ASSUME NEW c
    PROVE  /\ Open2(c)[1].i = "lock" /\ Open2(c)[2].i = "reset" /\ Open2(c)[3].i = "read"
           /\ Open2(c)[4].i = "write" /\ Open2(c)[5].i = "return"
           /\ Open2(c)[6].i = "unlock_check" /\ Open2(c)[7].i = "read"
           /\ Open2(c)[8].i = "write" /\ Open2(c)[9].i = "no_link"
           /\ Open2(c)[10].i = "read" /\ Open2(c)[11].i = "toggle"
           /\ Open2(c)[12].i = "answer" /\ Open2(c)[13].i = "account"
           /\ Open2(c)[14].i = "return" /\ Open2(c)[15].i = "lock"
           /\ Open2(c)[16].i = "read" /\ Open2(c)[17].i = "write"
           /\ Open2(c)[18].i = "unlock" /\ Open2(c)[19].i = "become"
<1>1. /\ Open2(c)[5].i = "return" /\ Open2(c)[14].i = "return"
  BY OpOf DEF Open2
<1>2. /\ Open2(c)[1].i = "lock" /\ Open2(c)[2].i = "reset" /\ Open2(c)[3].i = "read"
      /\ Open2(c)[4].i = "write" /\ Open2(c)[6].i = "unlock_check"
      /\ Open2(c)[7].i = "read" /\ Open2(c)[8].i = "write" /\ Open2(c)[9].i = "no_link"
  BY OpOf DEF Open2
<1>3. /\ Open2(c)[10].i = "read" /\ Open2(c)[11].i = "toggle" /\ Open2(c)[12].i = "answer"
      /\ Open2(c)[13].i = "account" /\ Open2(c)[15].i = "lock" /\ Open2(c)[16].i = "read"
      /\ Open2(c)[17].i = "write" /\ Open2(c)[18].i = "unlock" /\ Open2(c)[19].i = "become"
  BY OpOf DEF Open2
<1> QED BY <1>1, <1>2, <1>3

LEMMA Open2Guarded ==
    ASSUME NEW c
    PROVE  Guarded(Open2(c), (2 .. 6) \cup (16 .. 18), {4, 8, 11, 17})
<1> DEFINE p == Open2(c)
<1>1. Len(p) = 19
  BY Open2Is
<1>2. /\ p[1].i = "lock" /\ p[2].i = "reset" /\ p[3].i = "read" /\ p[4].i = "write"
      /\ p[5].i = "return" /\ p[6].i = "unlock_check" /\ p[7].i = "read"
      /\ p[8].i = "write" /\ p[9].i = "no_link" /\ p[10].i = "read" /\ p[11].i = "toggle"
      /\ p[12].i = "answer" /\ p[13].i = "account" /\ p[14].i = "return"
      /\ p[15].i = "lock" /\ p[16].i = "read" /\ p[17].i = "write" /\ p[18].i = "unlock"
      /\ p[19].i = "become"
  BY Open2Ops
<1> HIDE DEF p
<1>3. Guarded(p, (2 .. 6) \cup (16 .. 18), {4, 8, 11, 17})
  BY <1>1, <1>2 DEF Guarded, Move, ErrorGoes, Stops, Failing, Unlocks, Forgets
<1> QED BY <1>3 DEF p

LEMMA Open2Move ==
    ASSUME NEW c,
           NEW m \in 1 .. 19, NEW n \in Int, Follows(Open2(c), m, n)
    PROVE  \/ n = m + 1
           \/ n = m /\ m = 2
           \/ m = 2 /\ n = 6
           \/ m = 12 /\ n = 14
           \/ m = 6 /\ n = 20
<1> DEFINE p == Open2(c)
<1>1. Len(p) = 19 /\ Follows(p, m, n)
  BY Open2Is
<1>2. /\ p[1].i = "lock" /\ p[2].i = "reset" /\ p[3].i = "read" /\ p[4].i = "write"
      /\ p[5].i = "return" /\ p[6].i = "unlock_check" /\ p[7].i = "read"
      /\ p[8].i = "write" /\ p[9].i = "no_link" /\ p[10].i = "read" /\ p[11].i = "toggle"
      /\ p[12].i = "answer" /\ p[13].i = "account" /\ p[14].i = "return"
      /\ p[15].i = "lock" /\ p[16].i = "read" /\ p[17].i = "write" /\ p[18].i = "unlock"
      /\ p[19].i = "become"
  BY Open2Ops
<1> HIDE DEF p
<1>3. n = m + 1 \/ (p[m].i \in {"reset", "rpc_wait"} \cup Failing \cup {"unlock_check"})
  BY <1>1 DEF Follows
<1>4. m \in {2, 6, 12} \/ n = m + 1
  BY <1>2, <1>3 DEF Failing
<1>5. CASE m = 2
  <2>1. n = 3 \/ n = 2 \/ ErrorGoes(p, 2, n, {"unlock_check"})
    BY <1>1, <1>2, <1>5 DEF Follows, Failing, Stops
  <2>2. ErrorGoes(p, 2, n, {"unlock_check"}) => n = 6
    BY <1>1, <1>2 DEF ErrorGoes, Stops
  <2> QED BY <1>5, <2>1, <2>2
<1>6. CASE m = 6
  <2>1. p[m].i = "unlock_check"
    BY <1>2, <1>6
  <2>2. n = m + 1 \/ n = Len(p) + 1
    BY <1>1, <2>1 DEF Follows, Failing
  <2> QED BY <1>1, <1>6, <2>2
<1>7. CASE m = 12
  <2>1. n = 13 \/ ErrorGoes(p, 12, n, Stops)
    BY <1>1, <1>2, <1>7 DEF Follows, Failing, Stops
  <2>2. ErrorGoes(p, 12, n, Stops) => n = 14
    BY <1>1, <1>2 DEF ErrorGoes, Stops
  <2> QED BY <1>7, <2>1, <2>2
<1> QED BY <1>4, <1>5, <1>6, <1>7

LEMMA Drop1Is ==
    /\ IsProgram(Drop1) /\ Len(Drop1) = 9
    /\ Drop1[1] = Become("closing") /\ Drop1[2] = Become("closed") /\ Drop1[3] = Lock
    /\ Drop1[4] = Read /\ Drop1[5] = Write({}, {"SPEED"}) /\ Drop1[6] = Read
    /\ Drop1[7] = Write({"DEINIT", "DIRTY_WAKE"}, States1x \cup {"DIRTY_WAKE"})
    /\ Drop1[8] = Unlock /\ Drop1[9] = Become("dropped")
<1> DEFINE S == {Become("closing"), Become("closed"), Lock, Read, Write({}, {"SPEED"}),
                 Write({"DEINIT", "DIRTY_WAKE"}, States1x \cup {"DIRTY_WAKE"}), Unlock,
                 Become("dropped")}
<1>1. Drop1 \in Seq(S)
  BY DEF Drop1
<1> HIDE DEF S
<1>2. IsProgram(Drop1)
  BY <1>1 DEF IsProgram
<1> QED BY <1>2 DEF Drop1

LEMMA Drop1Ops ==
    /\ Drop1[1].i = "become" /\ Drop1[2].i = "become" /\ Drop1[3].i = "lock"
    /\ Drop1[4].i = "read" /\ Drop1[5].i = "write" /\ Drop1[6].i = "read"
    /\ Drop1[7].i = "write" /\ Drop1[8].i = "unlock" /\ Drop1[9].i = "become"
  BY OpOf DEF Drop1

LEMMA Drop1Guarded ==
    Guarded(Drop1, 4 .. 8, {5, 7})
  BY Drop1Is, Drop1Ops DEF Guarded, Move, ErrorGoes, Stops, Failing, Unlocks, Forgets

LEMMA Drop1Move ==
    ASSUME NEW m \in 1 .. 9, NEW n \in Int, Follows(Drop1, m, n)
    PROVE  n = m + 1
  BY Drop1Is, Drop1Ops DEF Follows, ErrorGoes, Stops, Failing

LEMMA Drop2Is ==
    /\ IsProgram(Drop2) /\ Len(Drop2) = 7
    /\ Drop2[1] = Become("closing") /\ Drop2[2] = Become("closed") /\ Drop2[3] = Lock
    /\ Drop2[4] = Read /\ Drop2[5] = Write({"LINK_DROP"}, {}) /\ Drop2[6] = Unlock
    /\ Drop2[7] = Become("dropped")
<1> DEFINE S == {Become("closing"), Become("closed"), Lock, Read, Write({"LINK_DROP"}, {}),
                 Unlock, Become("dropped")}
<1>1. Drop2 \in Seq(S)
  BY DEF Drop2
<1> HIDE DEF S
<1>2. IsProgram(Drop2)
  BY <1>1 DEF IsProgram
<1> QED BY <1>2 DEF Drop2

LEMMA Drop2Ops ==
    /\ Drop2[1].i = "become" /\ Drop2[2].i = "become" /\ Drop2[3].i = "lock"
    /\ Drop2[4].i = "read" /\ Drop2[5].i = "write" /\ Drop2[6].i = "unlock"
    /\ Drop2[7].i = "become"
  BY OpOf DEF Drop2

LEMMA Drop2Guarded ==
    Guarded(Drop2, 4 .. 6, {5})
  BY Drop2Is, Drop2Ops DEF Guarded, Move, ErrorGoes, Stops, Failing, Unlocks, Forgets

LEMMA Drop2Move ==
    ASSUME NEW m \in 1 .. 7, NEW n \in Int, Follows(Drop2, m, n)
    PROVE  n = m + 1
  BY Drop2Is, Drop2Ops DEF Follows, ErrorGoes, Stops, Failing

LEMMA Arm1Is ==
    /\ IsProgram(Arm1) /\ Len(Arm1) = 17
    /\ Arm1[1] = Become("closing") /\ Arm1[2] = Become("closed") /\ Arm1[3] = Lock
    /\ Arm1[4] = Read /\ Arm1[5] = Write({}, {"SPEED"}) /\ Arm1[6] = Read
    /\ Arm1[7] = Write({"DEINIT", "DIRTY_WAKE"}, States1x \cup {"DIRTY_WAKE"})
    /\ Arm1[8] = Unlock /\ Arm1[9] = RpcWait /\ Arm1[10] = RpcCall("wol")
    /\ Arm1[11] = RpcWait /\ Arm1[12] = RpcCall("wakeup") /\ Arm1[13] = Read
    /\ Arm1[14] = Write({}, {"SPEED"}) /\ Arm1[15] = Read
    /\ Arm1[16] = Write({"POWER", "DIRTY_WAKE"}, States1x \cup {"DIRTY_WAKE"})
    /\ Arm1[17] = Become("armed")
<1> DEFINE S == {Become("closing"), Become("closed"), Lock, Read, Write({}, {"SPEED"}),
                 Write({"DEINIT", "DIRTY_WAKE"}, States1x \cup {"DIRTY_WAKE"}), Unlock,
                 RpcWait, RpcCall("wol"), RpcCall("wakeup"),
                 Write({"POWER", "DIRTY_WAKE"}, States1x \cup {"DIRTY_WAKE"}),
                 Become("armed")}
<1>1. Arm1 \in Seq(S)
  BY DEF Arm1
<1> HIDE DEF S
<1>2. IsProgram(Arm1)
  BY <1>1 DEF IsProgram
<1> QED BY <1>2 DEF Arm1

LEMMA Arm1Ops ==
    /\ Arm1[1].i = "become" /\ Arm1[2].i = "become" /\ Arm1[3].i = "lock"
    /\ Arm1[4].i = "read" /\ Arm1[5].i = "write" /\ Arm1[6].i = "read"
    /\ Arm1[7].i = "write" /\ Arm1[8].i = "unlock" /\ Arm1[9].i = "rpc_wait"
    /\ Arm1[10].i = "rpc_call" /\ Arm1[11].i = "rpc_wait" /\ Arm1[12].i = "rpc_call"
    /\ Arm1[13].i = "read" /\ Arm1[14].i = "write" /\ Arm1[15].i = "read"
    /\ Arm1[16].i = "write" /\ Arm1[17].i = "become"
  BY OpOf DEF Arm1

LEMMA Arm1Guarded ==
    Guarded(Arm1, 4 .. 8, {5, 7, 14, 16})
  BY Arm1Is, Arm1Ops DEF Guarded, Move, ErrorGoes, Stops, Failing, Unlocks, Forgets

LEMMA Arm1Move ==
    ASSUME NEW m \in 1 .. 17, NEW n \in Int, Follows(Arm1, m, n)
    PROVE  \/ n = m + 1
           \/ n = m /\ m \in {9, 11}
           \/ m \in {9, 10, 11, 12} /\ n = 18
  BY Arm1Is, Arm1Ops DEF Follows, ErrorGoes, Stops, Failing

LEMMA Arm2Is ==
    /\ IsProgram(Arm2) /\ Len(Arm2) = 19
    /\ Arm2[1] = Become("closing") /\ Arm2[2] = Become("closed") /\ Arm2[3] = Lock
    /\ Arm2[4] = Read /\ Arm2[5] = Write({"LINK_DROP"}, {}) /\ Arm2[6] = Unlock
    /\ Arm2[7] = RpcWait /\ Arm2[8] = Read /\ Arm2[9] = Write({}, {"PROXY", "LINK_DROP"})
    /\ Arm2[10] = RpcCall("proxy") /\ Arm2[11] = Write({"PROXY"}, {})
    /\ Arm2[12] = UntilSet("PROXY") /\ Arm2[13] = RpcWait /\ Arm2[14] = Read
    /\ Arm2[15] = Write({}, {"PROXY", "WOL"}) /\ Arm2[16] = RpcCall("wol")
    /\ Arm2[17] = Write({"WOL"}, {}) /\ Arm2[18] = UntilSet("WOL")
    /\ Arm2[19] = Become("armed")
<1> DEFINE S == {Become("closing"), Become("closed"), Lock, Read, Write({"LINK_DROP"}, {}),
                 Unlock, RpcWait, Write({}, {"PROXY", "LINK_DROP"}), RpcCall("proxy"),
                 Write({"PROXY"}, {}), UntilSet("PROXY"), Write({}, {"PROXY", "WOL"}),
                 RpcCall("wol"), Write({"WOL"}, {}), UntilSet("WOL"), Become("armed")}
<1>1. Arm2 \in Seq(S)
  BY DEF Arm2
<1> HIDE DEF S
<1>2. IsProgram(Arm2)
  BY <1>1 DEF IsProgram
<1> QED BY <1>2 DEF Arm2

LEMMA Arm2Ops ==
    /\ Arm2[1].i = "become" /\ Arm2[2].i = "become" /\ Arm2[3].i = "lock"
    /\ Arm2[4].i = "read" /\ Arm2[5].i = "write" /\ Arm2[6].i = "unlock"
    /\ Arm2[7].i = "rpc_wait" /\ Arm2[8].i = "read" /\ Arm2[9].i = "write"
    /\ Arm2[10].i = "rpc_call" /\ Arm2[11].i = "write" /\ Arm2[12].i = "until_set"
    /\ Arm2[13].i = "rpc_wait" /\ Arm2[14].i = "read" /\ Arm2[15].i = "write"
    /\ Arm2[16].i = "rpc_call" /\ Arm2[17].i = "write" /\ Arm2[18].i = "until_set"
    /\ Arm2[19].i = "become"
  BY OpOf DEF Arm2

LEMMA Arm2Guarded ==
    Guarded(Arm2, 4 .. 6, {5, 9, 10, 11, 15, 16, 17})
  BY Arm2Is, Arm2Ops DEF Guarded, Move, ErrorGoes, Stops, Failing, Unlocks, Forgets

LEMMA Arm2Move ==
    ASSUME NEW m \in 1 .. 19, NEW n \in Int, Follows(Arm2, m, n)
    PROVE  \/ n = m + 1
           \/ n = m /\ m \in {7, 13}
           \/ m \in {7, 10, 12, 13, 16, 18} /\ n = 20
  BY Arm2Is, Arm2Ops DEF Follows, ErrorGoes, Stops, Failing

LEMMA Stats1Is ==
    /\ IsProgram(Stats1) /\ Len(Stats1) = 3
    /\ Stats1[1] = Lock /\ Stats1[2] = Account /\ Stats1[3] = Unlock
<1> DEFINE S == {Lock, Account, Unlock}
<1>1. Stats1 \in Seq(S)
  BY DEF Stats1
<1> HIDE DEF S
<1>2. IsProgram(Stats1)
  BY <1>1 DEF IsProgram
<1> QED BY <1>2 DEF Stats1

LEMMA Stats1Ops ==
    /\ Stats1[1].i = "lock" /\ Stats1[2].i = "account" /\ Stats1[3].i = "unlock"
  BY OpOf DEF Stats1

LEMMA Stats1Guarded ==
    Guarded(Stats1, {2, 3}, {})
  BY Stats1Is, Stats1Ops DEF Guarded, Move, ErrorGoes, Stops, Failing, Unlocks, Forgets

LEMMA Stats1Move ==
    ASSUME NEW m \in 1 .. 3, NEW n \in Int, Follows(Stats1, m, n)
    PROVE  n = m + 1
  BY Stats1Is, Stats1Ops DEF Follows, ErrorGoes, Stops, Failing

LEMMA Stats2Is ==
    /\ IsProgram(Stats2) /\ Len(Stats2) = 6
    /\ Stats2[1] = Lock /\ Stats2[2] = Read /\ Stats2[3] = Toggle("STATS")
    /\ Stats2[4] = Answer("STATS") /\ Stats2[5] = Account /\ Stats2[6] = Unlock
<1> DEFINE S == {Lock, Read, Toggle("STATS"), Answer("STATS"), Account, Unlock}
<1>1. Stats2 \in Seq(S)
  BY DEF Stats2
<1> HIDE DEF S
<1>2. IsProgram(Stats2)
  BY <1>1 DEF IsProgram
<1> QED BY <1>2 DEF Stats2

LEMMA Stats2Ops ==
    /\ Stats2[1].i = "lock" /\ Stats2[2].i = "read" /\ Stats2[3].i = "toggle"
    /\ Stats2[4].i = "answer" /\ Stats2[5].i = "account" /\ Stats2[6].i = "unlock"
  BY OpOf DEF Stats2

LEMMA Stats2Guarded ==
    Guarded(Stats2, 2 .. 6, {3})
  BY Stats2Is, Stats2Ops DEF Guarded, Move, ErrorGoes, Stops, Failing, Unlocks, Forgets

LEMMA Stats2Move ==
    ASSUME NEW m \in 1 .. 6, NEW n \in Int, Follows(Stats2, m, n)
    PROVE  \/ n = m + 1
           \/ m = 4 /\ n = 6
  BY Stats2Is, Stats2Ops DEF Follows, ErrorGoes, Stops, Failing

LEMMA GetEee2Is ==
    /\ IsProgram(GetEee2) /\ Len(GetEee2) = 4
    /\ GetEee2[1] = Lock /\ GetEee2[2] = Try /\ GetEee2[3] = Try /\ GetEee2[4] = Unlock
<1> DEFINE S == {Lock, Try, Unlock}
<1>1. GetEee2 \in Seq(S)
  BY DEF GetEee2
<1> HIDE DEF S
<1>2. IsProgram(GetEee2)
  BY <1>1 DEF IsProgram
<1> QED BY <1>2 DEF GetEee2

LEMMA GetEee2Ops ==
    /\ GetEee2[1].i = "lock" /\ GetEee2[2].i = "try" /\ GetEee2[3].i = "try"
    /\ GetEee2[4].i = "unlock"
  BY OpOf DEF GetEee2

LEMMA GetEee2Guarded ==
    Guarded(GetEee2, 2 .. 4, {})
  BY GetEee2Is, GetEee2Ops DEF Guarded, Move, ErrorGoes, Stops, Failing, Unlocks, Forgets

LEMMA GetEee2Move ==
    ASSUME NEW m \in 1 .. 4, NEW n \in Int, Follows(GetEee2, m, n)
    PROVE  \/ n = m + 1
           \/ m \in {2, 3} /\ n = 4
  BY GetEee2Is, GetEee2Ops DEF Follows, ErrorGoes, Stops, Failing

LEMMA SetEee2Is ==
    ASSUME NEW on \in BOOLEAN, NEW c
    PROVE  /\ IsProgram(SetEee2(on, c)) /\ Len(SetEee2(on, c)) = 9
           /\ SetEee2(on, c)[1] = Lock /\ SetEee2(on, c)[2] = Try
           /\ SetEee2(on, c)[3] = Try /\ SetEee2(on, c)[4] = UnlockCheck
           /\ SetEee2(on, c)[5] = SetCfg(IF on THEN c \cup {"EEE"} ELSE c \ {"EEE"})
           /\ SetEee2(on, c)[6] = Lock /\ SetEee2(on, c)[7] = Read
           /\ SetEee2(on, c)[8] = Write(IF on THEN {"EEE"} ELSE {}, {"EEE"})
           /\ SetEee2(on, c)[9] = Unlock
<1> DEFINE S == {Lock, Try, UnlockCheck,
                 SetCfg(IF on THEN c \cup {"EEE"} ELSE c \ {"EEE"}), Read,
                 Write(IF on THEN {"EEE"} ELSE {}, {"EEE"}), Unlock}
<1>1. SetEee2(on, c) \in Seq(S)
  BY DEF SetEee2
<1> HIDE DEF S
<1>2. IsProgram(SetEee2(on, c))
  BY <1>1 DEF IsProgram
<1> QED BY <1>2 DEF SetEee2

LEMMA SetEee2Ops ==
    ASSUME NEW on \in BOOLEAN, NEW c
    PROVE  /\ SetEee2(on, c)[1].i = "lock" /\ SetEee2(on, c)[2].i = "try"
           /\ SetEee2(on, c)[3].i = "try" /\ SetEee2(on, c)[4].i = "unlock_check"
           /\ SetEee2(on, c)[5].i = "cfg" /\ SetEee2(on, c)[6].i = "lock"
           /\ SetEee2(on, c)[7].i = "read" /\ SetEee2(on, c)[8].i = "write"
           /\ SetEee2(on, c)[9].i = "unlock"
  BY OpOf DEF SetEee2

LEMMA SetEee2Guarded ==
    ASSUME NEW on \in BOOLEAN, NEW c
    PROVE  Guarded(SetEee2(on, c), (2 .. 4) \cup (7 .. 9), {8})
<1> DEFINE p == SetEee2(on, c)
<1>1. Len(p) = 9
  BY SetEee2Is
<1>2. /\ p[1].i = "lock" /\ p[2].i = "try" /\ p[3].i = "try" /\ p[4].i = "unlock_check"
      /\ p[5].i = "cfg" /\ p[6].i = "lock" /\ p[7].i = "read" /\ p[8].i = "write"
      /\ p[9].i = "unlock"
  BY SetEee2Ops
<1> HIDE DEF p
<1>3. Guarded(p, (2 .. 4) \cup (7 .. 9), {8})
  BY <1>1, <1>2 DEF Guarded, Move, ErrorGoes, Stops, Failing, Unlocks, Forgets
<1> QED BY <1>3 DEF p

LEMMA SetEee2Move ==
    ASSUME NEW on \in BOOLEAN, NEW c,
           NEW m \in 1 .. 9, NEW n \in Int, Follows(SetEee2(on, c), m, n)
    PROVE  \/ n = m + 1
           \/ m \in {2, 3} /\ n = 4
           \/ m = 4 /\ n = 10
<1> DEFINE p == SetEee2(on, c)
<1>1. Len(p) = 9 /\ Follows(p, m, n)
  BY SetEee2Is
<1>2. /\ p[1].i = "lock" /\ p[2].i = "try" /\ p[3].i = "try" /\ p[4].i = "unlock_check"
      /\ p[5].i = "cfg" /\ p[6].i = "lock" /\ p[7].i = "read" /\ p[8].i = "write"
      /\ p[9].i = "unlock"
  BY SetEee2Ops
<1> HIDE DEF p
<1>3. n = m + 1 \/ (p[m].i \in {"reset", "rpc_wait"} \cup Failing \cup {"unlock_check"})
  BY <1>1 DEF Follows
<1>4. m \in {2, 3, 4} \/ n = m + 1
  BY <1>2, <1>3 DEF Failing
<1>5. CASE m = 2
  <2>1. n = 3 \/ ErrorGoes(p, 2, n, Stops)
    BY <1>1, <1>2, <1>5 DEF Follows, Failing, Stops
  <2>2. ErrorGoes(p, 2, n, Stops) => n = 4
    BY <1>1, <1>2 DEF ErrorGoes, Stops
  <2> QED BY <1>5, <2>1, <2>2
<1>6. CASE m = 3
  <2>1. n = 4 \/ ErrorGoes(p, 3, n, Stops)
    BY <1>1, <1>2, <1>6 DEF Follows, Failing, Stops
  <2>2. ErrorGoes(p, 3, n, Stops) => n = 4
    BY <1>1, <1>2 DEF ErrorGoes, Stops
  <2> QED BY <1>6, <2>1, <2>2
<1>7. CASE m = 4
  <2>1. p[m].i = "unlock_check"
    BY <1>2, <1>7
  <2>2. n = m + 1 \/ n = Len(p) + 1
    BY <1>1, <2>1 DEF Follows, Failing
  <2> QED BY <1>1, <1>7, <2>2
<1> QED BY <1>4, <1>5, <1>6, <1>7

LEMMA Pause2Is ==
    ASSUME NEW c
    PROVE  /\ IsProgram(Pause2(c)) /\ Len(Pause2(c)) = 4
           /\ Pause2(c)[1] = Lock /\ Pause2(c)[2] = Read
           /\ Pause2(c)[3] = Write(c \cap {"PAUSE"}, {"PAUSE"}) /\ Pause2(c)[4] = Unlock
<1> DEFINE S == {Lock, Read, Write(c \cap {"PAUSE"}, {"PAUSE"}), Unlock}
<1>1. Pause2(c) \in Seq(S)
  BY DEF Pause2
<1> HIDE DEF S
<1>2. IsProgram(Pause2(c))
  BY <1>1 DEF IsProgram
<1> QED BY <1>2 DEF Pause2

LEMMA Pause2Ops ==
    ASSUME NEW c
    PROVE  /\ Pause2(c)[1].i = "lock" /\ Pause2(c)[2].i = "read"
           /\ Pause2(c)[3].i = "write" /\ Pause2(c)[4].i = "unlock"
  BY OpOf DEF Pause2

LEMMA Pause2Guarded ==
    ASSUME NEW c
    PROVE  Guarded(Pause2(c), 2 .. 4, {3})
<1> DEFINE p == Pause2(c)
<1>1. Len(p) = 4
  BY Pause2Is
<1>2. /\ p[1].i = "lock" /\ p[2].i = "read" /\ p[3].i = "write" /\ p[4].i = "unlock"
  BY Pause2Ops
<1> HIDE DEF p
<1>3. Guarded(p, 2 .. 4, {3})
  BY <1>1, <1>2 DEF Guarded, Move, ErrorGoes, Stops, Failing, Unlocks, Forgets
<1> QED BY <1>3 DEF p

LEMMA Pause2Move ==
    ASSUME NEW c,
           NEW m \in 1 .. 4, NEW n \in Int, Follows(Pause2(c), m, n)
    PROVE  n = m + 1
<1> DEFINE p == Pause2(c)
<1>1. Len(p) = 4 /\ Follows(p, m, n)
  BY Pause2Is
<1>2. /\ p[1].i = "lock" /\ p[2].i = "read" /\ p[3].i = "write" /\ p[4].i = "unlock"
  BY Pause2Ops
<1> HIDE DEF p
<1>3. n = m + 1 \/ (p[m].i \in {"reset", "rpc_wait"} \cup Failing \cup {"unlock_check"})
  BY <1>1 DEF Follows
<1> QED BY <1>2, <1>3 DEF Failing

LEMMA Loop2Is ==
    ASSUME NEW c
    PROVE  /\ IsProgram(Loop2(c)) /\ Len(Loop2(c)) = 5
           /\ Loop2(c)[1] = Lock /\ Loop2(c)[2] = Read
           /\ Loop2(c)[3] = Write(c \cap {"LOOPBACK"}, {"LOOPBACK"})
           /\ Loop2(c)[4] = Unlock /\ Loop2(c)[5] = SetCfg(c)
<1> DEFINE S == {Lock, Read, Write(c \cap {"LOOPBACK"}, {"LOOPBACK"}), Unlock, SetCfg(c)}
<1>1. Loop2(c) \in Seq(S)
  BY DEF Loop2
<1> HIDE DEF S
<1>2. IsProgram(Loop2(c))
  BY <1>1 DEF IsProgram
<1> QED BY <1>2 DEF Loop2

LEMMA Loop2Ops ==
    ASSUME NEW c
    PROVE  /\ Loop2(c)[1].i = "lock" /\ Loop2(c)[2].i = "read" /\ Loop2(c)[3].i = "write"
           /\ Loop2(c)[4].i = "unlock" /\ Loop2(c)[5].i = "cfg"
  BY OpOf DEF Loop2

LEMMA Loop2Guarded ==
    ASSUME NEW c
    PROVE  Guarded(Loop2(c), 2 .. 4, {3})
<1> DEFINE p == Loop2(c)
<1>1. Len(p) = 5
  BY Loop2Is
<1>2. /\ p[1].i = "lock" /\ p[2].i = "read" /\ p[3].i = "write" /\ p[4].i = "unlock"
      /\ p[5].i = "cfg"
  BY Loop2Ops
<1> HIDE DEF p
<1>3. Guarded(p, 2 .. 4, {3})
  BY <1>1, <1>2 DEF Guarded, Move, ErrorGoes, Stops, Failing, Unlocks, Forgets
<1> QED BY <1>3 DEF p

LEMMA Loop2Move ==
    ASSUME NEW c,
           NEW m \in 1 .. 5, NEW n \in Int, Follows(Loop2(c), m, n)
    PROVE  n = m + 1
<1> DEFINE p == Loop2(c)
<1>1. Len(p) = 5 /\ Follows(p, m, n)
  BY Loop2Is
<1>2. /\ p[1].i = "lock" /\ p[2].i = "read" /\ p[3].i = "write" /\ p[4].i = "unlock"
      /\ p[5].i = "cfg"
  BY Loop2Ops
<1> HIDE DEF p
<1>3. n = m + 1 \/ (p[m].i \in {"reset", "rpc_wait"} \cup Failing \cup {"unlock_check"})
  BY <1>1 DEF Follows
<1> QED BY <1>2, <1>3 DEF Failing

LEMMA Nway2Is ==
    /\ IsProgram(Nway2) /\ Len(Nway2) = 4
    /\ Nway2[1] = Lock /\ Nway2[2] = Read /\ Nway2[3] = Write({"RECONNECT"}, {})
    /\ Nway2[4] = Unlock
<1> DEFINE S == {Lock, Read, Write({"RECONNECT"}, {}), Unlock}
<1>1. Nway2 \in Seq(S)
  BY DEF Nway2
<1> HIDE DEF S
<1>2. IsProgram(Nway2)
  BY <1>1 DEF IsProgram
<1> QED BY <1>2 DEF Nway2

LEMMA Nway2Ops ==
    /\ Nway2[1].i = "lock" /\ Nway2[2].i = "read" /\ Nway2[3].i = "write"
    /\ Nway2[4].i = "unlock"
  BY OpOf DEF Nway2

LEMMA Nway2Guarded ==
    Guarded(Nway2, 2 .. 4, {3})
  BY Nway2Is, Nway2Ops DEF Guarded, Move, ErrorGoes, Stops, Failing, Unlocks, Forgets

LEMMA Nway2Move ==
    ASSUME NEW m \in 1 .. 4, NEW n \in Int, Follows(Nway2, m, n)
    PROVE  n = m + 1
  BY Nway2Is, Nway2Ops DEF Follows, ErrorGoes, Stops, Failing

LEMMA Temp2Is ==
    /\ IsProgram(Temp2) /\ Len(Temp2) = 6
    /\ Temp2[1] = Lock /\ Temp2[2] = Read /\ Temp2[3] = Toggle("TEMP")
    /\ Temp2[4] = AnswerOrNot("TEMP") /\ Temp2[5] = Try /\ Temp2[6] = Unlock
<1> DEFINE S == {Lock, Read, Toggle("TEMP"), AnswerOrNot("TEMP"), Try, Unlock}
<1>1. Temp2 \in Seq(S)
  BY DEF Temp2
<1> HIDE DEF S
<1>2. IsProgram(Temp2)
  BY <1>1 DEF IsProgram
<1> QED BY <1>2 DEF Temp2

LEMMA Temp2Ops ==
    /\ Temp2[1].i = "lock" /\ Temp2[2].i = "read" /\ Temp2[3].i = "toggle"
    /\ Temp2[4].i = "answer_or_not" /\ Temp2[5].i = "try" /\ Temp2[6].i = "unlock"
  BY OpOf DEF Temp2

LEMMA Temp2Guarded ==
    Guarded(Temp2, 2 .. 6, {3})
  BY Temp2Is, Temp2Ops DEF Guarded, Move, ErrorGoes, Stops, Failing, Unlocks, Forgets

LEMMA Temp2Move ==
    ASSUME NEW m \in 1 .. 6, NEW n \in Int, Follows(Temp2, m, n)
    PROVE  \/ n = m + 1
           \/ m = 5 /\ n = 6
  BY Temp2Is, Temp2Ops DEF Follows, ErrorGoes, Stops, Failing

LEMMA Cable2Is ==
    /\ IsProgram(Cable2) /\ Len(Cable2) = 3
    /\ Cable2[1] = Lock /\ Cable2[2] = Try /\ Cable2[3] = Unlock
<1> DEFINE S == {Lock, Try, Unlock}
<1>1. Cable2 \in Seq(S)
  BY DEF Cable2
<1> HIDE DEF S
<1>2. IsProgram(Cable2)
  BY <1>1 DEF IsProgram
<1> QED BY <1>2 DEF Cable2

LEMMA Cable2Ops ==
    /\ Cable2[1].i = "lock" /\ Cable2[2].i = "try" /\ Cable2[3].i = "unlock"
  BY OpOf DEF Cable2

LEMMA Cable2Guarded ==
    Guarded(Cable2, 2 .. 3, {})
  BY Cable2Is, Cable2Ops DEF Guarded, Move, ErrorGoes, Stops, Failing, Unlocks, Forgets

LEMMA Cable2Move ==
    ASSUME NEW m \in 1 .. 3, NEW n \in Int, Follows(Cable2, m, n)
    PROVE  \/ n = m + 1
           \/ m = 2 /\ n = 3
  BY Cable2Is, Cable2Ops DEF Follows, ErrorGoes, Stops, Failing

LEMMA Request2Is ==
    /\ IsProgram(Request2) /\ Len(Request2) = 6
    /\ Request2[1] = Lock /\ Request2[2] = Upload("request") /\ Request2[3] = Read
    /\ Request2[4] = Toggle("REQUEST") /\ Request2[5] = Answer("REQUEST")
    /\ Request2[6] = Unlock
<1> DEFINE S == {Lock, Upload("request"), Read, Toggle("REQUEST"), Answer("REQUEST"),
                 Unlock}
<1>1. Request2 \in Seq(S)
  BY DEF Request2
<1> HIDE DEF S
<1>2. IsProgram(Request2)
  BY <1>1 DEF IsProgram
<1> QED BY <1>2 DEF Request2

LEMMA Request2Ops ==
    /\ Request2[1].i = "lock" /\ Request2[2].i = "upload" /\ Request2[3].i = "read"
    /\ Request2[4].i = "toggle" /\ Request2[5].i = "answer" /\ Request2[6].i = "unlock"
  BY OpOf DEF Request2

LEMMA Request2Guarded ==
    Guarded(Request2, 2 .. 6, {4})
  BY Request2Is, Request2Ops DEF Guarded, Move, ErrorGoes, Stops, Failing, Unlocks, Forgets

LEMMA Request2Move ==
    ASSUME NEW m \in 1 .. 6, NEW n \in Int, Follows(Request2, m, n)
    PROVE  \/ n = m + 1
           \/ m \in {2, 5} /\ n = 6
  BY Request2Is, Request2Ops DEF Follows, ErrorGoes, Stops, Failing

-----------------------------------------------------------------------------
(* The programs are what the model takes from the functions of the source. *)

LEMMA CatAt ==
    ASSUME NEW S, NEW p \in Seq(S), NEW q \in Seq(S)
    PROVE  /\ p \o q \in Seq(S) /\ Len(p \o q) = Len(p) + Len(q)
           /\ \A k \in 1 .. Len(p) : (p \o q)[k] = p[k]
           /\ \A k \in 1 .. Len(q) : (p \o q)[Len(p) + k] = q[k]
  OBVIOUS

\* Where an open has its two returns.
LEMMA CatLasts ==
    ASSUME NEW S, NEW a \in S, NEW b \in S, NEW d \in S,
           NEW q1 \in Seq(S), NEW q2 \in Seq(S), NEW q3 \in Seq(S), Len(q1) > 0, Len(q2) > 0
    PROVE  LET p == <<a>> \o q1 \o <<b>> \o q2 \o q3 \o <<d>>
           IN  /\ p[1 + Len(q1)] = q1[Len(q1)]
               /\ p[2 + Len(q1) + Len(q2)] = q2[Len(q2)]
<1> DEFINE A1 == <<a>> \o q1
           A2 == A1 \o <<b>>
           A3 == A2 \o q2
           A4 == A3 \o q3
           p == A4 \o <<d>>
<1>0. <<a>> \in Seq(S) /\ <<b>> \in Seq(S) /\ <<d>> \in Seq(S) /\ Len(<<a>>) = 1 /\ Len(<<b>>) = 1
  OBVIOUS
<1>1. A1 \in Seq(S) /\ Len(A1) = 1 + Len(q1) /\ A1[1 + Len(q1)] = q1[Len(q1)]
  BY <1>0, CatAt
<1> HIDE DEF A1
<1>2. A2 \in Seq(S) /\ Len(A2) = 2 + Len(q1) /\ A2[1 + Len(q1)] = q1[Len(q1)]
  BY <1>0, <1>1, CatAt
<1> HIDE DEF A2
<1>3. /\ A3 \in Seq(S) /\ Len(A3) = 2 + Len(q1) + Len(q2)
      /\ A3[1 + Len(q1)] = q1[Len(q1)] /\ A3[2 + Len(q1) + Len(q2)] = q2[Len(q2)]
  <2>1. /\ A3 \in Seq(S) /\ Len(A3) = Len(A2) + Len(q2)
        /\ \A k \in 1 .. Len(A2) : A3[k] = A2[k]
        /\ \A k \in 1 .. Len(q2) : A3[Len(A2) + k] = q2[k]
    <3>1. A2 \o q2 \in Seq(S) /\ Len(A2 \o q2) = Len(A2) + Len(q2)
      BY <1>2, CatAt
    <3>2. \A k \in 1 .. Len(A2) : (A2 \o q2)[k] = A2[k]
      BY <1>2, CatAt
    <3>3. \A k \in 1 .. Len(q2) : (A2 \o q2)[Len(A2) + k] = q2[k]
      BY <1>2, CatAt
    <3> QED BY <3>1, <3>2, <3>3
  <2> HIDE DEF A3
  <2>2. Len(q1) \in Nat /\ Len(q2) \in Nat
    OBVIOUS
  <2> QED BY <1>2, <2>1, <2>2
<1> HIDE DEF A3
<1>4. /\ A4 \in Seq(S) /\ Len(A4) >= 2 + Len(q1) + Len(q2)
      /\ A4[1 + Len(q1)] = q1[Len(q1)] /\ A4[2 + Len(q1) + Len(q2)] = q2[Len(q2)]
  BY <1>0, <1>3, CatAt
<1> HIDE DEF A4
<1>5. p[1 + Len(q1)] = q1[Len(q1)] /\ p[2 + Len(q1) + Len(q2)] = q2[Len(q2)]
  BY <1>0, <1>4, CatAt
<1> QED BY <1>5 DEF A1, A2, A3, A4

LEMMA ResetReturns ==
    /\ Fw1x => Len(hw_reset) = 5 /\ hw_reset[5] = Return(FALSE)
    /\ ~Fw1x => Len(hw_reset) = 4 /\ hw_reset[4] = Return(FALSE)
<1>1. ASSUME NEW r, NEW q, q = <<Do("reset")>> \o SetState("RESET", {}) \o <<r>>
      PROVE  /\ Fw1x => Len(q) = 5 /\ q[5] = r
             /\ ~Fw1x => Len(q) = 4 /\ q[4] = r
  BY <1>1 DEF SetState, hw_atl_utils_mpi_set_state, aq_fw2x_set_state
<1> QED BY <1>1 DEF hw_reset

LEMMA InitReturns ==
    ASSUME NEW c
    PROVE  /\ Fw1x => Len(hw_init(c)) = 7 /\ hw_init(c)[7] = Return(TRUE)
           /\ ~Fw1x => Len(hw_init(c)) = 8 /\ hw_init(c)[8] = Return(TRUE)
<1>1. ASSUME NEW r, NEW q,
             q = SetLinkSpeed \o SetState("INIT", c) \o <<Do("no_link")>> \o UpdateStats \o <<r>>
      PROVE  /\ Fw1x => Len(q) = 7 /\ q[7] = r
             /\ ~Fw1x => Len(q) = 8 /\ q[8] = r
  BY <1>1 DEF SetState, hw_atl_utils_mpi_set_state, aq_fw2x_set_state, SetLinkSpeed,
     hw_atl_utils_mpi_set_speed,
     UpdateStats, hw_atl_utils_update_stats, aq_fw2x_update_stats
<1> QED BY <1>1 DEF hw_init

LEMMA Init1Code ==
    ASSUME Fw1x
    PROVE  hw_atl_utils_initfw = Init1
<1> USE DEF hw_atl_utils_initfw, FwInit, hw_atl_utils_mpi_create
<1> DEFINE S == {Do("reset"), Do("ops"), Try, RpcWait, Become("closed")}
           p == hw_atl_utils_initfw
<1>1. p \in Seq(S) /\ Len(p) = 6
  OBVIOUS
<1>2. /\ p[1] = Do("reset") /\ p[2] = Do("ops") /\ p[3] = Try /\ p[4] = Try
      /\ p[5] = RpcWait /\ p[6] = Become("closed")
  OBVIOUS
<1>3. Init1 \in Seq(S)
  BY DEF Init1
<1> HIDE DEF S, p, hw_atl_utils_initfw, FwInit, hw_atl_utils_mpi_create
<1>4. Len(Init1) = 6
  BY Init1Is
<1>5. \A k \in 1 .. 6 : p[k] = Init1[k]
  BY <1>2, Init1Is
<1>6. p = Init1
  BY <1>1, <1>3, <1>4, <1>5, SameSeq
<1> QED BY <1>6 DEF p

LEMMA Init2Code ==
    ASSUME ~Fw1x
    PROVE  hw_atl_utils_initfw = Init2
<1> USE DEF hw_atl_utils_initfw, FwInit, aq_fw2x_init
<1> DEFINE S == {Do("reset"), Do("ops"), Try, Become("closed")}
           p == hw_atl_utils_initfw
<1>1. p \in Seq(S) /\ Len(p) = 5
  OBVIOUS
<1>2. /\ p[1] = Do("reset") /\ p[2] = Do("ops") /\ p[3] = Try /\ p[4] = Try
      /\ p[5] = Become("closed")
  OBVIOUS
<1>3. Init2 \in Seq(S)
  BY DEF Init2
<1> HIDE DEF S, p, hw_atl_utils_initfw, FwInit, aq_fw2x_init
<1>4. Len(Init2) = 5
  BY Init2Is
<1>5. \A k \in 1 .. 5 : p[k] = Init2[k]
  BY <1>2, Init2Is
<1>6. p = Init2
  BY <1>1, <1>3, <1>4, <1>5, SameSeq
<1> QED BY <1>6 DEF p

LEMMA Open1Returns ==
    ASSUME NEW c, Fw1x
    PROVE  aq_nic_open(c)[6] = Return(FALSE) /\ aq_nic_open(c)[14] = Return(TRUE)
<1>1. Len(hw_reset) = 5 /\ Len(hw_init(c)) = 7
  BY ResetReturns, InitReturns
<1> DEFINE S == {Lock, Do("reset"), Read, Try,
                 Write({"RESET"}, States1x \cup {"DIRTY_WAKE"}), Return(FALSE),
                 UnlockCheck, Write({"SPEED"}, {"SPEED"}),
                 Write({"INIT"}, States1x \cup {"DIRTY_WAKE"}), Do("no_link"), Account,
                 Return(TRUE), Become("open")}
<1>2. hw_reset \in Seq(S) /\ hw_init(c) \in Seq(S) /\ aq_nic_setloopback(c) \in Seq(S)
  BY DEF hw_reset, hw_init, SetState, SetLinkSpeed, UpdateStats, hw_atl_utils_update_stats,
         aq_nic_setloopback, hw_atl_utils_mpi_set_state, hw_atl_utils_mpi_set_speed
<1>3. Lock \in S /\ UnlockCheck \in S /\ Become("open") \in S
  OBVIOUS
<1> HIDE DEF S
<1>4. /\ aq_nic_open(c)[1 + Len(hw_reset)] = hw_reset[Len(hw_reset)]
      /\ aq_nic_open(c)[2 + Len(hw_reset) + Len(hw_init(c))] = hw_init(c)[Len(hw_init(c))]
  <2>1. Len(hw_reset) > 0 /\ Len(hw_init(c)) > 0
    BY <1>1
  <2> QED BY <1>2, <1>3, <2>1, CatLasts DEF aq_nic_open
<1>5. aq_nic_open(c)[6] = hw_reset[5] /\ aq_nic_open(c)[14] = hw_init(c)[7]
  BY <1>1, <1>4
<1> QED BY <1>5, ResetReturns, InitReturns

LEMMA Open1Code ==
    ASSUME NEW c, Fw1x
    PROVE  aq_nic_open(c) = Open1
<1> USE DEF aq_nic_open, hw_reset, hw_init, aq_nic_setloopback, SetState,
            hw_atl_utils_mpi_set_state, SetLinkSpeed, hw_atl_utils_mpi_set_speed,
            UpdateStats, hw_atl_utils_update_stats
<1> DEFINE S == {Lock, Do("reset"), Read, Try,
                 Write({"RESET"}, States1x \cup {"DIRTY_WAKE"}), Return(FALSE),
                 UnlockCheck, Write({"SPEED"}, {"SPEED"}),
                 Write({"INIT"}, States1x \cup {"DIRTY_WAKE"}), Do("no_link"), Account,
                 Return(TRUE), Become("open")}
           p == aq_nic_open(c)
<1>1. p \in Seq(S) /\ Len(p) = 15
  OBVIOUS
<1>2. /\ p[1] = Open1[1] /\ p[2] = Open1[2] /\ p[3] = Open1[3] /\ p[4] = Open1[4]
      /\ p[5] = Open1[5] /\ p[7] = Open1[7] /\ p[8] = Open1[8]
  BY DEF Open1
<1>3. /\ p[9] = Open1[9] /\ p[10] = Open1[10] /\ p[11] = Open1[11] /\ p[12] = Open1[12]
      /\ p[13] = Open1[13] /\ p[15] = Open1[15]
  BY DEF Open1
<1>4. p[6] = Open1[6] /\ p[14] = Open1[14]
  <2>1. Open1[6] = Return(FALSE) /\ Open1[14] = Return(TRUE)
    BY DEF Open1
  <2> QED BY <2>1, Open1Returns
<1>5. Open1 \in Seq(S)
  BY DEF Open1
<1> HIDE DEF S, p, aq_nic_open, hw_reset, hw_init, aq_nic_setloopback, SetState,
            hw_atl_utils_mpi_set_state, SetLinkSpeed, hw_atl_utils_mpi_set_speed,
            UpdateStats, hw_atl_utils_update_stats
<1>6. Len(Open1) = 15
  BY Open1Is
<1>7. \A k \in 1 .. 15 : p[k] = Open1[k]
  BY <1>2, <1>3, <1>4
<1>8. p = Open1
  BY <1>1, <1>5, <1>6, <1>7, SameSeq
<1> QED BY <1>8 DEF p

LEMMA Open2Returns ==
    ASSUME NEW c, ~Fw1x
    PROVE  aq_nic_open(c)[5] = Return(FALSE) /\ aq_nic_open(c)[14] = Return(TRUE)
<1>1. Len(hw_reset) = 4 /\ Len(hw_init(c)) = 8
  BY ResetReturns, InitReturns
<1> DEFINE S == {Lock, Do("reset"), Read, Write({}, {}), Return(FALSE), UnlockCheck,
                 Write(c \cap {"EEE", "PAUSE"}, {"LINK_DROP", "EEE", "PAUSE"}),
                 Do("no_link"), Toggle("STATS"), Answer("STATS"), Account, Return(TRUE),
                 Write(c \cap {"LOOPBACK"}, {"LOOPBACK"}), Unlock, Become("open")}
<1>2. hw_reset \in Seq(S) /\ hw_init(c) \in Seq(S) /\ aq_nic_setloopback(c) \in Seq(S)
  BY DEF hw_reset, hw_init, SetState, SetLinkSpeed, UpdateStats, hw_atl_utils_update_stats,
         aq_nic_setloopback, Locked, aq_fw2x_set_phyloopback, aq_fw2x_set_state,
         aq_fw2x_update_stats
<1>3. Lock \in S /\ UnlockCheck \in S /\ Become("open") \in S
  OBVIOUS
<1> HIDE DEF S
<1>4. /\ aq_nic_open(c)[1 + Len(hw_reset)] = hw_reset[Len(hw_reset)]
      /\ aq_nic_open(c)[2 + Len(hw_reset) + Len(hw_init(c))] = hw_init(c)[Len(hw_init(c))]
  <2>1. Len(hw_reset) > 0 /\ Len(hw_init(c)) > 0
    BY <1>1
  <2> QED BY <1>2, <1>3, <2>1, CatLasts DEF aq_nic_open
<1>5. aq_nic_open(c)[5] = hw_reset[4] /\ aq_nic_open(c)[14] = hw_init(c)[8]
  BY <1>1, <1>4
<1> QED BY <1>5, ResetReturns, InitReturns

LEMMA Open2Code ==
    ASSUME NEW c, ~Fw1x
    PROVE  aq_nic_open(c) = Open2(c)
<1> USE DEF aq_nic_open, hw_reset, hw_init, SetLinkSpeed, aq_nic_setloopback, Locked,
            aq_fw2x_set_phyloopback, SetState, aq_fw2x_set_state, UpdateStats,
            aq_fw2x_update_stats, hw_atl_utils_update_stats
<1> DEFINE S == {Lock, Do("reset"), Read, Write({}, {}), Return(FALSE), UnlockCheck,
                 Write(c \cap {"EEE", "PAUSE"}, {"LINK_DROP", "EEE", "PAUSE"}),
                 Do("no_link"), Toggle("STATS"), Answer("STATS"), Account, Return(TRUE),
                 Write(c \cap {"LOOPBACK"}, {"LOOPBACK"}), Unlock, Become("open")}
           p == aq_nic_open(c)
<1>1. p \in Seq(S) /\ Len(p) = 19
  OBVIOUS
<1>2. /\ p[1] = Open2(c)[1] /\ p[2] = Open2(c)[2] /\ p[3] = Open2(c)[3]
      /\ p[4] = Open2(c)[4] /\ p[6] = Open2(c)[6] /\ p[7] = Open2(c)[7]
      /\ p[8] = Open2(c)[8]
  BY DEF Open2
<1>3. /\ p[9] = Open2(c)[9] /\ p[10] = Open2(c)[10] /\ p[11] = Open2(c)[11]
      /\ p[12] = Open2(c)[12] /\ p[13] = Open2(c)[13] /\ p[15] = Open2(c)[15]
      /\ p[16] = Open2(c)[16]
  BY DEF Open2
<1>4. /\ p[17] = Open2(c)[17] /\ p[18] = Open2(c)[18] /\ p[19] = Open2(c)[19]
  BY DEF Open2
<1>5. p[5] = Open2(c)[5] /\ p[14] = Open2(c)[14]
  <2>1. Open2(c)[5] = Return(FALSE) /\ Open2(c)[14] = Return(TRUE)
    BY DEF Open2
  <2> QED BY <2>1, Open2Returns
<1>6. Open2(c) \in Seq(S)
  BY DEF Open2
<1> HIDE DEF S, p, aq_nic_open, hw_reset, hw_init, SetLinkSpeed, aq_nic_setloopback, Locked,
            aq_fw2x_set_phyloopback, SetState, aq_fw2x_set_state, UpdateStats,
            aq_fw2x_update_stats, hw_atl_utils_update_stats
<1>7. Len(Open2(c)) = 19
  BY Open2Is
<1>8. \A k \in 1 .. 19 : p[k] = Open2(c)[k]
  BY <1>2, <1>3, <1>4, <1>5
<1>9. p = Open2(c)
  BY <1>1, <1>6, <1>7, <1>8, SameSeq
<1> QED BY <1>9 DEF p

LEMMA Drop1Code ==
    ASSUME NEW c, Fw1x, "WOL" \notin c
    PROVE  aq_nic_close(c) = Drop1
<1> USE DEF aq_nic_close, Locked, Deinit, hw_atl_fw1x_deinit, hw_atl_utils_mpi_set_speed,
            hw_atl_utils_mpi_set_state
<1> DEFINE S == {Become("closing"), Become("closed"), Lock, Read, Write({}, {"SPEED"}),
                 Write({"DEINIT", "DIRTY_WAKE"}, States1x \cup {"DIRTY_WAKE"}), Unlock,
                 Become("dropped")}
           p == aq_nic_close(c)
<1>1. p \in Seq(S) /\ Len(p) = 9
  OBVIOUS
<1>2. /\ p[1] = Become("closing") /\ p[2] = Become("closed") /\ p[3] = Lock /\ p[4] = Read
      /\ p[5] = Write({}, {"SPEED"}) /\ p[6] = Read
      /\ p[7] = Write({"DEINIT", "DIRTY_WAKE"}, States1x \cup {"DIRTY_WAKE"})
  OBVIOUS
<1>3. /\ p[8] = Unlock /\ p[9] = Become("dropped")
  OBVIOUS
<1>4. Drop1 \in Seq(S)
  BY DEF Drop1
<1> HIDE DEF S, p, aq_nic_close, Locked, Deinit, hw_atl_fw1x_deinit, hw_atl_utils_mpi_set_speed,
            hw_atl_utils_mpi_set_state
<1>5. Len(Drop1) = 9
  BY Drop1Is
<1>6. \A k \in 1 .. 9 : p[k] = Drop1[k]
  BY <1>2, <1>3, Drop1Is
<1>7. p = Drop1
  BY <1>1, <1>4, <1>5, <1>6, SameSeq
<1> QED BY <1>7 DEF p

LEMMA Drop2Code ==
    ASSUME NEW c, ~Fw1x, "WOL" \notin c
    PROVE  aq_nic_close(c) = Drop2
<1> USE DEF aq_nic_close, Locked, Deinit, aq_fw2x_set_state
<1> DEFINE S == {Become("closing"), Become("closed"), Lock, Read, Write({"LINK_DROP"}, {}),
                 Unlock, Become("dropped")}
           p == aq_nic_close(c)
<1>1. p \in Seq(S) /\ Len(p) = 7
  OBVIOUS
<1>2. /\ p[1] = Become("closing") /\ p[2] = Become("closed") /\ p[3] = Lock /\ p[4] = Read
      /\ p[5] = Write({"LINK_DROP"}, {}) /\ p[6] = Unlock /\ p[7] = Become("dropped")
  OBVIOUS
<1>3. Drop2 \in Seq(S)
  BY DEF Drop2
<1> HIDE DEF S, p, aq_nic_close, Locked, Deinit, aq_fw2x_set_state
<1>4. Len(Drop2) = 7
  BY Drop2Is
<1>5. \A k \in 1 .. 7 : p[k] = Drop2[k]
  BY <1>2, Drop2Is
<1>6. p = Drop2
  BY <1>1, <1>3, <1>4, <1>5, SameSeq
<1> QED BY <1>6 DEF p

LEMMA Arm1Code ==
    ASSUME NEW c, Fw1x, "WOL" \in c
    PROVE  aq_nic_close(c) = Arm1
<1> USE DEF aq_nic_close, Locked, Deinit, hw_atl_fw1x_deinit, hw_atl_utils_mpi_set_speed,
            hw_atl_utils_mpi_set_state, SetPower, aq_fw1x_set_power, aq_fw1x_set_wol
<1> DEFINE S == {Become("closing"), Become("closed"), Lock, Read, Write({}, {"SPEED"}),
                 Write({"DEINIT", "DIRTY_WAKE"}, States1x \cup {"DIRTY_WAKE"}), Unlock,
                 RpcWait, RpcCall("wol"), RpcCall("wakeup"),
                 Write({"POWER", "DIRTY_WAKE"}, States1x \cup {"DIRTY_WAKE"}),
                 Become("armed")}
           p == aq_nic_close(c)
<1>1. p \in Seq(S) /\ Len(p) = 17
  OBVIOUS
<1>2. /\ p[1] = Become("closing") /\ p[2] = Become("closed") /\ p[3] = Lock /\ p[4] = Read
      /\ p[5] = Write({}, {"SPEED"}) /\ p[6] = Read
      /\ p[7] = Write({"DEINIT", "DIRTY_WAKE"}, States1x \cup {"DIRTY_WAKE"})
  OBVIOUS
<1>3. /\ p[8] = Unlock /\ p[9] = RpcWait /\ p[10] = RpcCall("wol") /\ p[11] = RpcWait
      /\ p[12] = RpcCall("wakeup") /\ p[13] = Read /\ p[14] = Write({}, {"SPEED"})
  OBVIOUS
<1>4. /\ p[15] = Read
      /\ p[16] = Write({"POWER", "DIRTY_WAKE"}, States1x \cup {"DIRTY_WAKE"})
      /\ p[17] = Become("armed")
  OBVIOUS
<1>5. Arm1 \in Seq(S)
  BY DEF Arm1
<1> HIDE DEF S, p, aq_nic_close, Locked, Deinit, hw_atl_fw1x_deinit, hw_atl_utils_mpi_set_speed,
            hw_atl_utils_mpi_set_state, SetPower, aq_fw1x_set_power, aq_fw1x_set_wol
<1>6. Len(Arm1) = 17
  BY Arm1Is
<1>7. \A k \in 1 .. 17 : p[k] = Arm1[k]
  BY <1>2, <1>3, <1>4, Arm1Is
<1>8. p = Arm1
  BY <1>1, <1>5, <1>6, <1>7, SameSeq
<1> QED BY <1>8 DEF p

LEMMA Arm2Code ==
    ASSUME NEW c, ~Fw1x, "WOL" \in c
    PROVE  aq_nic_close(c) = Arm2
<1> USE DEF aq_nic_close, Locked, Deinit, aq_fw2x_set_state, SetPower, aq_fw2x_set_power,
            aq_fw2x_set_sleep_proxy, aq_fw2x_set_wol_params
<1> DEFINE S == {Become("closing"), Become("closed"), Lock, Read, Write({"LINK_DROP"}, {}),
                 Unlock, RpcWait, Write({}, {"PROXY", "LINK_DROP"}), RpcCall("proxy"),
                 Write({"PROXY"}, {}), UntilSet("PROXY"), Write({}, {"PROXY", "WOL"}),
                 RpcCall("wol"), Write({"WOL"}, {}), UntilSet("WOL"), Become("armed")}
           p == aq_nic_close(c)
<1>1. p \in Seq(S) /\ Len(p) = 19
  OBVIOUS
<1>2. /\ p[1] = Become("closing") /\ p[2] = Become("closed") /\ p[3] = Lock /\ p[4] = Read
      /\ p[5] = Write({"LINK_DROP"}, {}) /\ p[6] = Unlock /\ p[7] = RpcWait
  OBVIOUS
<1>3. /\ p[8] = Read /\ p[9] = Write({}, {"PROXY", "LINK_DROP"})
      /\ p[10] = RpcCall("proxy") /\ p[11] = Write({"PROXY"}, {})
      /\ p[12] = UntilSet("PROXY") /\ p[13] = RpcWait /\ p[14] = Read
  OBVIOUS
<1>4. /\ p[15] = Write({}, {"PROXY", "WOL"}) /\ p[16] = RpcCall("wol")
      /\ p[17] = Write({"WOL"}, {}) /\ p[18] = UntilSet("WOL") /\ p[19] = Become("armed")
  OBVIOUS
<1>5. Arm2 \in Seq(S)
  BY DEF Arm2
<1> HIDE DEF S, p, aq_nic_close, Locked, Deinit, aq_fw2x_set_state, SetPower, aq_fw2x_set_power,
            aq_fw2x_set_sleep_proxy, aq_fw2x_set_wol_params
<1>6. Len(Arm2) = 19
  BY Arm2Is
<1>7. \A k \in 1 .. 19 : p[k] = Arm2[k]
  BY <1>2, <1>3, <1>4, Arm2Is
<1>8. p = Arm2
  BY <1>1, <1>5, <1>6, <1>7, SameSeq
<1> QED BY <1>8 DEF p

LEMMA Stats1Code ==
    ASSUME Fw1x
    PROVE  Locked(UpdateStats) = Stats1
<1> USE DEF Locked, UpdateStats, hw_atl_utils_update_stats
<1> DEFINE S == {Lock, Account, Unlock}
           p == Locked(UpdateStats)
<1>1. p \in Seq(S) /\ Len(p) = 3
  OBVIOUS
<1>2. /\ p[1] = Lock /\ p[2] = Account /\ p[3] = Unlock
  OBVIOUS
<1>3. Stats1 \in Seq(S)
  BY DEF Stats1
<1> HIDE DEF S, p, Locked, UpdateStats, hw_atl_utils_update_stats
<1>4. Len(Stats1) = 3
  BY Stats1Is
<1>5. \A k \in 1 .. 3 : p[k] = Stats1[k]
  BY <1>2, Stats1Is
<1>6. p = Stats1
  BY <1>1, <1>3, <1>4, <1>5, SameSeq
<1> QED BY <1>6 DEF p

LEMMA Stats2Code ==
    ASSUME ~Fw1x
    PROVE  Locked(UpdateStats) = Stats2
<1> USE DEF Locked, UpdateStats, aq_fw2x_update_stats, hw_atl_utils_update_stats
<1> DEFINE S == {Lock, Read, Toggle("STATS"), Answer("STATS"), Account, Unlock}
           p == Locked(UpdateStats)
<1>1. p \in Seq(S) /\ Len(p) = 6
  OBVIOUS
<1>2. /\ p[1] = Lock /\ p[2] = Read /\ p[3] = Toggle("STATS") /\ p[4] = Answer("STATS")
      /\ p[5] = Account /\ p[6] = Unlock
  OBVIOUS
<1>3. Stats2 \in Seq(S)
  BY DEF Stats2
<1> HIDE DEF S, p, Locked, UpdateStats, aq_fw2x_update_stats, hw_atl_utils_update_stats
<1>4. Len(Stats2) = 6
  BY Stats2Is
<1>5. \A k \in 1 .. 6 : p[k] = Stats2[k]
  BY <1>2, Stats2Is
<1>6. p = Stats2
  BY <1>1, <1>3, <1>4, <1>5, SameSeq
<1> QED BY <1>6 DEF p

LEMMA GetEee2Code ==
    Locked(aq_fw2x_get_eee_rate) = GetEee2
<1> USE DEF Locked, aq_fw2x_get_eee_rate
<1> DEFINE S == {Lock, Try, Unlock}
           p == Locked(aq_fw2x_get_eee_rate)
<1>1. p \in Seq(S) /\ Len(p) = 4
  OBVIOUS
<1>2. /\ p[1] = Lock /\ p[2] = Try /\ p[3] = Try /\ p[4] = Unlock
  OBVIOUS
<1>3. GetEee2 \in Seq(S)
  BY DEF GetEee2
<1> HIDE DEF S, p, Locked, aq_fw2x_get_eee_rate
<1>4. Len(GetEee2) = 4
  BY GetEee2Is
<1>5. \A k \in 1 .. 4 : p[k] = GetEee2[k]
  BY <1>2, GetEee2Is
<1>6. p = GetEee2
  BY <1>1, <1>3, <1>4, <1>5, SameSeq
<1> QED BY <1>6 DEF p

LEMMA SetEee2Code ==
    ASSUME NEW on \in BOOLEAN, NEW c
    PROVE  aq_ethtool_set_eee(on, c) = SetEee2(on, c)
<1> USE DEF aq_ethtool_set_eee, aq_fw2x_get_eee_rate, Locked, aq_fw2x_set_eee_rate
<1> DEFINE S == {Lock, Try, UnlockCheck,
                 SetCfg(IF on THEN c \cup {"EEE"} ELSE c \ {"EEE"}), Read,
                 Write(IF on THEN {"EEE"} ELSE {}, {"EEE"}), Unlock}
           p == aq_ethtool_set_eee(on, c)
<1>1. p \in Seq(S) /\ Len(p) = 9
  OBVIOUS
<1>2. /\ p[1] = Lock /\ p[2] = Try /\ p[3] = Try /\ p[4] = UnlockCheck
      /\ p[5] = SetCfg(IF on THEN c \cup {"EEE"} ELSE c \ {"EEE"}) /\ p[6] = Lock
      /\ p[7] = Read
  OBVIOUS
<1>3. /\ p[8] = Write(IF on THEN {"EEE"} ELSE {}, {"EEE"}) /\ p[9] = Unlock
  OBVIOUS
<1>4. SetEee2(on, c) \in Seq(S)
  BY DEF SetEee2
<1> HIDE DEF S, p, aq_ethtool_set_eee, aq_fw2x_get_eee_rate, Locked, aq_fw2x_set_eee_rate
<1>5. Len(SetEee2(on, c)) = 9
  BY SetEee2Is
<1>6. \A k \in 1 .. 9 : p[k] = SetEee2(on, c)[k]
  BY <1>2, <1>3, SetEee2Is
<1>7. p = SetEee2(on, c)
  BY <1>1, <1>4, <1>5, <1>6, SameSeq
<1> QED BY <1>7 DEF p

LEMMA Pause2Code ==
    ASSUME NEW c
    PROVE  Locked(aq_fw2x_set_flow_control(c)) = Pause2(c)
<1> USE DEF Locked, aq_fw2x_set_flow_control
<1> DEFINE S == {Lock, Read, Write(c \cap {"PAUSE"}, {"PAUSE"}), Unlock}
           p == Locked(aq_fw2x_set_flow_control(c))
<1>1. p \in Seq(S) /\ Len(p) = 4
  OBVIOUS
<1>2. /\ p[1] = Lock /\ p[2] = Read /\ p[3] = Write(c \cap {"PAUSE"}, {"PAUSE"})
      /\ p[4] = Unlock
  OBVIOUS
<1>3. Pause2(c) \in Seq(S)
  BY DEF Pause2
<1> HIDE DEF S, p, Locked, aq_fw2x_set_flow_control
<1>4. Len(Pause2(c)) = 4
  BY Pause2Is
<1>5. \A k \in 1 .. 4 : p[k] = Pause2(c)[k]
  BY <1>2, Pause2Is
<1>6. p = Pause2(c)
  BY <1>1, <1>3, <1>4, <1>5, SameSeq
<1> QED BY <1>6 DEF p

LEMMA Loop2Code ==
    ASSUME NEW c, ~Fw1x
    PROVE  aq_nic_setloopback(c) \o <<SetCfg(c)>> = Loop2(c)
<1> USE DEF aq_nic_setloopback, Locked, aq_fw2x_set_phyloopback
<1> DEFINE S == {Lock, Read, Write(c \cap {"LOOPBACK"}, {"LOOPBACK"}), Unlock, SetCfg(c)}
           p == aq_nic_setloopback(c) \o <<SetCfg(c)>>
<1>1. p \in Seq(S) /\ Len(p) = 5
  OBVIOUS
<1>2. /\ p[1] = Lock /\ p[2] = Read /\ p[3] = Write(c \cap {"LOOPBACK"}, {"LOOPBACK"})
      /\ p[4] = Unlock /\ p[5] = SetCfg(c)
  OBVIOUS
<1>3. Loop2(c) \in Seq(S)
  BY DEF Loop2
<1> HIDE DEF S, p, aq_nic_setloopback, Locked, aq_fw2x_set_phyloopback
<1>4. Len(Loop2(c)) = 5
  BY Loop2Is
<1>5. \A k \in 1 .. 5 : p[k] = Loop2(c)[k]
  BY <1>2, Loop2Is
<1>6. p = Loop2(c)
  BY <1>1, <1>3, <1>4, <1>5, SameSeq
<1> QED BY <1>6 DEF p

LEMMA Nway2Code ==
    Locked(aq_fw2x_renegotiate) = Nway2
<1> USE DEF Locked, aq_fw2x_renegotiate
<1> DEFINE S == {Lock, Read, Write({"RECONNECT"}, {}), Unlock}
           p == Locked(aq_fw2x_renegotiate)
<1>1. p \in Seq(S) /\ Len(p) = 4
  OBVIOUS
<1>2. /\ p[1] = Lock /\ p[2] = Read /\ p[3] = Write({"RECONNECT"}, {}) /\ p[4] = Unlock
  OBVIOUS
<1>3. Nway2 \in Seq(S)
  BY DEF Nway2
<1> HIDE DEF S, p, Locked, aq_fw2x_renegotiate
<1>4. Len(Nway2) = 4
  BY Nway2Is
<1>5. \A k \in 1 .. 4 : p[k] = Nway2[k]
  BY <1>2, Nway2Is
<1>6. p = Nway2
  BY <1>1, <1>3, <1>4, <1>5, SameSeq
<1> QED BY <1>6 DEF p

LEMMA Temp2Code ==
    Locked(aq_fw2x_get_temp) = Temp2
<1> USE DEF Locked, aq_fw2x_get_temp
<1> DEFINE S == {Lock, Read, Toggle("TEMP"), AnswerOrNot("TEMP"), Try, Unlock}
           p == Locked(aq_fw2x_get_temp)
<1>1. p \in Seq(S) /\ Len(p) = 6
  OBVIOUS
<1>2. /\ p[1] = Lock /\ p[2] = Read /\ p[3] = Toggle("TEMP") /\ p[4] = AnswerOrNot("TEMP")
      /\ p[5] = Try /\ p[6] = Unlock
  OBVIOUS
<1>3. Temp2 \in Seq(S)
  BY DEF Temp2
<1> HIDE DEF S, p, Locked, aq_fw2x_get_temp
<1>4. Len(Temp2) = 6
  BY Temp2Is
<1>5. \A k \in 1 .. 6 : p[k] = Temp2[k]
  BY <1>2, Temp2Is
<1>6. p = Temp2
  BY <1>1, <1>3, <1>4, <1>5, SameSeq
<1> QED BY <1>6 DEF p

LEMMA Cable2Code ==
    Locked(aq_fw2x_get_cable_len) = Cable2
<1> USE DEF Locked, aq_fw2x_get_cable_len
<1> DEFINE S == {Lock, Try, Unlock}
           p == Locked(aq_fw2x_get_cable_len)
<1>1. p \in Seq(S) /\ Len(p) = 3
  OBVIOUS
<1>2. /\ p[1] = Lock /\ p[2] = Try /\ p[3] = Unlock
  OBVIOUS
<1>3. Cable2 \in Seq(S)
  BY DEF Cable2
<1> HIDE DEF S, p, Locked, aq_fw2x_get_cable_len
<1>4. Len(Cable2) = 3
  BY Cable2Is
<1>5. \A k \in 1 .. 3 : p[k] = Cable2[k]
  BY <1>2, Cable2Is
<1>6. p = Cable2
  BY <1>1, <1>3, <1>4, <1>5, SameSeq
<1> QED BY <1>6 DEF p

LEMMA Request2Code ==
    Locked(aq_fw2x_send_fw_request) = Request2
<1> USE DEF Locked, aq_fw2x_send_fw_request
<1> DEFINE S == {Lock, Upload("request"), Read, Toggle("REQUEST"), Answer("REQUEST"),
                 Unlock}
           p == Locked(aq_fw2x_send_fw_request)
<1>1. p \in Seq(S) /\ Len(p) = 6
  OBVIOUS
<1>2. /\ p[1] = Lock /\ p[2] = Upload("request") /\ p[3] = Read /\ p[4] = Toggle("REQUEST")
      /\ p[5] = Answer("REQUEST") /\ p[6] = Unlock
  OBVIOUS
<1>3. Request2 \in Seq(S)
  BY DEF Request2
<1> HIDE DEF S, p, Locked, aq_fw2x_send_fw_request
<1>4. Len(Request2) = 6
  BY Request2Is
<1>5. \A k \in 1 .. 6 : p[k] = Request2[k]
  BY <1>2, Request2Is
<1>6. p = Request2
  BY <1>1, <1>3, <1>4, <1>5, SameSeq
<1> QED BY <1>6 DEF p

-----------------------------------------------------------------------------

(* What executing an instruction does. *)

Step(t) == DoLock(t) \/ ThreadStep(t)

\* How the instructions left of thread t change.
Goes(t) ==
    LET w == Head(todo[t]) IN
    /\ todo[t] # <<>>
    /\ \/ /\ todo' = [todo EXCEPT ![t] = Tail(@)]
          /\ w.i = "unlock_check" => ~err[t]
          /\ err' = IF w.i \in Stops THEN [err EXCEPT ![t] = FALSE] ELSE err
       \/ w.i \in {"reset", "rpc_wait"} /\ UNCHANGED <<todo, err>>
       \/ w.i \in Failing /\ FailTo(t, Stops)
       \/ w.i = "reset" /\ FailTo(t, {"unlock_check"})
       \/ w.i = "unlock_check" /\ err[t] /\ FailTo(t, {})

\* Every instruction leaves a thread with the rest, with it all, or with what an error leaves.
LEMMA StepGoes ==
    ASSUME NEW t \in Threads, err \in [Threads -> BOOLEAN], Step(t)
    PROVE  Goes(t)
<1> USE DEF Goes, At, Idle, Stops, Failing
<1>1. CASE DoLock(t) \/ DoRead(t) \/ DoAccount(t) \/ DoNoLink(t) \/ DoCfg(t) \/ DoBecome(t)
  BY <1>1 DEF DoLock, DoRead, DoAccount, DoNoLink, DoCfg, DoBecome, Continue
<1>2. CASE DoUnlock(t)
  BY <1>2 DEF DoUnlock
<1>3. CASE DoReturn(t)
  BY <1>3 DEF DoReturn
<1>4. CASE DoWrite(t) \/ DoToggle(t)
  BY <1>4 DEF DoWrite, DoToggle, PutControl, Continue
<1>5. CASE DoAnswer(t)
  BY <1>5 DEF DoAnswer, Continue, Fail
<1>6. CASE DoTry(t) \/ DoOps(t)
  BY <1>6 DEF DoTry, DoOps, Continue, Fail
<1>7. CASE DoUpload(t) \/ DoRpcCall(t)
  BY <1>7 DEF DoUpload, DoRpcCall, Continue, Fail
<1>8. CASE DoRpcWait(t)
  BY <1>8 DEF DoRpcWait, Continue, Fail
<1>9. CASE BeginReset(t)
  BY <1>9 DEF BeginReset
<1>10. CASE EndReset(t)
  BY <1>10 DEF EndReset, Continue
<1> QED BY <1>1, <1>2, <1>3, <1>4, <1>5, <1>6, <1>7, <1>8, <1>9, <1>10 DEF Step, ThreadStep

\* An error leaves a thread at a stop, or at the end.
LEMMA FailMoves ==
    ASSUME NEW t \in Threads, NEW p, IsProgram(p), NEW m \in 1 .. Len(p),
           todo[t] = Rest(p, m), NEW stops, FailTo(t, stops)
    PROVE  \E n \in Int : /\ ErrorGoes(p, m, n, stops)
                          /\ todo' = [todo EXCEPT ![t] = Rest(p, n)]
                          /\ err' = [err EXCEPT ![t] = (n <= Len(p))]
<1>0. Len(p) \in Nat
  BY DEF IsProgram
<1>1. PICK n : ErrorGoes(p, m, n, stops) /\ From(Tail(Rest(p, m)), stops) = Rest(p, n)
  BY RestFrom
<1>2. n \in m + 1 .. Len(p) + 1
  BY <1>1 DEF ErrorGoes
<1>3. n \in Int /\ n \in 1 .. Len(p) + 1
  BY <1>0, <1>2
<1>4. (Rest(p, n) # <<>>) = (n <= Len(p))
  <2>1. CASE n = Len(p) + 1
    BY <1>0, <2>1, RestEnds
  <2>2. CASE n # Len(p) + 1
    <3>1. n \in 1 .. Len(p)
      BY <1>0, <1>3, <2>2
    <3>2. Rest(p, n) # <<>>
      BY <3>1, RestSteps
    <3> QED BY <1>0, <3>1, <3>2
  <2> QED BY <2>1, <2>2
<1>5. /\ todo' = [todo EXCEPT ![t] = Rest(p, n)]
      /\ err' = [err EXCEPT ![t] = (Rest(p, n) # <<>>)]
  BY <1>1 DEF FailTo
<1> QED BY <1>1, <1>3, <1>4, <1>5

\* The same, for a thread whose rest is that of a program.
LEMMA Moves ==
    ASSUME NEW t \in Threads, NEW p, IsProgram(p), NEW m \in 1 .. Len(p),
           todo = [u \in Threads |-> todo[u]], todo[t] = Rest(p, m),
           err \in [Threads -> BOOLEAN], Goes(t)
    PROVE  \E n \in Int : /\ Move(p, m, n, err[t], err'[t])
                          /\ todo' = [todo EXCEPT ![t] = Rest(p, n)]
                          /\ err' \in [Threads -> BOOLEAN]
                          /\ \A u \in Threads \ {t} : err'[u] = err[u]
<1>1. /\ Rest(p, m) # <<>> /\ Head(todo[t]) = p[m] /\ Tail(todo[t]) = Rest(p, m + 1)
      /\ Len(p) \in Nat
  BY RestSteps DEF IsProgram
<1> DEFINE w == Head(todo[t])
<1>2. CASE /\ todo' = [todo EXCEPT ![t] = Tail(@)]
           /\ w.i = "unlock_check" => ~err[t]
           /\ err' = IF w.i \in Stops THEN [err EXCEPT ![t] = FALSE] ELSE err
  <2>1. todo' = [todo EXCEPT ![t] = Rest(p, m + 1)]
    BY <1>1, <1>2
  <2>2. Move(p, m, m + 1, err[t], err'[t])
    BY <1>1, <1>2 DEF Move
  <2>3. err' \in [Threads -> BOOLEAN] /\ \A u \in Threads \ {t} : err'[u] = err[u]
    BY <1>2
  <2>4. m + 1 \in Int
    BY <1>1
  <2> QED BY <2>1, <2>2, <2>3, <2>4
<1>3. CASE w.i \in {"reset", "rpc_wait"} /\ UNCHANGED <<todo, err>>
  <2>1. Move(p, m, m, err[t], err'[t])
    BY <1>1, <1>3 DEF Move
  <2>2. todo' = [todo EXCEPT ![t] = Rest(p, m)]
    BY <1>3
  <2> QED BY <1>1, <1>3, <2>1, <2>2
<1>4. ASSUME NEW stops, FailTo(t, stops),
             \/ p[m].i \in Failing /\ stops = Stops
             \/ p[m].i = "reset" /\ stops = {"unlock_check"}
      PROVE  \E n \in Int : /\ Move(p, m, n, err[t], err'[t])
                            /\ todo' = [todo EXCEPT ![t] = Rest(p, n)]
                            /\ err' \in [Threads -> BOOLEAN]
                            /\ \A u \in Threads \ {t} : err'[u] = err[u]
  <2>1. PICK n \in Int : /\ ErrorGoes(p, m, n, stops)
                         /\ todo' = [todo EXCEPT ![t] = Rest(p, n)]
                         /\ err' = [err EXCEPT ![t] = (n <= Len(p))]
    BY <1>4, FailMoves
  <2>2. (n <= Len(p)) \in BOOLEAN
    OBVIOUS
  <2>3. err' \in [Threads -> BOOLEAN] /\ (\A u \in Threads \ {t} : err'[u] = err[u])
        /\ err'[t] = (n <= Len(p))
    BY <2>1, <2>2
  <2>4. Move(p, m, n, err[t], err'[t])
    BY <1>4, <2>1, <2>3 DEF Move
  <2> QED BY <2>1, <2>3, <2>4
<1>5. CASE w.i = "unlock_check" /\ err[t] /\ FailTo(t, {})
  <2>1. PICK n \in Int : /\ ErrorGoes(p, m, n, {})
                         /\ todo' = [todo EXCEPT ![t] = Rest(p, n)]
                         /\ err' = [err EXCEPT ![t] = (n <= Len(p))]
    BY <1>5, FailMoves
  <2>2. n = Len(p) + 1
    BY <1>1, <2>1 DEF ErrorGoes
  <2>3. ~(n <= Len(p))
    BY <1>1, <2>2
  <2>4. /\ err' \in [Threads -> BOOLEAN] /\ ~err'[t]
        /\ \A u \in Threads \ {t} : err'[u] = err[u]
    <3>1. (n <= Len(p)) = FALSE
      BY <2>3
    <3>2. err' = [err EXCEPT ![t] = FALSE]
      BY <2>1, <3>1
    <3> QED BY <3>2
  <2>5. Move(p, m, n, err[t], err'[t])
    BY <1>1, <1>5, <2>2, <2>4 DEF Move
  <2> QED BY <2>1, <2>4, <2>5
<1>6. CASE w.i \in Failing /\ FailTo(t, Stops)
  BY <1>1, <1>4, <1>6
<1>7. CASE w.i = "reset" /\ FailTo(t, {"unlock_check"})
  BY <1>1, <1>4, <1>7
<1> QED BY <1>2, <1>3, <1>5, <1>6, <1>7 DEF Goes

\* What it does to the settings, the lock, the life of the device and the
\* control register, as the threads read it.
Executes(t, w) ==
    /\ UNCHANGED <<major, scen>>
    /\ cfg' = IF w.i = "cfg" THEN w.cfg ELSE cfg
    /\ life' = IF w.i = "become" THEN w.life ELSE life
    /\ w.i = "become" /\ life = "closing" => todo["service"] = <<>>
    /\ w.i = "lock" => mutex = None
    /\ mutex' = IF w.i = "lock" THEN t ELSE IF w.i \in Unlocks THEN None ELSE mutex
    /\ w.i = "write" => ctrl2' = (reg[t] \ w.off) \cup w.on
    /\ w.i = "toggle" => ctrl2' = Toggled(reg[t], w.bit)
    /\ w.i \in {"write", "toggle"} => raced' = (raced \/ reg[t] # ctrl2)
    /\ w.i \notin {"write", "toggle", "reset"} => ctrl2' = ctrl2
    /\ w.i \in {"upload", "rpc_call", "rpc_wait"} => raced' \in {raced, raced \/ AreaBusy(t)}
    /\ w.i \notin {"write", "toggle", "reset", "upload", "rpc_call", "rpc_wait"} => raced' = raced
    /\ w.i = "reset" => \/ ctrl2' = ctrl2 /\ raced' = raced
                        \/ raced' = FALSE /\ todo' = [todo EXCEPT ![t] = Tail(@)]
    /\ \/ reg' = reg /\ w.i \notin {"read", "write", "toggle"}
       \/ reg' = [reg EXCEPT ![t] = {}] /\ w.i \in Forgets
       \/ reg' = [reg EXCEPT ![t] = ctrl2'] /\ w.i \in {"read", "write", "toggle"}

LEMMA StepExecutes ==
    ASSUME NEW t \in Threads, Step(t)
    PROVE  Executes(t, Head(todo[t]))
<1> USE DEF Executes, At, Idle, Stops, Unlocks, Forgets, regVars, histVars, bootVars
<1>1. CASE DoLock(t) \/ DoRead(t) \/ DoAccount(t) \/ DoNoLink(t) \/ DoCfg(t)
  BY <1>1 DEF DoLock, DoRead, DoAccount, DoNoLink, DoCfg
<1>2. CASE DoUnlock(t) \/ DoBecome(t)
  BY <1>2 DEF DoUnlock, DoBecome, Forget
<1>3. CASE DoReturn(t)
  BY <1>3 DEF DoReturn, Forget
<1>4. CASE DoWrite(t) \/ DoToggle(t)
  BY <1>4 DEF DoWrite, DoToggle, PutControl
<1>5. CASE DoAnswer(t)
  BY <1>5 DEF DoAnswer
<1>6. CASE DoTry(t) \/ DoOps(t)
  BY <1>6 DEF DoTry, DoOps
<1>7. CASE DoUpload(t) \/ DoRpcCall(t)
  BY <1>7 DEF DoUpload, DoRpcCall, PutMessage, RpcCallOk
<1>8. CASE DoRpcWait(t)
  BY <1>8 DEF DoRpcWait, PutMessage, RpcCallOk
<1>9. CASE BeginReset(t)
  BY <1>9 DEF BeginReset, SoftReset
<1>10. CASE EndReset(t)
  BY <1>10 DEF EndReset, Continue, BootReturns
<1> QED BY <1>1, <1>2, <1>3, <1>4, <1>5, <1>6, <1>7, <1>8, <1>9, <1>10 DEF Step, ThreadStep

\* A rest tells its position.
LEMMA RestOne ==
    ASSUME NEW p, IsProgram(p), NEW m \in 1 .. Len(p) + 1, NEW n \in 1 .. Len(p) + 1,
           Rest(p, m) = Rest(p, n)
    PROVE  m = n
<1>1. PICK S : p \in Seq(S) /\ Len(p) \in Nat
  BY DEF IsProgram
<1>2. Len(Rest(p, m)) = Len(p) - m + 1 /\ Len(Rest(p, n)) = Len(p) - n + 1
  BY <1>1, RestIs
<1> QED BY <1>1, <1>2

\* A step of a thread in a program whose lock and reads are in place.
Advances(t, p, m, n, locked, mid) ==
    /\ n \in 1 .. Len(p) + 1
    /\ Follows(p, m, n)
    /\ p[m].i = "return" => ~err'[t]
    /\ p[m].i = "unlock_check" /\ n # m + 1 => err[t]
    /\ Executes(t, p[m])
    /\ todo' = [u \in Threads |-> todo'[u]] /\ todo'[t] = Rest(p, n)
    /\ reg' = [u \in Threads |-> reg'[u]]
    /\ \A u \in Threads \ {t} : todo'[u] = todo[u] /\ err'[u] = err[u] /\ reg'[u] = reg[u]
    /\ err' \in [Threads -> BOOLEAN]
    /\ n <= Len(p) => Runs(t, p, n, locked, mid)'
    /\ n = Len(p) + 1 => todo'[t] = <<>> /\ mutex' # t
    /\ p[m].i = "reset" /\ n # m + 1 => ctrl2' = ctrl2 /\ raced' = raced
    /\ p[m].i \in {"write", "toggle"} /\ ~Linux => reg[t] = ctrl2

\* A thread that runs such a program goes on running it, or ends it.
LEMMA RunsStep ==
    ASSUME CallTypes, NEW t \in Threads, NEW p, IsProgram(p), NEW locked, NEW mid,
           Guarded(p, locked, mid), NEW m, Runs(t, p, m, locked, mid), Step(t)
    PROVE  \E n : Advances(t, p, m, n, locked, mid)
<1>1. m \in 1 .. Len(p) /\ todo[t] = Rest(p, m) /\ Len(p) \in Nat
  BY DEF Runs, IsProgram
<1>2. PICK n \in Int : /\ Move(p, m, n, err[t], err'[t])
                       /\ todo' = [todo EXCEPT ![t] = Rest(p, n)]
                       /\ err' \in [Threads -> BOOLEAN]
                       /\ \A u \in Threads \ {t} : err'[u] = err[u]
  BY <1>1, StepGoes, Moves DEF CallTypes
<1>3. Head(todo[t]) = p[m] /\ Tail(todo[t]) = Rest(p, m + 1)
  BY <1>1, RestSteps
<1>4. Executes(t, p[m])
  BY <1>3, StepExecutes
<1>5. err[t] \in BOOLEAN /\ err'[t] \in BOOLEAN
  BY <1>2 DEF CallTypes
<1>6. /\ n \in 1 .. Len(p) + 1
      /\ n <= Len(p) => (n \in locked <=> IF p[m].i = "lock" THEN TRUE
                                  ELSE m \in locked /\ p[m].i \notin Unlocks)
      /\ n = Len(p) + 1 => p[m].i # "lock" /\ (m \notin locked \/ p[m].i \in Unlocks)
      /\ n \in mid => \/ p[m].i \in {"read", "write", "toggle"}
                      \/ m \in mid /\ p[m].i \notin Forgets
  BY <1>1, <1>2, <1>5 DEF Guarded
<1>7. /\ todo' = [u \in Threads |-> todo'[u]] /\ todo'[t] = Rest(p, n)
      /\ \A u \in Threads \ {t} : todo'[u] = todo[u]
  BY <1>2 DEF CallTypes
<1>8. /\ reg' = [u \in Threads |-> reg'[u]]
      /\ \A u \in Threads \ {t} : reg'[u] = reg[u]
  BY <1>4 DEF Executes, CallTypes
<1>9. ASSUME p[m].i \in {"write", "toggle"}, ~Linux PROVE reg[t] = ctrl2
  BY <1>1, <1>9 DEF Guarded, Runs
<1>10. (mutex' = t) <=> IF p[m].i = "lock" THEN TRUE ELSE m \in locked /\ p[m].i \notin Unlocks
  BY <1>4, NoneAssumption DEF Executes, Runs
<1>11. ASSUME n <= Len(p) PROVE Runs(t, p, n, locked, mid)'
  <2>1. n \in 1 .. Len(p)
    BY <1>1, <1>6, <1>11
  <2>2. (mutex' = t) <=> n \in locked
    BY <1>6, <1>10, <1>11
  <2>3. ASSUME n \in mid, ~Linux' PROVE reg'[t] = ctrl2'
    <3>1. CASE p[m].i \in {"read", "write", "toggle"}
      BY <1>4, <3>1 DEF Executes, CallTypes, Forgets, Stops
    <3>2. CASE m \in mid /\ p[m].i \notin Forgets /\ p[m].i \notin {"read", "write", "toggle"}
      <4>1. reg' = reg /\ ctrl2' = ctrl2 /\ scen' = scen
        BY <1>4, <3>2 DEF Executes, Forgets
      <4> QED BY <2>3, <3>2, <4>1 DEF Runs, Linux
    <3> QED BY <1>6, <2>3, <3>1, <3>2
  <2> QED BY <1>7, <2>1, <2>2, <2>3 DEF Runs
<1>12. ASSUME n = Len(p) + 1 PROVE todo'[t] = <<>> /\ mutex' # t
  BY <1>6, <1>7, <1>10, <1>12, RestEnds
<1>14. /\ Follows(p, m, n)
       /\ p[m].i = "return" => ~err'[t]
       /\ p[m].i = "unlock_check" /\ n # m + 1 => err[t]
  <2>1. m \in Nat /\ n \in Nat
    BY <1>1, <1>6
  <2>2. ASSUME NEW e \in BOOLEAN, NEW e2 \in BOOLEAN, e = err[t], e2 = err'[t]
        PROVE  /\ Follows(p, m, n)
               /\ p[m].i = "return" => ~e2
               /\ p[m].i = "unlock_check" /\ n # m + 1 => e
    <3>1. Move(p, m, n, e, e2)
      BY <1>2, <2>2
    <3> QED BY <2>1, <3>1, MoveFollows
  <2> QED BY <1>5, <2>2
<1>13. ASSUME p[m].i = "reset", n # m + 1 PROVE ctrl2' = ctrl2 /\ raced' = raced
  <2> SUFFICES ASSUME todo' = [todo EXCEPT ![t] = Tail(@)] PROVE FALSE
    BY <1>4, <1>13 DEF Executes
  <2>1. todo'[t] = Rest(p, m + 1)
    BY <1>3 DEF CallTypes
  <2>2. m + 1 \in 1 .. Len(p) + 1
    BY <1>1
  <2> QED BY <1>6, <1>7, <1>13, <2>1, <2>2, RestOne
<1> QED BY <1>2, <1>4, <1>6, <1>7, <1>8, <1>9, <1>11, <1>12, <1>13, <1>14 DEF Advances

\* What a step of thread t leaves alone of the other threads.
Apart(t) ==
    /\ UNCHANGED <<major, scen>>
    /\ todo' = [u \in Threads |-> todo'[u]] /\ reg' = [u \in Threads |-> reg'[u]]
    /\ err' \in [Threads -> BOOLEAN] /\ raced' \in BOOLEAN
    /\ \A u \in Threads \ {t} :
         todo'[u] = todo[u] /\ err'[u] = err[u] /\ reg'[u] = reg[u] /\ (mutex' = u <=> mutex = u)
    /\ raced' /\ ~Linux => raced \/ AreaBusy(t)

LEMMA AdvancesApart ==
    ASSUME CallTypes, NEW t \in Threads, NEW p, NEW locked, NEW mid,
           Guarded(p, locked, mid), NEW m, NEW n, Runs(t, p, m, locked, mid),
           Advances(t, p, m, n, locked, mid)
    PROVE  Apart(t)
<1>1. Executes(t, p[m]) /\ m \in 1 .. Len(p)
  BY DEF Advances, Runs
<1>2. p[m].i \in Unlocks => mutex = t
  BY <1>1 DEF Guarded, Runs
<1>3. \A u \in Threads \ {t} : mutex' = u <=> mutex = u
  BY <1>1, <1>2, NoneAssumption DEF Executes, Unlocks
<1>4. raced' /\ ~Linux => raced \/ AreaBusy(t)
  BY <1>1 DEF Executes, Advances
<1>5. raced' \in BOOLEAN
  BY <1>1 DEF Executes, CallTypes
<1> QED BY <1>1, <1>3, <1>4, <1>5 DEF Apart, Advances, Executes

-----------------------------------------------------------------------------
(* What a step of each program does, position by position: where it leads, and what *)
(* becomes of the settings, the life of the device and the register. *)

Init1Goes(t, m, n) ==
    /\ n = m + 1 \/ (n = m /\ m \in {1, 5}) \/ (m \in {1, 2, 3, 4, 5} /\ n = 7)
    /\ n <= 6 => Runs(t, Init1, n, {}, {})'
    /\ n = 7 => todo'[t] = <<>> /\ mutex' # t
    /\ cfg' = cfg
    /\ m # 6 => life' = life
    /\ m = 6 => life' = "closed" /\ (life = "closing" => todo["service"] = <<>>)
    /\ m \notin {1, 5} => ctrl2' = ctrl2 /\ raced' = raced
    /\ m = 5 => ctrl2' = ctrl2 /\ (raced => raced')
    /\ m = 1 /\ n # 2 => ctrl2' = ctrl2 /\ raced' = raced

LEMMA Init1Does ==
    ASSUME CallTypes, NEW t \in Threads, NEW m,
           Runs(t, Init1, m, {}, {}), Step(t)
    PROVE  /\ m \in 1 .. 6 /\ Apart(t)
           /\ \E n \in 1 .. 7 : Init1Goes(t, m, n)
<1> DEFINE p == Init1
           L == {}
           M == {}
<1>1. m \in 1 .. 6 /\ Runs(t, p, m, L, M) /\ Len(p) = 6
  BY Init1Is DEF Runs
<1>2. IsProgram(p) /\ Guarded(p, L, M)
  BY Init1Is, Init1Guarded
<1>3. PICK n : Advances(t, p, m, n, L, M)
  BY <1>1, <1>2, RunsStep
<1>4. /\ n \in 1 .. 7 /\ Follows(p, m, n)
      /\ n <= 6 => Runs(t, p, n, L, M)'
      /\ n = 7 => todo'[t] = <<>> /\ mutex' # t
  BY <1>1, <1>3 DEF Advances
<1>5. n = m + 1 \/ (n = m /\ m \in {1, 5}) \/ (m \in {1, 2, 3, 4, 5} /\ n = 7)
  <2>1. n \in Int
    BY <1>4
  <2> QED BY <1>1, <1>4, <2>1, Init1Move
<1>6. Executes(t, p[m])
  BY <1>3 DEF Advances
<1>7. Apart(t)
  BY <1>1, <1>3, <1>2, AdvancesApart
<1>8. cfg' = cfg
  <2>1. p[m].i # "cfg"
    BY <1>1, Init1Ops
  <2> QED BY <1>6, <2>1 DEF Executes
<1>9. m # 6 => life' = life
  <2>1. m # 6 => p[m].i # "become"
    BY <1>1, Init1Ops
  <2> QED BY <1>6, <2>1 DEF Executes
<1>10. m = 6 => life' = "closed" /\ (life = "closing" => todo["service"] = <<>>)
  <2>1. p[6].i = "become" /\ p[6] = Become("closed")
    BY Init1Is, Init1Ops
  <2> HIDE DEF p
  <2>2. p[6].life = "closed"
    BY <2>1, OpOf
  <2> QED BY <1>6, <2>1, <2>2 DEF Executes
<1>11. m \notin {1, 5} => ctrl2' = ctrl2 /\ raced' = raced
  <2>1. m \notin {1, 5} =>
         p[m].i \notin {"write", "toggle", "reset", "upload", "rpc_call", "rpc_wait"}
    BY <1>1, Init1Ops
  <2> QED BY <1>6, <2>1 DEF Executes
<1>12. m = 5 => ctrl2' = ctrl2 /\ (raced => raced')
  <2>1. m = 5 => p[m].i \in {"upload", "rpc_call", "rpc_wait"}
    BY <1>1, Init1Ops
  <2> QED BY <1>6, <2>1 DEF Executes
<1>13. m = 1 /\ n # 2 => ctrl2' = ctrl2 /\ raced' = raced
  <2>1. p[1].i = "reset"
    BY Init1Ops
  <2> QED BY <1>3, <2>1 DEF Advances
<1> HIDE DEF p, L, M
<1>14. m \in 1 .. 6 /\ Apart(t)
  BY <1>1, <1>7
<1>15. Init1Goes(t, m, n)
  BY <1>4, <1>5, <1>8, <1>9, <1>10, <1>11, <1>12, <1>13 DEF Init1Goes, p, L, M
<1> QED BY <1>4, <1>14, <1>15

Init2Goes(t, m, n) ==
    /\ n = m + 1 \/ (n = m /\ m = 1) \/ (m \in {1, 2, 3, 4} /\ n = 6)
    /\ n <= 5 => Runs(t, Init2, n, {}, {})'
    /\ n = 6 => todo'[t] = <<>> /\ mutex' # t
    /\ cfg' = cfg
    /\ m # 5 => life' = life
    /\ m = 5 => life' = "closed" /\ (life = "closing" => todo["service"] = <<>>)
    /\ m # 1 => ctrl2' = ctrl2 /\ raced' = raced
    /\ m = 1 /\ n # 2 => ctrl2' = ctrl2 /\ raced' = raced
    /\ raced' /\ ~Linux => raced

LEMMA Init2Does ==
    ASSUME CallTypes, NEW t \in Threads, NEW m,
           Runs(t, Init2, m, {}, {}), Step(t)
    PROVE  /\ m \in 1 .. 5 /\ Apart(t)
           /\ \E n \in 1 .. 6 : Init2Goes(t, m, n)
<1> DEFINE p == Init2
           L == {}
           M == {}
<1>1. m \in 1 .. 5 /\ Runs(t, p, m, L, M) /\ Len(p) = 5
  BY Init2Is DEF Runs
<1>2. IsProgram(p) /\ Guarded(p, L, M)
  BY Init2Is, Init2Guarded
<1>3. PICK n : Advances(t, p, m, n, L, M)
  BY <1>1, <1>2, RunsStep
<1>4. /\ n \in 1 .. 6 /\ Follows(p, m, n)
      /\ n <= 5 => Runs(t, p, n, L, M)'
      /\ n = 6 => todo'[t] = <<>> /\ mutex' # t
  BY <1>1, <1>3 DEF Advances
<1>5. n = m + 1 \/ (n = m /\ m = 1) \/ (m \in {1, 2, 3, 4} /\ n = 6)
  <2>1. n \in Int
    BY <1>4
  <2> QED BY <1>1, <1>4, <2>1, Init2Move
<1>6. Executes(t, p[m])
  BY <1>3 DEF Advances
<1>7. Apart(t)
  BY <1>1, <1>3, <1>2, AdvancesApart
<1>8. cfg' = cfg
  <2>1. p[m].i # "cfg"
    BY <1>1, Init2Ops
  <2> QED BY <1>6, <2>1 DEF Executes
<1>9. m # 5 => life' = life
  <2>1. m # 5 => p[m].i # "become"
    BY <1>1, Init2Ops
  <2> QED BY <1>6, <2>1 DEF Executes
<1>10. m = 5 => life' = "closed" /\ (life = "closing" => todo["service"] = <<>>)
  <2>1. p[5].i = "become" /\ p[5] = Become("closed")
    BY Init2Is, Init2Ops
  <2> HIDE DEF p
  <2>2. p[5].life = "closed"
    BY <2>1, OpOf
  <2> QED BY <1>6, <2>1, <2>2 DEF Executes
<1>11. m # 1 => ctrl2' = ctrl2 /\ raced' = raced
  <2>1. m # 1 =>
         p[m].i \notin {"write", "toggle", "reset", "upload", "rpc_call", "rpc_wait"}
    BY <1>1, Init2Ops
  <2> QED BY <1>6, <2>1 DEF Executes
<1>12. m = 1 /\ n # 2 => ctrl2' = ctrl2 /\ raced' = raced
  <2>1. p[1].i = "reset"
    BY Init2Ops
  <2> QED BY <1>3, <2>1 DEF Advances
<1>13. raced' /\ ~Linux => raced
  <2>1. p[m].i \notin {"upload", "rpc_call", "rpc_wait"}
    BY <1>1, Init2Ops
  <2> QED BY <1>3, <1>6, <2>1 DEF Executes, Advances
<1> HIDE DEF p, L, M
<1>14. m \in 1 .. 5 /\ Apart(t)
  BY <1>1, <1>7
<1>15. Init2Goes(t, m, n)
  BY <1>4, <1>5, <1>8, <1>9, <1>10, <1>11, <1>12, <1>13 DEF Init2Goes, p, L, M
<1> QED BY <1>4, <1>14, <1>15

Open1Goes(t, m, n) ==
    /\ \/ n = m + 1
       \/ n = m /\ m = 2
       \/ m = 4 /\ n = 6
       \/ m = 2 /\ n = 7
       \/ m = 7 /\ n = 16
    /\ n <= 15 => Runs(t, Open1, n, 2 .. 7, {4, 5, 9, 11})'
    /\ n = 16 => todo'[t] = <<>> /\ mutex' # t
    /\ cfg' = cfg
    /\ m # 15 => life' = life
    /\ m = 15 => life' = "open" /\ (life = "closing" => todo["service"] = <<>>)
    /\ m \notin {2, 5, 9, 11} => ctrl2' = ctrl2 /\ raced' = raced
    /\ m = 2 /\ n # 3 => ctrl2' = ctrl2 /\ raced' = raced
    /\ m \in {5, 9, 11} /\ ~raced' =>
         /\ ~raced
         /\ m = 5 => ctrl2' = (ctrl2 \ (States1x \cup {"DIRTY_WAKE"})) \cup {"RESET"}
         /\ m = 9 => ctrl2' = (ctrl2 \ {"SPEED"}) \cup {"SPEED"}
         /\ m = 11 => ctrl2' = (ctrl2 \ (States1x \cup {"DIRTY_WAKE"})) \cup {"INIT"}
    /\ raced' /\ ~Linux => raced
    /\ (m \in {6, 14} => ~err'[t]) /\ (m = 7 /\ n # 8 => err[t])

LEMMA Open1Does ==
    ASSUME CallTypes, NEW t \in Threads, NEW m,
           Runs(t, Open1, m, 2 .. 7, {4, 5, 9, 11}), Step(t)
    PROVE  /\ m \in 1 .. 15 /\ Apart(t)
           /\ \E n \in 1 .. 16 : Open1Goes(t, m, n)
<1> DEFINE p == Open1
           L == 2 .. 7
           M == {4, 5, 9, 11}
<1>1. m \in 1 .. 15 /\ Runs(t, p, m, L, M) /\ Len(p) = 15
  BY Open1Is DEF Runs
<1>2. IsProgram(p) /\ Guarded(p, L, M)
  BY Open1Is, Open1Guarded
<1>3. PICK n : Advances(t, p, m, n, L, M)
  BY <1>1, <1>2, RunsStep
<1>4. /\ n \in 1 .. 16 /\ Follows(p, m, n)
      /\ n <= 15 => Runs(t, p, n, L, M)'
      /\ n = 16 => todo'[t] = <<>> /\ mutex' # t
  BY <1>1, <1>3 DEF Advances
<1>5. n = m + 1 \/ (n = m /\ m = 2) \/ (m = 4 /\ n = 6) \/ (m = 2 /\ n = 7) \/ (m = 7 /\ n = 16)
  <2>1. n \in Int
    BY <1>4
  <2> QED BY <1>1, <1>4, <2>1, Open1Move
<1>6. Executes(t, p[m])
  BY <1>3 DEF Advances
<1>7. Apart(t)
  BY <1>1, <1>3, <1>2, AdvancesApart
<1>8. cfg' = cfg
  <2>1. p[m].i # "cfg"
    BY <1>1, Open1Ops
  <2> QED BY <1>6, <2>1 DEF Executes
<1>9. m # 15 => life' = life
  <2>1. m # 15 => p[m].i # "become"
    BY <1>1, Open1Ops
  <2> QED BY <1>6, <2>1 DEF Executes
<1>10. m = 15 => life' = "open" /\ (life = "closing" => todo["service"] = <<>>)
  <2>1. p[15].i = "become" /\ p[15] = Become("open")
    BY Open1Is, Open1Ops
  <2> HIDE DEF p
  <2>2. p[15].life = "open"
    BY <2>1, OpOf
  <2> QED BY <1>6, <2>1, <2>2 DEF Executes
<1>11. m \notin {2, 5, 9, 11} => ctrl2' = ctrl2 /\ raced' = raced
  <2>1. m \notin {2, 5, 9, 11} =>
         p[m].i \notin {"write", "toggle", "reset", "upload", "rpc_call", "rpc_wait"}
    BY <1>1, Open1Ops
  <2> QED BY <1>6, <2>1 DEF Executes
<1>12. m = 2 /\ n # 3 => ctrl2' = ctrl2 /\ raced' = raced
  <2>1. p[2].i = "reset"
    BY Open1Ops
  <2> QED BY <1>3, <2>1 DEF Advances
<1>13. m \in {5, 9, 11} /\ ~raced' =>
         /\ ~raced
         /\ m = 5 => ctrl2' = (ctrl2 \ (States1x \cup {"DIRTY_WAKE"})) \cup {"RESET"}
         /\ m = 9 => ctrl2' = (ctrl2 \ {"SPEED"}) \cup {"SPEED"}
         /\ m = 11 => ctrl2' = (ctrl2 \ (States1x \cup {"DIRTY_WAKE"})) \cup {"INIT"}
  <2>1. p[5].i = "write" /\ p[9].i = "write" /\ p[11].i = "write"
    BY Open1Ops
  <2>2. /\ p[5] = Write({"RESET"}, States1x \cup {"DIRTY_WAKE"})
        /\ p[9] = Write({"SPEED"}, {"SPEED"})
        /\ p[11] = Write({"INIT"}, States1x \cup {"DIRTY_WAKE"})
    BY Open1Is
  <2> HIDE DEF p
  <2>3. /\ p[5].on = {"RESET"} /\ p[5].off = (States1x \cup {"DIRTY_WAKE"})
        /\ p[9].on = {"SPEED"} /\ p[9].off = {"SPEED"}
        /\ p[11].on = {"INIT"} /\ p[11].off = (States1x \cup {"DIRTY_WAKE"})
    BY <2>2, OpOf
  <2>4. m \in {5, 9, 11} /\ ~raced' => ~raced /\ reg[t] = ctrl2
    BY <1>6, <2>1 DEF Executes
  <2>5. m = 5 /\ ~raced' => ctrl2' = (ctrl2 \ (States1x \cup {"DIRTY_WAKE"})) \cup {"RESET"}
    BY <1>6, <2>1, <2>3, <2>4 DEF Executes
  <2>6. m = 9 /\ ~raced' => ctrl2' = (ctrl2 \ {"SPEED"}) \cup {"SPEED"}
    BY <1>6, <2>1, <2>3, <2>4 DEF Executes
  <2>7. m = 11 /\ ~raced' => ctrl2' = (ctrl2 \ (States1x \cup {"DIRTY_WAKE"})) \cup {"INIT"}
    BY <1>6, <2>1, <2>3, <2>4 DEF Executes
  <2> QED BY <2>4, <2>5, <2>6, <2>7
<1>14. raced' /\ ~Linux => raced
  <2>1. p[m].i \notin {"upload", "rpc_call", "rpc_wait"}
    BY <1>1, Open1Ops
  <2> QED BY <1>3, <1>6, <2>1 DEF Executes, Advances
<1>15. (m \in {6, 14} => ~err'[t]) /\ (m = 7 /\ n # 8 => err[t])
  <2>1. (m \in {6, 14} => p[m].i = "return") /\ p[7].i = "unlock_check"
    BY Open1Ops
  <2> QED BY <1>3, <2>1 DEF Advances
<1> HIDE DEF p, L, M
<1>16. m \in 1 .. 15 /\ Apart(t)
  BY <1>1, <1>7
<1>17. Open1Goes(t, m, n)
  BY <1>4, <1>5, <1>8, <1>9, <1>10, <1>11, <1>12, <1>13, <1>14, <1>15 DEF Open1Goes, p, L, M
<1> QED BY <1>4, <1>16, <1>17

Open2Goes(t, m, n, c) ==
    /\ \/ n = m + 1
       \/ n = m /\ m = 2
       \/ m = 2 /\ n = 6
       \/ m = 12 /\ n = 14
       \/ m = 6 /\ n = 20
    /\ n <= 19 => Runs(t, Open2(c), n, (2 .. 6) \cup (16 .. 18), {4, 8, 11, 17})'
    /\ n = 20 => todo'[t] = <<>> /\ mutex' # t
    /\ cfg' = cfg
    /\ m # 19 => life' = life
    /\ m = 19 => life' = "open" /\ (life = "closing" => todo["service"] = <<>>)
    /\ m \notin {2, 4, 8, 11, 17} => ctrl2' = ctrl2 /\ raced' = raced
    /\ m = 2 /\ n # 3 => ctrl2' = ctrl2 /\ raced' = raced
    /\ m \in {4, 8, 11, 17} /\ ~raced' =>
         /\ ~raced
         /\ m = 4 => ctrl2' = (ctrl2 \ {}) \cup {}
         /\ m = 8 => ctrl2' = (ctrl2 \ {"LINK_DROP", "EEE", "PAUSE"}) \cup (c \cap {"EEE", "PAUSE"})
         /\ m = 11 => ctrl2' = Toggled(ctrl2, "STATS")
         /\ m = 17 => ctrl2' = (ctrl2 \ {"LOOPBACK"}) \cup (c \cap {"LOOPBACK"})
    /\ raced' /\ ~Linux => raced
    /\ (m \in {5, 14} => ~err'[t]) /\ (m = 6 /\ n # 7 => err[t])

LEMMA Open2Does ==
    ASSUME NEW c, CallTypes, NEW t \in Threads, NEW m,
           Runs(t, Open2(c), m, (2 .. 6) \cup (16 .. 18), {4, 8, 11, 17}), Step(t)
    PROVE  /\ m \in 1 .. 19 /\ Apart(t)
           /\ \E n \in 1 .. 20 : Open2Goes(t, m, n, c)
<1> DEFINE p == Open2(c)
           L == (2 .. 6) \cup (16 .. 18)
           M == {4, 8, 11, 17}
<1>1. m \in 1 .. 19 /\ Runs(t, p, m, L, M) /\ Len(p) = 19
  BY Open2Is DEF Runs
<1>2. IsProgram(p) /\ Guarded(p, L, M)
  BY Open2Is, Open2Guarded
<1>3. PICK n : Advances(t, p, m, n, L, M)
  BY <1>1, <1>2, RunsStep
<1>4. /\ n \in 1 .. 20 /\ Follows(p, m, n)
      /\ n <= 19 => Runs(t, p, n, L, M)'
      /\ n = 20 => todo'[t] = <<>> /\ mutex' # t
  BY <1>1, <1>3 DEF Advances
<1>5. n = m + 1 \/ (n = m /\ m = 2) \/ (m = 2 /\ n = 6) \/ (m = 12 /\ n = 14) \/ (m = 6 /\ n = 20)
  <2>1. n \in Int
    BY <1>4
  <2> QED BY <1>1, <1>4, <2>1, Open2Move
<1>6. Executes(t, p[m])
  BY <1>3 DEF Advances
<1>7. Apart(t)
  BY <1>1, <1>3, <1>2, AdvancesApart
<1>8. cfg' = cfg
  <2>1. p[m].i # "cfg"
    BY <1>1, Open2Ops
  <2> QED BY <1>6, <2>1 DEF Executes
<1>9. m # 19 => life' = life
  <2>1. m # 19 => p[m].i # "become"
    BY <1>1, Open2Ops
  <2> QED BY <1>6, <2>1 DEF Executes
<1>10. m = 19 => life' = "open" /\ (life = "closing" => todo["service"] = <<>>)
  <2>1. p[19].i = "become" /\ p[19] = Become("open")
    BY Open2Is, Open2Ops
  <2> HIDE DEF p
  <2>2. p[19].life = "open"
    BY <2>1, OpOf
  <2> QED BY <1>6, <2>1, <2>2 DEF Executes
<1>11. m \notin {2, 4, 8, 11, 17} => ctrl2' = ctrl2 /\ raced' = raced
  <2>1. m \notin {2, 4, 8, 11, 17} =>
         p[m].i \notin {"write", "toggle", "reset", "upload", "rpc_call", "rpc_wait"}
    BY <1>1, Open2Ops
  <2> QED BY <1>6, <2>1 DEF Executes
<1>12. m = 2 /\ n # 3 => ctrl2' = ctrl2 /\ raced' = raced
  <2>1. p[2].i = "reset"
    BY Open2Ops
  <2> QED BY <1>3, <2>1 DEF Advances
<1>13. m \in {4, 8, 11, 17} /\ ~raced' =>
         /\ ~raced
         /\ m = 4 => ctrl2' = (ctrl2 \ {}) \cup {}
         /\ m = 8 => ctrl2' = (ctrl2 \ {"LINK_DROP", "EEE", "PAUSE"}) \cup (c \cap {"EEE", "PAUSE"})
         /\ m = 11 => ctrl2' = Toggled(ctrl2, "STATS")
         /\ m = 17 => ctrl2' = (ctrl2 \ {"LOOPBACK"}) \cup (c \cap {"LOOPBACK"})
  <2>1. p[4].i = "write" /\ p[8].i = "write" /\ p[11].i = "toggle" /\ p[17].i = "write"
    BY Open2Ops
  <2>2. /\ p[4] = Write({}, {})
        /\ p[8] = Write(c \cap {"EEE", "PAUSE"}, {"LINK_DROP", "EEE", "PAUSE"})
        /\ p[11] = Toggle("STATS")
        /\ p[17] = Write(c \cap {"LOOPBACK"}, {"LOOPBACK"})
    BY Open2Is
  <2> HIDE DEF p
  <2>3. /\ p[4].on = {} /\ p[4].off = {}
        /\ p[8].on = (c \cap {"EEE", "PAUSE"}) /\ p[8].off = {"LINK_DROP", "EEE", "PAUSE"}
        /\ p[11].bit = "STATS"
        /\ p[17].on = (c \cap {"LOOPBACK"}) /\ p[17].off = {"LOOPBACK"}
    BY <2>2, OpOf
  <2>4. m \in {4, 8, 11, 17} /\ ~raced' => ~raced /\ reg[t] = ctrl2
    BY <1>6, <2>1 DEF Executes
  <2>5. m = 4 /\ ~raced' => ctrl2' = (ctrl2 \ {}) \cup {}
    BY <1>6, <2>1, <2>3, <2>4 DEF Executes
  <2>6. m = 8 /\ ~raced' => ctrl2' = (ctrl2 \ {"LINK_DROP", "EEE", "PAUSE"}) \cup (c \cap {"EEE", "PAUSE"})
    BY <1>6, <2>1, <2>3, <2>4 DEF Executes
  <2>7. m = 11 /\ ~raced' => ctrl2' = Toggled(ctrl2, "STATS")
    BY <1>6, <2>1, <2>3, <2>4 DEF Executes
  <2>8. m = 17 /\ ~raced' => ctrl2' = (ctrl2 \ {"LOOPBACK"}) \cup (c \cap {"LOOPBACK"})
    BY <1>6, <2>1, <2>3, <2>4 DEF Executes
  <2> QED BY <2>4, <2>5, <2>6, <2>7, <2>8
<1>14. raced' /\ ~Linux => raced
  <2>1. p[m].i \notin {"upload", "rpc_call", "rpc_wait"}
    BY <1>1, Open2Ops
  <2> QED BY <1>3, <1>6, <2>1 DEF Executes, Advances
<1>15. (m \in {5, 14} => ~err'[t]) /\ (m = 6 /\ n # 7 => err[t])
  <2>1. (m \in {5, 14} => p[m].i = "return") /\ p[6].i = "unlock_check"
    BY Open2Ops
  <2> QED BY <1>3, <2>1 DEF Advances
<1> HIDE DEF p, L, M
<1>16. m \in 1 .. 19 /\ Apart(t)
  BY <1>1, <1>7
<1>17. Open2Goes(t, m, n, c)
  BY <1>4, <1>5, <1>8, <1>9, <1>10, <1>11, <1>12, <1>13, <1>14, <1>15 DEF Open2Goes, p, L, M
<1> QED BY <1>4, <1>16, <1>17

Drop1Goes(t, m, n) ==
    /\ n = m + 1
    /\ n <= 9 => Runs(t, Drop1, n, 4 .. 8, {5, 7})'
    /\ n = 10 => todo'[t] = <<>> /\ mutex' # t
    /\ cfg' = cfg
    /\ m \notin {1, 2, 9} => life' = life
    /\ m = 1 => life' = "closing" /\ (life = "closing" => todo["service"] = <<>>)
    /\ m = 2 => life' = "closed" /\ (life = "closing" => todo["service"] = <<>>)
    /\ m = 9 => life' = "dropped" /\ (life = "closing" => todo["service"] = <<>>)
    /\ m \notin {5, 7} => ctrl2' = ctrl2 /\ raced' = raced
    /\ m \in {5, 7} /\ ~raced' =>
         /\ ~raced
         /\ m = 5 => ctrl2' = (ctrl2 \ {"SPEED"}) \cup {}
         /\ m = 7 => ctrl2' = (ctrl2 \ (States1x \cup {"DIRTY_WAKE"})) \cup {"DEINIT", "DIRTY_WAKE"}
    /\ raced' /\ ~Linux => raced

LEMMA Drop1Does ==
    ASSUME CallTypes, NEW t \in Threads, NEW m,
           Runs(t, Drop1, m, 4 .. 8, {5, 7}), Step(t)
    PROVE  /\ m \in 1 .. 9 /\ Apart(t)
           /\ \E n \in 1 .. 10 : Drop1Goes(t, m, n)
<1> DEFINE p == Drop1
           L == 4 .. 8
           M == {5, 7}
<1>1. m \in 1 .. 9 /\ Runs(t, p, m, L, M) /\ Len(p) = 9
  BY Drop1Is DEF Runs
<1>2. IsProgram(p) /\ Guarded(p, L, M)
  BY Drop1Is, Drop1Guarded
<1>3. PICK n : Advances(t, p, m, n, L, M)
  BY <1>1, <1>2, RunsStep
<1>4. /\ n \in 1 .. 10 /\ Follows(p, m, n)
      /\ n <= 9 => Runs(t, p, n, L, M)'
      /\ n = 10 => todo'[t] = <<>> /\ mutex' # t
  BY <1>1, <1>3 DEF Advances
<1>5. n = m + 1
  <2>1. n \in Int
    BY <1>4
  <2> QED BY <1>1, <1>4, <2>1, Drop1Move
<1>6. Executes(t, p[m])
  BY <1>3 DEF Advances
<1>7. Apart(t)
  BY <1>1, <1>3, <1>2, AdvancesApart
<1>8. cfg' = cfg
  <2>1. p[m].i # "cfg"
    BY <1>1, Drop1Ops
  <2> QED BY <1>6, <2>1 DEF Executes
<1>9. m \notin {1, 2, 9} => life' = life
  <2>1. m \notin {1, 2, 9} => p[m].i # "become"
    BY <1>1, Drop1Ops
  <2> QED BY <1>6, <2>1 DEF Executes
<1>10. m = 1 => life' = "closing" /\ (life = "closing" => todo["service"] = <<>>)
  <2>1. p[1].i = "become" /\ p[1] = Become("closing")
    BY Drop1Is, Drop1Ops
  <2> HIDE DEF p
  <2>2. p[1].life = "closing"
    BY <2>1, OpOf
  <2> QED BY <1>6, <2>1, <2>2 DEF Executes
<1>11. m = 2 => life' = "closed" /\ (life = "closing" => todo["service"] = <<>>)
  <2>1. p[2].i = "become" /\ p[2] = Become("closed")
    BY Drop1Is, Drop1Ops
  <2> HIDE DEF p
  <2>2. p[2].life = "closed"
    BY <2>1, OpOf
  <2> QED BY <1>6, <2>1, <2>2 DEF Executes
<1>12. m = 9 => life' = "dropped" /\ (life = "closing" => todo["service"] = <<>>)
  <2>1. p[9].i = "become" /\ p[9] = Become("dropped")
    BY Drop1Is, Drop1Ops
  <2> HIDE DEF p
  <2>2. p[9].life = "dropped"
    BY <2>1, OpOf
  <2> QED BY <1>6, <2>1, <2>2 DEF Executes
<1>13. m \notin {5, 7} => ctrl2' = ctrl2 /\ raced' = raced
  <2>1. m \notin {5, 7} =>
         p[m].i \notin {"write", "toggle", "reset", "upload", "rpc_call", "rpc_wait"}
    BY <1>1, Drop1Ops
  <2> QED BY <1>6, <2>1 DEF Executes
<1>14. m \in {5, 7} /\ ~raced' =>
         /\ ~raced
         /\ m = 5 => ctrl2' = (ctrl2 \ {"SPEED"}) \cup {}
         /\ m = 7 => ctrl2' = (ctrl2 \ (States1x \cup {"DIRTY_WAKE"})) \cup {"DEINIT", "DIRTY_WAKE"}
  <2>1. p[5].i = "write" /\ p[7].i = "write"
    BY Drop1Ops
  <2>2. /\ p[5] = Write({}, {"SPEED"})
        /\ p[7] = Write({"DEINIT", "DIRTY_WAKE"}, States1x \cup {"DIRTY_WAKE"})
    BY Drop1Is
  <2> HIDE DEF p
  <2>3. /\ p[5].on = {} /\ p[5].off = {"SPEED"}
        /\ p[7].on = {"DEINIT", "DIRTY_WAKE"} /\ p[7].off = (States1x \cup {"DIRTY_WAKE"})
    BY <2>2, OpOf
  <2>4. m \in {5, 7} /\ ~raced' => ~raced /\ reg[t] = ctrl2
    BY <1>6, <2>1 DEF Executes
  <2>5. m = 5 /\ ~raced' => ctrl2' = (ctrl2 \ {"SPEED"}) \cup {}
    BY <1>6, <2>1, <2>3, <2>4 DEF Executes
  <2>6. m = 7 /\ ~raced' => ctrl2' = (ctrl2 \ (States1x \cup {"DIRTY_WAKE"})) \cup {"DEINIT", "DIRTY_WAKE"}
    BY <1>6, <2>1, <2>3, <2>4 DEF Executes
  <2> QED BY <2>4, <2>5, <2>6
<1>15. raced' /\ ~Linux => raced
  <2>1. p[m].i \notin {"upload", "rpc_call", "rpc_wait"}
    BY <1>1, Drop1Ops
  <2> QED BY <1>3, <1>6, <2>1 DEF Executes, Advances
<1> HIDE DEF p, L, M
<1>16. m \in 1 .. 9 /\ Apart(t)
  BY <1>1, <1>7
<1>17. Drop1Goes(t, m, n)
  BY <1>4, <1>5, <1>8, <1>9, <1>10, <1>11, <1>12, <1>13, <1>14, <1>15 DEF Drop1Goes, p, L, M
<1> QED BY <1>4, <1>16, <1>17

Drop2Goes(t, m, n) ==
    /\ n = m + 1
    /\ n <= 7 => Runs(t, Drop2, n, 4 .. 6, {5})'
    /\ n = 8 => todo'[t] = <<>> /\ mutex' # t
    /\ cfg' = cfg
    /\ m \notin {1, 2, 7} => life' = life
    /\ m = 1 => life' = "closing" /\ (life = "closing" => todo["service"] = <<>>)
    /\ m = 2 => life' = "closed" /\ (life = "closing" => todo["service"] = <<>>)
    /\ m = 7 => life' = "dropped" /\ (life = "closing" => todo["service"] = <<>>)
    /\ m # 5 => ctrl2' = ctrl2 /\ raced' = raced
    /\ m = 5 /\ ~raced' =>
         /\ ~raced
         /\ m = 5 => ctrl2' = (ctrl2 \ {}) \cup {"LINK_DROP"}
    /\ raced' /\ ~Linux => raced

LEMMA Drop2Does ==
    ASSUME CallTypes, NEW t \in Threads, NEW m,
           Runs(t, Drop2, m, 4 .. 6, {5}), Step(t)
    PROVE  /\ m \in 1 .. 7 /\ Apart(t)
           /\ \E n \in 1 .. 8 : Drop2Goes(t, m, n)
<1> DEFINE p == Drop2
           L == 4 .. 6
           M == {5}
<1>1. m \in 1 .. 7 /\ Runs(t, p, m, L, M) /\ Len(p) = 7
  BY Drop2Is DEF Runs
<1>2. IsProgram(p) /\ Guarded(p, L, M)
  BY Drop2Is, Drop2Guarded
<1>3. PICK n : Advances(t, p, m, n, L, M)
  BY <1>1, <1>2, RunsStep
<1>4. /\ n \in 1 .. 8 /\ Follows(p, m, n)
      /\ n <= 7 => Runs(t, p, n, L, M)'
      /\ n = 8 => todo'[t] = <<>> /\ mutex' # t
  BY <1>1, <1>3 DEF Advances
<1>5. n = m + 1
  <2>1. n \in Int
    BY <1>4
  <2> QED BY <1>1, <1>4, <2>1, Drop2Move
<1>6. Executes(t, p[m])
  BY <1>3 DEF Advances
<1>7. Apart(t)
  BY <1>1, <1>3, <1>2, AdvancesApart
<1>8. cfg' = cfg
  <2>1. p[m].i # "cfg"
    BY <1>1, Drop2Ops
  <2> QED BY <1>6, <2>1 DEF Executes
<1>9. m \notin {1, 2, 7} => life' = life
  <2>1. m \notin {1, 2, 7} => p[m].i # "become"
    BY <1>1, Drop2Ops
  <2> QED BY <1>6, <2>1 DEF Executes
<1>10. m = 1 => life' = "closing" /\ (life = "closing" => todo["service"] = <<>>)
  <2>1. p[1].i = "become" /\ p[1] = Become("closing")
    BY Drop2Is, Drop2Ops
  <2> HIDE DEF p
  <2>2. p[1].life = "closing"
    BY <2>1, OpOf
  <2> QED BY <1>6, <2>1, <2>2 DEF Executes
<1>11. m = 2 => life' = "closed" /\ (life = "closing" => todo["service"] = <<>>)
  <2>1. p[2].i = "become" /\ p[2] = Become("closed")
    BY Drop2Is, Drop2Ops
  <2> HIDE DEF p
  <2>2. p[2].life = "closed"
    BY <2>1, OpOf
  <2> QED BY <1>6, <2>1, <2>2 DEF Executes
<1>12. m = 7 => life' = "dropped" /\ (life = "closing" => todo["service"] = <<>>)
  <2>1. p[7].i = "become" /\ p[7] = Become("dropped")
    BY Drop2Is, Drop2Ops
  <2> HIDE DEF p
  <2>2. p[7].life = "dropped"
    BY <2>1, OpOf
  <2> QED BY <1>6, <2>1, <2>2 DEF Executes
<1>13. m # 5 => ctrl2' = ctrl2 /\ raced' = raced
  <2>1. m # 5 =>
         p[m].i \notin {"write", "toggle", "reset", "upload", "rpc_call", "rpc_wait"}
    BY <1>1, Drop2Ops
  <2> QED BY <1>6, <2>1 DEF Executes
<1>14. m = 5 /\ ~raced' =>
         /\ ~raced
         /\ m = 5 => ctrl2' = (ctrl2 \ {}) \cup {"LINK_DROP"}
  <2>1. p[5].i = "write"
    BY Drop2Ops
  <2>2. /\ p[5] = Write({"LINK_DROP"}, {})
    BY Drop2Is
  <2> HIDE DEF p
  <2>3. /\ p[5].on = {"LINK_DROP"} /\ p[5].off = {}
    BY <2>2, OpOf
  <2>4. m = 5 /\ ~raced' => ~raced /\ reg[t] = ctrl2
    BY <1>6, <2>1 DEF Executes
  <2>5. m = 5 /\ ~raced' => ctrl2' = (ctrl2 \ {}) \cup {"LINK_DROP"}
    BY <1>6, <2>1, <2>3, <2>4 DEF Executes
  <2> QED BY <2>4, <2>5
<1>15. raced' /\ ~Linux => raced
  <2>1. p[m].i \notin {"upload", "rpc_call", "rpc_wait"}
    BY <1>1, Drop2Ops
  <2> QED BY <1>3, <1>6, <2>1 DEF Executes, Advances
<1> HIDE DEF p, L, M
<1>16. m \in 1 .. 7 /\ Apart(t)
  BY <1>1, <1>7
<1>17. Drop2Goes(t, m, n)
  BY <1>4, <1>5, <1>8, <1>9, <1>10, <1>11, <1>12, <1>13, <1>14, <1>15 DEF Drop2Goes, p, L, M
<1> QED BY <1>4, <1>16, <1>17

Arm1Goes(t, m, n) ==
    /\ n = m + 1 \/ (n = m /\ m \in {9, 11}) \/ (m \in {9, 10, 11, 12} /\ n = 18)
    /\ n <= 17 => Runs(t, Arm1, n, 4 .. 8, {5, 7, 14, 16})'
    /\ n = 18 => todo'[t] = <<>> /\ mutex' # t
    /\ cfg' = cfg
    /\ m \notin {1, 2, 17} => life' = life
    /\ m = 1 => life' = "closing" /\ (life = "closing" => todo["service"] = <<>>)
    /\ m = 2 => life' = "closed" /\ (life = "closing" => todo["service"] = <<>>)
    /\ m = 17 => life' = "armed" /\ (life = "closing" => todo["service"] = <<>>)
    /\ m \notin {5, 7, 9, 10, 11, 12, 14, 16} => ctrl2' = ctrl2 /\ raced' = raced
    /\ m \in {9, 10, 11, 12} => ctrl2' = ctrl2 /\ (raced => raced')
    /\ m \in {5, 7, 14, 16} /\ ~raced' =>
         /\ ~raced
         /\ m = 5 => ctrl2' = (ctrl2 \ {"SPEED"}) \cup {}
         /\ m = 7 => ctrl2' = (ctrl2 \ (States1x \cup {"DIRTY_WAKE"})) \cup {"DEINIT", "DIRTY_WAKE"}
         /\ m = 14 => ctrl2' = (ctrl2 \ {"SPEED"}) \cup {}
         /\ m = 16 => ctrl2' = (ctrl2 \ (States1x \cup {"DIRTY_WAKE"})) \cup {"POWER", "DIRTY_WAKE"}

LEMMA Arm1Does ==
    ASSUME CallTypes, NEW t \in Threads, NEW m,
           Runs(t, Arm1, m, 4 .. 8, {5, 7, 14, 16}), Step(t)
    PROVE  /\ m \in 1 .. 17 /\ Apart(t)
           /\ \E n \in 1 .. 18 : Arm1Goes(t, m, n)
<1> DEFINE p == Arm1
           L == 4 .. 8
           M == {5, 7, 14, 16}
<1>1. m \in 1 .. 17 /\ Runs(t, p, m, L, M) /\ Len(p) = 17
  BY Arm1Is DEF Runs
<1>2. IsProgram(p) /\ Guarded(p, L, M)
  BY Arm1Is, Arm1Guarded
<1>3. PICK n : Advances(t, p, m, n, L, M)
  BY <1>1, <1>2, RunsStep
<1>4. /\ n \in 1 .. 18 /\ Follows(p, m, n)
      /\ n <= 17 => Runs(t, p, n, L, M)'
      /\ n = 18 => todo'[t] = <<>> /\ mutex' # t
  BY <1>1, <1>3 DEF Advances
<1>5. n = m + 1 \/ (n = m /\ m \in {9, 11}) \/ (m \in {9, 10, 11, 12} /\ n = 18)
  <2>1. n \in Int
    BY <1>4
  <2> QED BY <1>1, <1>4, <2>1, Arm1Move
<1>6. Executes(t, p[m])
  BY <1>3 DEF Advances
<1>7. Apart(t)
  BY <1>1, <1>3, <1>2, AdvancesApart
<1>8. cfg' = cfg
  <2>1. p[m].i # "cfg"
    BY <1>1, Arm1Ops
  <2> QED BY <1>6, <2>1 DEF Executes
<1>9. m \notin {1, 2, 17} => life' = life
  <2>1. m \notin {1, 2, 17} => p[m].i # "become"
    BY <1>1, Arm1Ops
  <2> QED BY <1>6, <2>1 DEF Executes
<1>10. m = 1 => life' = "closing" /\ (life = "closing" => todo["service"] = <<>>)
  <2>1. p[1].i = "become" /\ p[1] = Become("closing")
    BY Arm1Is, Arm1Ops
  <2> HIDE DEF p
  <2>2. p[1].life = "closing"
    BY <2>1, OpOf
  <2> QED BY <1>6, <2>1, <2>2 DEF Executes
<1>11. m = 2 => life' = "closed" /\ (life = "closing" => todo["service"] = <<>>)
  <2>1. p[2].i = "become" /\ p[2] = Become("closed")
    BY Arm1Is, Arm1Ops
  <2> HIDE DEF p
  <2>2. p[2].life = "closed"
    BY <2>1, OpOf
  <2> QED BY <1>6, <2>1, <2>2 DEF Executes
<1>12. m = 17 => life' = "armed" /\ (life = "closing" => todo["service"] = <<>>)
  <2>1. p[17].i = "become" /\ p[17] = Become("armed")
    BY Arm1Is, Arm1Ops
  <2> HIDE DEF p
  <2>2. p[17].life = "armed"
    BY <2>1, OpOf
  <2> QED BY <1>6, <2>1, <2>2 DEF Executes
<1>13. m \notin {5, 7, 9, 10, 11, 12, 14, 16} => ctrl2' = ctrl2 /\ raced' = raced
  <2>1. m \notin {5, 7, 9, 10, 11, 12, 14, 16} =>
         p[m].i \notin {"write", "toggle", "reset", "upload", "rpc_call", "rpc_wait"}
    BY <1>1, Arm1Ops
  <2> QED BY <1>6, <2>1 DEF Executes
<1>14. m \in {9, 10, 11, 12} => ctrl2' = ctrl2 /\ (raced => raced')
  <2>1. m \in {9, 10, 11, 12} => p[m].i \in {"upload", "rpc_call", "rpc_wait"}
    BY <1>1, Arm1Ops
  <2> QED BY <1>6, <2>1 DEF Executes
<1>15. m \in {5, 7, 14, 16} /\ ~raced' =>
         /\ ~raced
         /\ m = 5 => ctrl2' = (ctrl2 \ {"SPEED"}) \cup {}
         /\ m = 7 => ctrl2' = (ctrl2 \ (States1x \cup {"DIRTY_WAKE"})) \cup {"DEINIT", "DIRTY_WAKE"}
         /\ m = 14 => ctrl2' = (ctrl2 \ {"SPEED"}) \cup {}
         /\ m = 16 => ctrl2' = (ctrl2 \ (States1x \cup {"DIRTY_WAKE"})) \cup {"POWER", "DIRTY_WAKE"}
  <2>1. p[5].i = "write" /\ p[7].i = "write" /\ p[14].i = "write" /\ p[16].i = "write"
    BY Arm1Ops
  <2>2. /\ p[5] = Write({}, {"SPEED"})
        /\ p[7] = Write({"DEINIT", "DIRTY_WAKE"}, States1x \cup {"DIRTY_WAKE"})
        /\ p[14] = Write({}, {"SPEED"})
        /\ p[16] = Write({"POWER", "DIRTY_WAKE"}, States1x \cup {"DIRTY_WAKE"})
    BY Arm1Is
  <2> HIDE DEF p
  <2>3. /\ p[5].on = {} /\ p[5].off = {"SPEED"}
        /\ p[7].on = {"DEINIT", "DIRTY_WAKE"} /\ p[7].off = (States1x \cup {"DIRTY_WAKE"})
        /\ p[14].on = {} /\ p[14].off = {"SPEED"}
        /\ p[16].on = {"POWER", "DIRTY_WAKE"} /\ p[16].off = (States1x \cup {"DIRTY_WAKE"})
    BY <2>2, OpOf
  <2>4. m \in {5, 7, 14, 16} /\ ~raced' => ~raced /\ reg[t] = ctrl2
    BY <1>6, <2>1 DEF Executes
  <2>5. m = 5 /\ ~raced' => ctrl2' = (ctrl2 \ {"SPEED"}) \cup {}
    BY <1>6, <2>1, <2>3, <2>4 DEF Executes
  <2>6. m = 7 /\ ~raced' => ctrl2' = (ctrl2 \ (States1x \cup {"DIRTY_WAKE"})) \cup {"DEINIT", "DIRTY_WAKE"}
    BY <1>6, <2>1, <2>3, <2>4 DEF Executes
  <2>7. m = 14 /\ ~raced' => ctrl2' = (ctrl2 \ {"SPEED"}) \cup {}
    BY <1>6, <2>1, <2>3, <2>4 DEF Executes
  <2>8. m = 16 /\ ~raced' => ctrl2' = (ctrl2 \ (States1x \cup {"DIRTY_WAKE"})) \cup {"POWER", "DIRTY_WAKE"}
    BY <1>6, <2>1, <2>3, <2>4 DEF Executes
  <2> QED BY <2>4, <2>5, <2>6, <2>7, <2>8
<1> HIDE DEF p, L, M
<1>16. m \in 1 .. 17 /\ Apart(t)
  BY <1>1, <1>7
<1>17. Arm1Goes(t, m, n)
  BY <1>4, <1>5, <1>8, <1>9, <1>10, <1>11, <1>12, <1>13, <1>14, <1>15 DEF Arm1Goes, p, L, M
<1> QED BY <1>4, <1>16, <1>17

Arm2Goes(t, m, n) ==
    /\ n = m + 1 \/ (n = m /\ m \in {7, 13}) \/ (m \in {7, 10, 12, 13, 16, 18} /\ n = 20)
    /\ n <= 19 => Runs(t, Arm2, n, 4 .. 6, {5, 9, 10, 11, 15, 16, 17})'
    /\ n = 20 => todo'[t] = <<>> /\ mutex' # t
    /\ cfg' = cfg
    /\ m \notin {1, 2, 19} => life' = life
    /\ m = 1 => life' = "closing" /\ (life = "closing" => todo["service"] = <<>>)
    /\ m = 2 => life' = "closed" /\ (life = "closing" => todo["service"] = <<>>)
    /\ m = 19 => life' = "armed" /\ (life = "closing" => todo["service"] = <<>>)
    /\ m \notin {5, 7, 9, 10, 11, 13, 15, 16, 17} => ctrl2' = ctrl2 /\ raced' = raced
    /\ m \in {7, 10, 13, 16} => ctrl2' = ctrl2 /\ (raced => raced')
    /\ m \in {5, 9, 11, 15, 17} /\ ~raced' =>
         /\ ~raced
         /\ m = 5 => ctrl2' = (ctrl2 \ {}) \cup {"LINK_DROP"}
         /\ m = 9 => ctrl2' = (ctrl2 \ {"PROXY", "LINK_DROP"}) \cup {}
         /\ m = 11 => ctrl2' = (ctrl2 \ {}) \cup {"PROXY"}
         /\ m = 15 => ctrl2' = (ctrl2 \ {"PROXY", "WOL"}) \cup {}
         /\ m = 17 => ctrl2' = (ctrl2 \ {}) \cup {"WOL"}

LEMMA Arm2Does ==
    ASSUME CallTypes, NEW t \in Threads, NEW m,
           Runs(t, Arm2, m, 4 .. 6, {5, 9, 10, 11, 15, 16, 17}), Step(t)
    PROVE  /\ m \in 1 .. 19 /\ Apart(t)
           /\ \E n \in 1 .. 20 : Arm2Goes(t, m, n)
<1> DEFINE p == Arm2
           L == 4 .. 6
           M == {5, 9, 10, 11, 15, 16, 17}
<1>1. m \in 1 .. 19 /\ Runs(t, p, m, L, M) /\ Len(p) = 19
  BY Arm2Is DEF Runs
<1>2. IsProgram(p) /\ Guarded(p, L, M)
  BY Arm2Is, Arm2Guarded
<1>3. PICK n : Advances(t, p, m, n, L, M)
  BY <1>1, <1>2, RunsStep
<1>4. /\ n \in 1 .. 20 /\ Follows(p, m, n)
      /\ n <= 19 => Runs(t, p, n, L, M)'
      /\ n = 20 => todo'[t] = <<>> /\ mutex' # t
  BY <1>1, <1>3 DEF Advances
<1>5. n = m + 1 \/ (n = m /\ m \in {7, 13}) \/ (m \in {7, 10, 12, 13, 16, 18} /\ n = 20)
  <2>1. n \in Int
    BY <1>4
  <2> QED BY <1>1, <1>4, <2>1, Arm2Move
<1>6. Executes(t, p[m])
  BY <1>3 DEF Advances
<1>7. Apart(t)
  BY <1>1, <1>3, <1>2, AdvancesApart
<1>8. cfg' = cfg
  <2>1. p[m].i # "cfg"
    BY <1>1, Arm2Ops
  <2> QED BY <1>6, <2>1 DEF Executes
<1>9. m \notin {1, 2, 19} => life' = life
  <2>1. m \notin {1, 2, 19} => p[m].i # "become"
    BY <1>1, Arm2Ops
  <2> QED BY <1>6, <2>1 DEF Executes
<1>10. m = 1 => life' = "closing" /\ (life = "closing" => todo["service"] = <<>>)
  <2>1. p[1].i = "become" /\ p[1] = Become("closing")
    BY Arm2Is, Arm2Ops
  <2> HIDE DEF p
  <2>2. p[1].life = "closing"
    BY <2>1, OpOf
  <2> QED BY <1>6, <2>1, <2>2 DEF Executes
<1>11. m = 2 => life' = "closed" /\ (life = "closing" => todo["service"] = <<>>)
  <2>1. p[2].i = "become" /\ p[2] = Become("closed")
    BY Arm2Is, Arm2Ops
  <2> HIDE DEF p
  <2>2. p[2].life = "closed"
    BY <2>1, OpOf
  <2> QED BY <1>6, <2>1, <2>2 DEF Executes
<1>12. m = 19 => life' = "armed" /\ (life = "closing" => todo["service"] = <<>>)
  <2>1. p[19].i = "become" /\ p[19] = Become("armed")
    BY Arm2Is, Arm2Ops
  <2> HIDE DEF p
  <2>2. p[19].life = "armed"
    BY <2>1, OpOf
  <2> QED BY <1>6, <2>1, <2>2 DEF Executes
<1>13. m \notin {5, 7, 9, 10, 11, 13, 15, 16, 17} => ctrl2' = ctrl2 /\ raced' = raced
  <2>1. m \notin {5, 7, 9, 10, 11, 13, 15, 16, 17} =>
         p[m].i \notin {"write", "toggle", "reset", "upload", "rpc_call", "rpc_wait"}
    BY <1>1, Arm2Ops
  <2> QED BY <1>6, <2>1 DEF Executes
<1>14. m \in {7, 10, 13, 16} => ctrl2' = ctrl2 /\ (raced => raced')
  <2>1. m \in {7, 10, 13, 16} => p[m].i \in {"upload", "rpc_call", "rpc_wait"}
    BY <1>1, Arm2Ops
  <2> QED BY <1>6, <2>1 DEF Executes
<1>15. m \in {5, 9, 11, 15, 17} /\ ~raced' =>
         /\ ~raced
         /\ m = 5 => ctrl2' = (ctrl2 \ {}) \cup {"LINK_DROP"}
         /\ m = 9 => ctrl2' = (ctrl2 \ {"PROXY", "LINK_DROP"}) \cup {}
         /\ m = 11 => ctrl2' = (ctrl2 \ {}) \cup {"PROXY"}
         /\ m = 15 => ctrl2' = (ctrl2 \ {"PROXY", "WOL"}) \cup {}
         /\ m = 17 => ctrl2' = (ctrl2 \ {}) \cup {"WOL"}
  <2>1. p[5].i = "write" /\ p[9].i = "write" /\ p[11].i = "write" /\ p[15].i = "write" /\ p[17].i = "write"
    BY Arm2Ops
  <2>2. /\ p[5] = Write({"LINK_DROP"}, {})
        /\ p[9] = Write({}, {"PROXY", "LINK_DROP"})
        /\ p[11] = Write({"PROXY"}, {})
        /\ p[15] = Write({}, {"PROXY", "WOL"})
        /\ p[17] = Write({"WOL"}, {})
    BY Arm2Is
  <2> HIDE DEF p
  <2>3. /\ p[5].on = {"LINK_DROP"} /\ p[5].off = {}
        /\ p[9].on = {} /\ p[9].off = {"PROXY", "LINK_DROP"}
        /\ p[11].on = {"PROXY"} /\ p[11].off = {}
        /\ p[15].on = {} /\ p[15].off = {"PROXY", "WOL"}
        /\ p[17].on = {"WOL"} /\ p[17].off = {}
    BY <2>2, OpOf
  <2>4. m \in {5, 9, 11, 15, 17} /\ ~raced' => ~raced /\ reg[t] = ctrl2
    BY <1>6, <2>1 DEF Executes
  <2>5. m = 5 /\ ~raced' => ctrl2' = (ctrl2 \ {}) \cup {"LINK_DROP"}
    BY <1>6, <2>1, <2>3, <2>4 DEF Executes
  <2>6. m = 9 /\ ~raced' => ctrl2' = (ctrl2 \ {"PROXY", "LINK_DROP"}) \cup {}
    BY <1>6, <2>1, <2>3, <2>4 DEF Executes
  <2>7. m = 11 /\ ~raced' => ctrl2' = (ctrl2 \ {}) \cup {"PROXY"}
    BY <1>6, <2>1, <2>3, <2>4 DEF Executes
  <2>8. m = 15 /\ ~raced' => ctrl2' = (ctrl2 \ {"PROXY", "WOL"}) \cup {}
    BY <1>6, <2>1, <2>3, <2>4 DEF Executes
  <2>9. m = 17 /\ ~raced' => ctrl2' = (ctrl2 \ {}) \cup {"WOL"}
    BY <1>6, <2>1, <2>3, <2>4 DEF Executes
  <2> QED BY <2>4, <2>5, <2>6, <2>7, <2>8, <2>9
<1> HIDE DEF p, L, M
<1>16. m \in 1 .. 19 /\ Apart(t)
  BY <1>1, <1>7
<1>17. Arm2Goes(t, m, n)
  BY <1>4, <1>5, <1>8, <1>9, <1>10, <1>11, <1>12, <1>13, <1>14, <1>15 DEF Arm2Goes, p, L, M
<1> QED BY <1>4, <1>16, <1>17

Stats1Goes(t, m, n) ==
    /\ n = m + 1
    /\ n <= 3 => Runs(t, Stats1, n, {2, 3}, {})'
    /\ n = 4 => todo'[t] = <<>> /\ mutex' # t
    /\ cfg' = cfg
    /\ life' = life
    /\ ctrl2' = ctrl2 /\ raced' = raced
    /\ raced' /\ ~Linux => raced

LEMMA Stats1Does ==
    ASSUME CallTypes, NEW t \in Threads, NEW m,
           Runs(t, Stats1, m, {2, 3}, {}), Step(t)
    PROVE  /\ m \in 1 .. 3 /\ Apart(t)
           /\ \E n \in 1 .. 4 : Stats1Goes(t, m, n)
<1> DEFINE p == Stats1
           L == {2, 3}
           M == {}
<1>1. m \in 1 .. 3 /\ Runs(t, p, m, L, M) /\ Len(p) = 3
  BY Stats1Is DEF Runs
<1>2. IsProgram(p) /\ Guarded(p, L, M)
  BY Stats1Is, Stats1Guarded
<1>3. PICK n : Advances(t, p, m, n, L, M)
  BY <1>1, <1>2, RunsStep
<1>4. /\ n \in 1 .. 4 /\ Follows(p, m, n)
      /\ n <= 3 => Runs(t, p, n, L, M)'
      /\ n = 4 => todo'[t] = <<>> /\ mutex' # t
  BY <1>1, <1>3 DEF Advances
<1>5. n = m + 1
  <2>1. n \in Int
    BY <1>4
  <2> QED BY <1>1, <1>4, <2>1, Stats1Move
<1>6. Executes(t, p[m])
  BY <1>3 DEF Advances
<1>7. Apart(t)
  BY <1>1, <1>3, <1>2, AdvancesApart
<1>8. cfg' = cfg
  <2>1. p[m].i # "cfg"
    BY <1>1, Stats1Ops
  <2> QED BY <1>6, <2>1 DEF Executes
<1>9. life' = life
  <2>1. p[m].i # "become"
    BY <1>1, Stats1Ops
  <2> QED BY <1>6, <2>1 DEF Executes
<1>10. ctrl2' = ctrl2 /\ raced' = raced
  <2>1. p[m].i \notin {"write", "toggle", "reset", "upload", "rpc_call", "rpc_wait"}
    BY <1>1, Stats1Ops
  <2> QED BY <1>6, <2>1 DEF Executes
<1>11. raced' /\ ~Linux => raced
  <2>1. p[m].i \notin {"upload", "rpc_call", "rpc_wait"}
    BY <1>1, Stats1Ops
  <2> QED BY <1>3, <1>6, <2>1 DEF Executes, Advances
<1> HIDE DEF p, L, M
<1>12. m \in 1 .. 3 /\ Apart(t)
  BY <1>1, <1>7
<1>13. Stats1Goes(t, m, n)
  BY <1>4, <1>5, <1>8, <1>9, <1>10, <1>11 DEF Stats1Goes, p, L, M
<1> QED BY <1>4, <1>12, <1>13

Stats2Goes(t, m, n) ==
    /\ n = m + 1 \/ (m = 4 /\ n = 6)
    /\ n <= 6 => Runs(t, Stats2, n, 2 .. 6, {3})'
    /\ n = 7 => todo'[t] = <<>> /\ mutex' # t
    /\ cfg' = cfg
    /\ life' = life
    /\ m # 3 => ctrl2' = ctrl2 /\ raced' = raced
    /\ m = 3 /\ ~raced' =>
         /\ ~raced
         /\ m = 3 => ctrl2' = Toggled(ctrl2, "STATS")
    /\ raced' /\ ~Linux => raced

LEMMA Stats2Does ==
    ASSUME CallTypes, NEW t \in Threads, NEW m,
           Runs(t, Stats2, m, 2 .. 6, {3}), Step(t)
    PROVE  /\ m \in 1 .. 6 /\ Apart(t)
           /\ \E n \in 1 .. 7 : Stats2Goes(t, m, n)
<1> DEFINE p == Stats2
           L == 2 .. 6
           M == {3}
<1>1. m \in 1 .. 6 /\ Runs(t, p, m, L, M) /\ Len(p) = 6
  BY Stats2Is DEF Runs
<1>2. IsProgram(p) /\ Guarded(p, L, M)
  BY Stats2Is, Stats2Guarded
<1>3. PICK n : Advances(t, p, m, n, L, M)
  BY <1>1, <1>2, RunsStep
<1>4. /\ n \in 1 .. 7 /\ Follows(p, m, n)
      /\ n <= 6 => Runs(t, p, n, L, M)'
      /\ n = 7 => todo'[t] = <<>> /\ mutex' # t
  BY <1>1, <1>3 DEF Advances
<1>5. n = m + 1 \/ (m = 4 /\ n = 6)
  <2>1. n \in Int
    BY <1>4
  <2> QED BY <1>1, <1>4, <2>1, Stats2Move
<1>6. Executes(t, p[m])
  BY <1>3 DEF Advances
<1>7. Apart(t)
  BY <1>1, <1>3, <1>2, AdvancesApart
<1>8. cfg' = cfg
  <2>1. p[m].i # "cfg"
    BY <1>1, Stats2Ops
  <2> QED BY <1>6, <2>1 DEF Executes
<1>9. life' = life
  <2>1. p[m].i # "become"
    BY <1>1, Stats2Ops
  <2> QED BY <1>6, <2>1 DEF Executes
<1>10. m # 3 => ctrl2' = ctrl2 /\ raced' = raced
  <2>1. m # 3 =>
         p[m].i \notin {"write", "toggle", "reset", "upload", "rpc_call", "rpc_wait"}
    BY <1>1, Stats2Ops
  <2> QED BY <1>6, <2>1 DEF Executes
<1>11. m = 3 /\ ~raced' =>
         /\ ~raced
         /\ m = 3 => ctrl2' = Toggled(ctrl2, "STATS")
  <2>1. p[3].i = "toggle"
    BY Stats2Ops
  <2>2. /\ p[3] = Toggle("STATS")
    BY Stats2Is
  <2> HIDE DEF p
  <2>3. /\ p[3].bit = "STATS"
    BY <2>2, OpOf
  <2>4. m = 3 /\ ~raced' => ~raced /\ reg[t] = ctrl2
    BY <1>6, <2>1 DEF Executes
  <2>5. m = 3 /\ ~raced' => ctrl2' = Toggled(ctrl2, "STATS")
    BY <1>6, <2>1, <2>3, <2>4 DEF Executes
  <2> QED BY <2>4, <2>5
<1>12. raced' /\ ~Linux => raced
  <2>1. p[m].i \notin {"upload", "rpc_call", "rpc_wait"}
    BY <1>1, Stats2Ops
  <2> QED BY <1>3, <1>6, <2>1 DEF Executes, Advances
<1> HIDE DEF p, L, M
<1>13. m \in 1 .. 6 /\ Apart(t)
  BY <1>1, <1>7
<1>14. Stats2Goes(t, m, n)
  BY <1>4, <1>5, <1>8, <1>9, <1>10, <1>11, <1>12 DEF Stats2Goes, p, L, M
<1> QED BY <1>4, <1>13, <1>14

GetEee2Goes(t, m, n) ==
    /\ n = m + 1 \/ (m \in {2, 3} /\ n = 4)
    /\ n <= 4 => Runs(t, GetEee2, n, 2 .. 4, {})'
    /\ n = 5 => todo'[t] = <<>> /\ mutex' # t
    /\ cfg' = cfg
    /\ life' = life
    /\ ctrl2' = ctrl2 /\ raced' = raced
    /\ raced' /\ ~Linux => raced

LEMMA GetEee2Does ==
    ASSUME CallTypes, NEW t \in Threads, NEW m,
           Runs(t, GetEee2, m, 2 .. 4, {}), Step(t)
    PROVE  /\ m \in 1 .. 4 /\ Apart(t)
           /\ \E n \in 1 .. 5 : GetEee2Goes(t, m, n)
<1> DEFINE p == GetEee2
           L == 2 .. 4
           M == {}
<1>1. m \in 1 .. 4 /\ Runs(t, p, m, L, M) /\ Len(p) = 4
  BY GetEee2Is DEF Runs
<1>2. IsProgram(p) /\ Guarded(p, L, M)
  BY GetEee2Is, GetEee2Guarded
<1>3. PICK n : Advances(t, p, m, n, L, M)
  BY <1>1, <1>2, RunsStep
<1>4. /\ n \in 1 .. 5 /\ Follows(p, m, n)
      /\ n <= 4 => Runs(t, p, n, L, M)'
      /\ n = 5 => todo'[t] = <<>> /\ mutex' # t
  BY <1>1, <1>3 DEF Advances
<1>5. n = m + 1 \/ (m \in {2, 3} /\ n = 4)
  <2>1. n \in Int
    BY <1>4
  <2> QED BY <1>1, <1>4, <2>1, GetEee2Move
<1>6. Executes(t, p[m])
  BY <1>3 DEF Advances
<1>7. Apart(t)
  BY <1>1, <1>3, <1>2, AdvancesApart
<1>8. cfg' = cfg
  <2>1. p[m].i # "cfg"
    BY <1>1, GetEee2Ops
  <2> QED BY <1>6, <2>1 DEF Executes
<1>9. life' = life
  <2>1. p[m].i # "become"
    BY <1>1, GetEee2Ops
  <2> QED BY <1>6, <2>1 DEF Executes
<1>10. ctrl2' = ctrl2 /\ raced' = raced
  <2>1. p[m].i \notin {"write", "toggle", "reset", "upload", "rpc_call", "rpc_wait"}
    BY <1>1, GetEee2Ops
  <2> QED BY <1>6, <2>1 DEF Executes
<1>11. raced' /\ ~Linux => raced
  <2>1. p[m].i \notin {"upload", "rpc_call", "rpc_wait"}
    BY <1>1, GetEee2Ops
  <2> QED BY <1>3, <1>6, <2>1 DEF Executes, Advances
<1> HIDE DEF p, L, M
<1>12. m \in 1 .. 4 /\ Apart(t)
  BY <1>1, <1>7
<1>13. GetEee2Goes(t, m, n)
  BY <1>4, <1>5, <1>8, <1>9, <1>10, <1>11 DEF GetEee2Goes, p, L, M
<1> QED BY <1>4, <1>12, <1>13

SetEee2Goes(t, m, n, on, c) ==
    /\ n = m + 1 \/ (m \in {2, 3} /\ n = 4) \/ (m = 4 /\ n = 10)
    /\ n <= 9 => Runs(t, SetEee2(on, c), n, (2 .. 4) \cup (7 .. 9), {8})'
    /\ n = 10 => todo'[t] = <<>> /\ mutex' # t
    /\ m # 5 => cfg' = cfg
    /\ m = 5 => cfg' = (IF on THEN c \cup {"EEE"} ELSE c \ {"EEE"})
    /\ life' = life
    /\ m # 8 => ctrl2' = ctrl2 /\ raced' = raced
    /\ m = 8 /\ ~raced' =>
         /\ ~raced
         /\ m = 8 => ctrl2' = (ctrl2 \ {"EEE"}) \cup (IF on THEN {"EEE"} ELSE {})
    /\ raced' /\ ~Linux => raced

LEMMA SetEee2Does ==
    ASSUME NEW on \in BOOLEAN, NEW c, CallTypes, NEW t \in Threads, NEW m,
           Runs(t, SetEee2(on, c), m, (2 .. 4) \cup (7 .. 9), {8}), Step(t)
    PROVE  /\ m \in 1 .. 9 /\ Apart(t)
           /\ \E n \in 1 .. 10 : SetEee2Goes(t, m, n, on, c)
<1> DEFINE p == SetEee2(on, c)
           L == (2 .. 4) \cup (7 .. 9)
           M == {8}
<1>1. m \in 1 .. 9 /\ Runs(t, p, m, L, M) /\ Len(p) = 9
  BY SetEee2Is DEF Runs
<1>2. IsProgram(p) /\ Guarded(p, L, M)
  BY SetEee2Is, SetEee2Guarded
<1>3. PICK n : Advances(t, p, m, n, L, M)
  BY <1>1, <1>2, RunsStep
<1>4. /\ n \in 1 .. 10 /\ Follows(p, m, n)
      /\ n <= 9 => Runs(t, p, n, L, M)'
      /\ n = 10 => todo'[t] = <<>> /\ mutex' # t
  BY <1>1, <1>3 DEF Advances
<1>5. n = m + 1 \/ (m \in {2, 3} /\ n = 4) \/ (m = 4 /\ n = 10)
  <2>1. n \in Int
    BY <1>4
  <2> QED BY <1>1, <1>4, <2>1, SetEee2Move
<1>6. Executes(t, p[m])
  BY <1>3 DEF Advances
<1>7. Apart(t)
  BY <1>1, <1>3, <1>2, AdvancesApart
<1>8. m # 5 => cfg' = cfg
  <2>1. m # 5 => p[m].i # "cfg"
    BY <1>1, SetEee2Ops
  <2> QED BY <1>6, <2>1 DEF Executes
<1>9. m = 5 => cfg' = (IF on THEN c \cup {"EEE"} ELSE c \ {"EEE"})
  <2>1. p[5].i = "cfg" /\ p[5] = SetCfg(IF on THEN c \cup {"EEE"} ELSE c \ {"EEE"})
    <3>1. p[5].i = "cfg"
      BY SetEee2Ops
    <3> QED BY <3>1, SetEee2Is
  <2> HIDE DEF p
  <2>2. p[5].cfg = (IF on THEN c \cup {"EEE"} ELSE c \ {"EEE"})
    BY <2>1, OpOf
  <2> QED BY <1>6, <2>1, <2>2 DEF Executes
<1>10. life' = life
  <2>1. p[m].i # "become"
    BY <1>1, SetEee2Ops
  <2> QED BY <1>6, <2>1 DEF Executes
<1>11. m # 8 => ctrl2' = ctrl2 /\ raced' = raced
  <2>1. m # 8 =>
         p[m].i \notin {"write", "toggle", "reset", "upload", "rpc_call", "rpc_wait"}
    BY <1>1, SetEee2Ops
  <2> QED BY <1>6, <2>1 DEF Executes
<1>12. m = 8 /\ ~raced' =>
         /\ ~raced
         /\ m = 8 => ctrl2' = (ctrl2 \ {"EEE"}) \cup (IF on THEN {"EEE"} ELSE {})
  <2>1. p[8].i = "write"
    BY SetEee2Ops
  <2>2. /\ p[8] = Write(IF on THEN {"EEE"} ELSE {}, {"EEE"})
    BY SetEee2Is
  <2> HIDE DEF p
  <2>3. /\ p[8].on = (IF on THEN {"EEE"} ELSE {}) /\ p[8].off = {"EEE"}
    BY <2>2, OpOf
  <2>4. m = 8 /\ ~raced' => ~raced /\ reg[t] = ctrl2
    BY <1>6, <2>1 DEF Executes
  <2>5. m = 8 /\ ~raced' => ctrl2' = (ctrl2 \ {"EEE"}) \cup (IF on THEN {"EEE"} ELSE {})
    BY <1>6, <2>1, <2>3, <2>4 DEF Executes
  <2> QED BY <2>4, <2>5
<1>13. raced' /\ ~Linux => raced
  <2>1. p[m].i \notin {"upload", "rpc_call", "rpc_wait"}
    BY <1>1, SetEee2Ops
  <2> QED BY <1>3, <1>6, <2>1 DEF Executes, Advances
<1> HIDE DEF p, L, M
<1>14. m \in 1 .. 9 /\ Apart(t)
  BY <1>1, <1>7
<1>15. SetEee2Goes(t, m, n, on, c)
  BY <1>4, <1>5, <1>8, <1>9, <1>10, <1>11, <1>12, <1>13 DEF SetEee2Goes, p, L, M
<1> QED BY <1>4, <1>14, <1>15

Pause2Goes(t, m, n, c) ==
    /\ n = m + 1
    /\ n <= 4 => Runs(t, Pause2(c), n, 2 .. 4, {3})'
    /\ n = 5 => todo'[t] = <<>> /\ mutex' # t
    /\ cfg' = cfg
    /\ life' = life
    /\ m # 3 => ctrl2' = ctrl2 /\ raced' = raced
    /\ m = 3 /\ ~raced' =>
         /\ ~raced
         /\ m = 3 => ctrl2' = (ctrl2 \ {"PAUSE"}) \cup (c \cap {"PAUSE"})
    /\ raced' /\ ~Linux => raced

LEMMA Pause2Does ==
    ASSUME NEW c, CallTypes, NEW t \in Threads, NEW m,
           Runs(t, Pause2(c), m, 2 .. 4, {3}), Step(t)
    PROVE  /\ m \in 1 .. 4 /\ Apart(t)
           /\ \E n \in 1 .. 5 : Pause2Goes(t, m, n, c)
<1> DEFINE p == Pause2(c)
           L == 2 .. 4
           M == {3}
<1>1. m \in 1 .. 4 /\ Runs(t, p, m, L, M) /\ Len(p) = 4
  BY Pause2Is DEF Runs
<1>2. IsProgram(p) /\ Guarded(p, L, M)
  BY Pause2Is, Pause2Guarded
<1>3. PICK n : Advances(t, p, m, n, L, M)
  BY <1>1, <1>2, RunsStep
<1>4. /\ n \in 1 .. 5 /\ Follows(p, m, n)
      /\ n <= 4 => Runs(t, p, n, L, M)'
      /\ n = 5 => todo'[t] = <<>> /\ mutex' # t
  BY <1>1, <1>3 DEF Advances
<1>5. n = m + 1
  <2>1. n \in Int
    BY <1>4
  <2> QED BY <1>1, <1>4, <2>1, Pause2Move
<1>6. Executes(t, p[m])
  BY <1>3 DEF Advances
<1>7. Apart(t)
  BY <1>1, <1>3, <1>2, AdvancesApart
<1>8. cfg' = cfg
  <2>1. p[m].i # "cfg"
    BY <1>1, Pause2Ops
  <2> QED BY <1>6, <2>1 DEF Executes
<1>9. life' = life
  <2>1. p[m].i # "become"
    BY <1>1, Pause2Ops
  <2> QED BY <1>6, <2>1 DEF Executes
<1>10. m # 3 => ctrl2' = ctrl2 /\ raced' = raced
  <2>1. m # 3 =>
         p[m].i \notin {"write", "toggle", "reset", "upload", "rpc_call", "rpc_wait"}
    BY <1>1, Pause2Ops
  <2> QED BY <1>6, <2>1 DEF Executes
<1>11. m = 3 /\ ~raced' =>
         /\ ~raced
         /\ m = 3 => ctrl2' = (ctrl2 \ {"PAUSE"}) \cup (c \cap {"PAUSE"})
  <2>1. p[3].i = "write"
    BY Pause2Ops
  <2>2. /\ p[3] = Write(c \cap {"PAUSE"}, {"PAUSE"})
    BY Pause2Is
  <2> HIDE DEF p
  <2>3. /\ p[3].on = (c \cap {"PAUSE"}) /\ p[3].off = {"PAUSE"}
    BY <2>2, OpOf
  <2>4. m = 3 /\ ~raced' => ~raced /\ reg[t] = ctrl2
    BY <1>6, <2>1 DEF Executes
  <2>5. m = 3 /\ ~raced' => ctrl2' = (ctrl2 \ {"PAUSE"}) \cup (c \cap {"PAUSE"})
    BY <1>6, <2>1, <2>3, <2>4 DEF Executes
  <2> QED BY <2>4, <2>5
<1>12. raced' /\ ~Linux => raced
  <2>1. p[m].i \notin {"upload", "rpc_call", "rpc_wait"}
    BY <1>1, Pause2Ops
  <2> QED BY <1>3, <1>6, <2>1 DEF Executes, Advances
<1> HIDE DEF p, L, M
<1>13. m \in 1 .. 4 /\ Apart(t)
  BY <1>1, <1>7
<1>14. Pause2Goes(t, m, n, c)
  BY <1>4, <1>5, <1>8, <1>9, <1>10, <1>11, <1>12 DEF Pause2Goes, p, L, M
<1> QED BY <1>4, <1>13, <1>14

Loop2Goes(t, m, n, c) ==
    /\ n = m + 1
    /\ n <= 5 => Runs(t, Loop2(c), n, 2 .. 4, {3})'
    /\ n = 6 => todo'[t] = <<>> /\ mutex' # t
    /\ m # 5 => cfg' = cfg
    /\ m = 5 => cfg' = c
    /\ life' = life
    /\ m # 3 => ctrl2' = ctrl2 /\ raced' = raced
    /\ m = 3 /\ ~raced' =>
         /\ ~raced
         /\ m = 3 => ctrl2' = (ctrl2 \ {"LOOPBACK"}) \cup (c \cap {"LOOPBACK"})
    /\ raced' /\ ~Linux => raced

LEMMA Loop2Does ==
    ASSUME NEW c, CallTypes, NEW t \in Threads, NEW m,
           Runs(t, Loop2(c), m, 2 .. 4, {3}), Step(t)
    PROVE  /\ m \in 1 .. 5 /\ Apart(t)
           /\ \E n \in 1 .. 6 : Loop2Goes(t, m, n, c)
<1> DEFINE p == Loop2(c)
           L == 2 .. 4
           M == {3}
<1>1. m \in 1 .. 5 /\ Runs(t, p, m, L, M) /\ Len(p) = 5
  BY Loop2Is DEF Runs
<1>2. IsProgram(p) /\ Guarded(p, L, M)
  BY Loop2Is, Loop2Guarded
<1>3. PICK n : Advances(t, p, m, n, L, M)
  BY <1>1, <1>2, RunsStep
<1>4. /\ n \in 1 .. 6 /\ Follows(p, m, n)
      /\ n <= 5 => Runs(t, p, n, L, M)'
      /\ n = 6 => todo'[t] = <<>> /\ mutex' # t
  BY <1>1, <1>3 DEF Advances
<1>5. n = m + 1
  <2>1. n \in Int
    BY <1>4
  <2> QED BY <1>1, <1>4, <2>1, Loop2Move
<1>6. Executes(t, p[m])
  BY <1>3 DEF Advances
<1>7. Apart(t)
  BY <1>1, <1>3, <1>2, AdvancesApart
<1>8. m # 5 => cfg' = cfg
  <2>1. m # 5 => p[m].i # "cfg"
    BY <1>1, Loop2Ops
  <2> QED BY <1>6, <2>1 DEF Executes
<1>9. m = 5 => cfg' = c
  <2>1. p[5].i = "cfg" /\ p[5] = SetCfg(c)
    <3>1. p[5].i = "cfg"
      BY Loop2Ops
    <3> QED BY <3>1, Loop2Is
  <2> HIDE DEF p
  <2>2. p[5].cfg = c
    BY <2>1, OpOf
  <2> QED BY <1>6, <2>1, <2>2 DEF Executes
<1>10. life' = life
  <2>1. p[m].i # "become"
    BY <1>1, Loop2Ops
  <2> QED BY <1>6, <2>1 DEF Executes
<1>11. m # 3 => ctrl2' = ctrl2 /\ raced' = raced
  <2>1. m # 3 =>
         p[m].i \notin {"write", "toggle", "reset", "upload", "rpc_call", "rpc_wait"}
    BY <1>1, Loop2Ops
  <2> QED BY <1>6, <2>1 DEF Executes
<1>12. m = 3 /\ ~raced' =>
         /\ ~raced
         /\ m = 3 => ctrl2' = (ctrl2 \ {"LOOPBACK"}) \cup (c \cap {"LOOPBACK"})
  <2>1. p[3].i = "write"
    BY Loop2Ops
  <2>2. /\ p[3] = Write(c \cap {"LOOPBACK"}, {"LOOPBACK"})
    BY Loop2Is
  <2> HIDE DEF p
  <2>3. /\ p[3].on = (c \cap {"LOOPBACK"}) /\ p[3].off = {"LOOPBACK"}
    BY <2>2, OpOf
  <2>4. m = 3 /\ ~raced' => ~raced /\ reg[t] = ctrl2
    BY <1>6, <2>1 DEF Executes
  <2>5. m = 3 /\ ~raced' => ctrl2' = (ctrl2 \ {"LOOPBACK"}) \cup (c \cap {"LOOPBACK"})
    BY <1>6, <2>1, <2>3, <2>4 DEF Executes
  <2> QED BY <2>4, <2>5
<1>13. raced' /\ ~Linux => raced
  <2>1. p[m].i \notin {"upload", "rpc_call", "rpc_wait"}
    BY <1>1, Loop2Ops
  <2> QED BY <1>3, <1>6, <2>1 DEF Executes, Advances
<1> HIDE DEF p, L, M
<1>14. m \in 1 .. 5 /\ Apart(t)
  BY <1>1, <1>7
<1>15. Loop2Goes(t, m, n, c)
  BY <1>4, <1>5, <1>8, <1>9, <1>10, <1>11, <1>12, <1>13 DEF Loop2Goes, p, L, M
<1> QED BY <1>4, <1>14, <1>15

Nway2Goes(t, m, n) ==
    /\ n = m + 1
    /\ n <= 4 => Runs(t, Nway2, n, 2 .. 4, {3})'
    /\ n = 5 => todo'[t] = <<>> /\ mutex' # t
    /\ cfg' = cfg
    /\ life' = life
    /\ m # 3 => ctrl2' = ctrl2 /\ raced' = raced
    /\ m = 3 /\ ~raced' =>
         /\ ~raced
         /\ m = 3 => ctrl2' = (ctrl2 \ {}) \cup {"RECONNECT"}
    /\ raced' /\ ~Linux => raced

LEMMA Nway2Does ==
    ASSUME CallTypes, NEW t \in Threads, NEW m,
           Runs(t, Nway2, m, 2 .. 4, {3}), Step(t)
    PROVE  /\ m \in 1 .. 4 /\ Apart(t)
           /\ \E n \in 1 .. 5 : Nway2Goes(t, m, n)
<1> DEFINE p == Nway2
           L == 2 .. 4
           M == {3}
<1>1. m \in 1 .. 4 /\ Runs(t, p, m, L, M) /\ Len(p) = 4
  BY Nway2Is DEF Runs
<1>2. IsProgram(p) /\ Guarded(p, L, M)
  BY Nway2Is, Nway2Guarded
<1>3. PICK n : Advances(t, p, m, n, L, M)
  BY <1>1, <1>2, RunsStep
<1>4. /\ n \in 1 .. 5 /\ Follows(p, m, n)
      /\ n <= 4 => Runs(t, p, n, L, M)'
      /\ n = 5 => todo'[t] = <<>> /\ mutex' # t
  BY <1>1, <1>3 DEF Advances
<1>5. n = m + 1
  <2>1. n \in Int
    BY <1>4
  <2> QED BY <1>1, <1>4, <2>1, Nway2Move
<1>6. Executes(t, p[m])
  BY <1>3 DEF Advances
<1>7. Apart(t)
  BY <1>1, <1>3, <1>2, AdvancesApart
<1>8. cfg' = cfg
  <2>1. p[m].i # "cfg"
    BY <1>1, Nway2Ops
  <2> QED BY <1>6, <2>1 DEF Executes
<1>9. life' = life
  <2>1. p[m].i # "become"
    BY <1>1, Nway2Ops
  <2> QED BY <1>6, <2>1 DEF Executes
<1>10. m # 3 => ctrl2' = ctrl2 /\ raced' = raced
  <2>1. m # 3 =>
         p[m].i \notin {"write", "toggle", "reset", "upload", "rpc_call", "rpc_wait"}
    BY <1>1, Nway2Ops
  <2> QED BY <1>6, <2>1 DEF Executes
<1>11. m = 3 /\ ~raced' =>
         /\ ~raced
         /\ m = 3 => ctrl2' = (ctrl2 \ {}) \cup {"RECONNECT"}
  <2>1. p[3].i = "write"
    BY Nway2Ops
  <2>2. /\ p[3] = Write({"RECONNECT"}, {})
    BY Nway2Is
  <2> HIDE DEF p
  <2>3. /\ p[3].on = {"RECONNECT"} /\ p[3].off = {}
    BY <2>2, OpOf
  <2>4. m = 3 /\ ~raced' => ~raced /\ reg[t] = ctrl2
    BY <1>6, <2>1 DEF Executes
  <2>5. m = 3 /\ ~raced' => ctrl2' = (ctrl2 \ {}) \cup {"RECONNECT"}
    BY <1>6, <2>1, <2>3, <2>4 DEF Executes
  <2> QED BY <2>4, <2>5
<1>12. raced' /\ ~Linux => raced
  <2>1. p[m].i \notin {"upload", "rpc_call", "rpc_wait"}
    BY <1>1, Nway2Ops
  <2> QED BY <1>3, <1>6, <2>1 DEF Executes, Advances
<1> HIDE DEF p, L, M
<1>13. m \in 1 .. 4 /\ Apart(t)
  BY <1>1, <1>7
<1>14. Nway2Goes(t, m, n)
  BY <1>4, <1>5, <1>8, <1>9, <1>10, <1>11, <1>12 DEF Nway2Goes, p, L, M
<1> QED BY <1>4, <1>13, <1>14

Temp2Goes(t, m, n) ==
    /\ n = m + 1 \/ (m = 5 /\ n = 6)
    /\ n <= 6 => Runs(t, Temp2, n, 2 .. 6, {3})'
    /\ n = 7 => todo'[t] = <<>> /\ mutex' # t
    /\ cfg' = cfg
    /\ life' = life
    /\ m # 3 => ctrl2' = ctrl2 /\ raced' = raced
    /\ m = 3 /\ ~raced' =>
         /\ ~raced
         /\ m = 3 => ctrl2' = Toggled(ctrl2, "TEMP")
    /\ raced' /\ ~Linux => raced

LEMMA Temp2Does ==
    ASSUME CallTypes, NEW t \in Threads, NEW m,
           Runs(t, Temp2, m, 2 .. 6, {3}), Step(t)
    PROVE  /\ m \in 1 .. 6 /\ Apart(t)
           /\ \E n \in 1 .. 7 : Temp2Goes(t, m, n)
<1> DEFINE p == Temp2
           L == 2 .. 6
           M == {3}
<1>1. m \in 1 .. 6 /\ Runs(t, p, m, L, M) /\ Len(p) = 6
  BY Temp2Is DEF Runs
<1>2. IsProgram(p) /\ Guarded(p, L, M)
  BY Temp2Is, Temp2Guarded
<1>3. PICK n : Advances(t, p, m, n, L, M)
  BY <1>1, <1>2, RunsStep
<1>4. /\ n \in 1 .. 7 /\ Follows(p, m, n)
      /\ n <= 6 => Runs(t, p, n, L, M)'
      /\ n = 7 => todo'[t] = <<>> /\ mutex' # t
  BY <1>1, <1>3 DEF Advances
<1>5. n = m + 1 \/ (m = 5 /\ n = 6)
  <2>1. n \in Int
    BY <1>4
  <2> QED BY <1>1, <1>4, <2>1, Temp2Move
<1>6. Executes(t, p[m])
  BY <1>3 DEF Advances
<1>7. Apart(t)
  BY <1>1, <1>3, <1>2, AdvancesApart
<1>8. cfg' = cfg
  <2>1. p[m].i # "cfg"
    BY <1>1, Temp2Ops
  <2> QED BY <1>6, <2>1 DEF Executes
<1>9. life' = life
  <2>1. p[m].i # "become"
    BY <1>1, Temp2Ops
  <2> QED BY <1>6, <2>1 DEF Executes
<1>10. m # 3 => ctrl2' = ctrl2 /\ raced' = raced
  <2>1. m # 3 =>
         p[m].i \notin {"write", "toggle", "reset", "upload", "rpc_call", "rpc_wait"}
    BY <1>1, Temp2Ops
  <2> QED BY <1>6, <2>1 DEF Executes
<1>11. m = 3 /\ ~raced' =>
         /\ ~raced
         /\ m = 3 => ctrl2' = Toggled(ctrl2, "TEMP")
  <2>1. p[3].i = "toggle"
    BY Temp2Ops
  <2>2. /\ p[3] = Toggle("TEMP")
    BY Temp2Is
  <2> HIDE DEF p
  <2>3. /\ p[3].bit = "TEMP"
    BY <2>2, OpOf
  <2>4. m = 3 /\ ~raced' => ~raced /\ reg[t] = ctrl2
    BY <1>6, <2>1 DEF Executes
  <2>5. m = 3 /\ ~raced' => ctrl2' = Toggled(ctrl2, "TEMP")
    BY <1>6, <2>1, <2>3, <2>4 DEF Executes
  <2> QED BY <2>4, <2>5
<1>12. raced' /\ ~Linux => raced
  <2>1. p[m].i \notin {"upload", "rpc_call", "rpc_wait"}
    BY <1>1, Temp2Ops
  <2> QED BY <1>3, <1>6, <2>1 DEF Executes, Advances
<1> HIDE DEF p, L, M
<1>13. m \in 1 .. 6 /\ Apart(t)
  BY <1>1, <1>7
<1>14. Temp2Goes(t, m, n)
  BY <1>4, <1>5, <1>8, <1>9, <1>10, <1>11, <1>12 DEF Temp2Goes, p, L, M
<1> QED BY <1>4, <1>13, <1>14

Cable2Goes(t, m, n) ==
    /\ n = m + 1 \/ (m = 2 /\ n = 3)
    /\ n <= 3 => Runs(t, Cable2, n, 2 .. 3, {})'
    /\ n = 4 => todo'[t] = <<>> /\ mutex' # t
    /\ cfg' = cfg
    /\ life' = life
    /\ ctrl2' = ctrl2 /\ raced' = raced
    /\ raced' /\ ~Linux => raced

LEMMA Cable2Does ==
    ASSUME CallTypes, NEW t \in Threads, NEW m,
           Runs(t, Cable2, m, 2 .. 3, {}), Step(t)
    PROVE  /\ m \in 1 .. 3 /\ Apart(t)
           /\ \E n \in 1 .. 4 : Cable2Goes(t, m, n)
<1> DEFINE p == Cable2
           L == 2 .. 3
           M == {}
<1>1. m \in 1 .. 3 /\ Runs(t, p, m, L, M) /\ Len(p) = 3
  BY Cable2Is DEF Runs
<1>2. IsProgram(p) /\ Guarded(p, L, M)
  BY Cable2Is, Cable2Guarded
<1>3. PICK n : Advances(t, p, m, n, L, M)
  BY <1>1, <1>2, RunsStep
<1>4. /\ n \in 1 .. 4 /\ Follows(p, m, n)
      /\ n <= 3 => Runs(t, p, n, L, M)'
      /\ n = 4 => todo'[t] = <<>> /\ mutex' # t
  BY <1>1, <1>3 DEF Advances
<1>5. n = m + 1 \/ (m = 2 /\ n = 3)
  <2>1. n \in Int
    BY <1>4
  <2> QED BY <1>1, <1>4, <2>1, Cable2Move
<1>6. Executes(t, p[m])
  BY <1>3 DEF Advances
<1>7. Apart(t)
  BY <1>1, <1>3, <1>2, AdvancesApart
<1>8. cfg' = cfg
  <2>1. p[m].i # "cfg"
    BY <1>1, Cable2Ops
  <2> QED BY <1>6, <2>1 DEF Executes
<1>9. life' = life
  <2>1. p[m].i # "become"
    BY <1>1, Cable2Ops
  <2> QED BY <1>6, <2>1 DEF Executes
<1>10. ctrl2' = ctrl2 /\ raced' = raced
  <2>1. p[m].i \notin {"write", "toggle", "reset", "upload", "rpc_call", "rpc_wait"}
    BY <1>1, Cable2Ops
  <2> QED BY <1>6, <2>1 DEF Executes
<1>11. raced' /\ ~Linux => raced
  <2>1. p[m].i \notin {"upload", "rpc_call", "rpc_wait"}
    BY <1>1, Cable2Ops
  <2> QED BY <1>3, <1>6, <2>1 DEF Executes, Advances
<1> HIDE DEF p, L, M
<1>12. m \in 1 .. 3 /\ Apart(t)
  BY <1>1, <1>7
<1>13. Cable2Goes(t, m, n)
  BY <1>4, <1>5, <1>8, <1>9, <1>10, <1>11 DEF Cable2Goes, p, L, M
<1> QED BY <1>4, <1>12, <1>13

Request2Goes(t, m, n) ==
    /\ n = m + 1 \/ (m \in {2, 5} /\ n = 6)
    /\ n <= 6 => Runs(t, Request2, n, 2 .. 6, {4})'
    /\ n = 7 => todo'[t] = <<>> /\ mutex' # t
    /\ cfg' = cfg
    /\ life' = life
    /\ m \notin {2, 4} => ctrl2' = ctrl2 /\ raced' = raced
    /\ m = 2 => ctrl2' = ctrl2 /\ (raced => raced')
    /\ m = 4 /\ ~raced' =>
         /\ ~raced
         /\ m = 4 => ctrl2' = Toggled(ctrl2, "REQUEST")

LEMMA Request2Does ==
    ASSUME CallTypes, NEW t \in Threads, NEW m,
           Runs(t, Request2, m, 2 .. 6, {4}), Step(t)
    PROVE  /\ m \in 1 .. 6 /\ Apart(t)
           /\ \E n \in 1 .. 7 : Request2Goes(t, m, n)
<1> DEFINE p == Request2
           L == 2 .. 6
           M == {4}
<1>1. m \in 1 .. 6 /\ Runs(t, p, m, L, M) /\ Len(p) = 6
  BY Request2Is DEF Runs
<1>2. IsProgram(p) /\ Guarded(p, L, M)
  BY Request2Is, Request2Guarded
<1>3. PICK n : Advances(t, p, m, n, L, M)
  BY <1>1, <1>2, RunsStep
<1>4. /\ n \in 1 .. 7 /\ Follows(p, m, n)
      /\ n <= 6 => Runs(t, p, n, L, M)'
      /\ n = 7 => todo'[t] = <<>> /\ mutex' # t
  BY <1>1, <1>3 DEF Advances
<1>5. n = m + 1 \/ (m \in {2, 5} /\ n = 6)
  <2>1. n \in Int
    BY <1>4
  <2> QED BY <1>1, <1>4, <2>1, Request2Move
<1>6. Executes(t, p[m])
  BY <1>3 DEF Advances
<1>7. Apart(t)
  BY <1>1, <1>3, <1>2, AdvancesApart
<1>8. cfg' = cfg
  <2>1. p[m].i # "cfg"
    BY <1>1, Request2Ops
  <2> QED BY <1>6, <2>1 DEF Executes
<1>9. life' = life
  <2>1. p[m].i # "become"
    BY <1>1, Request2Ops
  <2> QED BY <1>6, <2>1 DEF Executes
<1>10. m \notin {2, 4} => ctrl2' = ctrl2 /\ raced' = raced
  <2>1. m \notin {2, 4} =>
         p[m].i \notin {"write", "toggle", "reset", "upload", "rpc_call", "rpc_wait"}
    BY <1>1, Request2Ops
  <2> QED BY <1>6, <2>1 DEF Executes
<1>11. m = 2 => ctrl2' = ctrl2 /\ (raced => raced')
  <2>1. m = 2 => p[m].i \in {"upload", "rpc_call", "rpc_wait"}
    BY <1>1, Request2Ops
  <2> QED BY <1>6, <2>1 DEF Executes
<1>12. m = 4 /\ ~raced' =>
         /\ ~raced
         /\ m = 4 => ctrl2' = Toggled(ctrl2, "REQUEST")
  <2>1. p[4].i = "toggle"
    BY Request2Ops
  <2>2. /\ p[4] = Toggle("REQUEST")
    BY Request2Is
  <2> HIDE DEF p
  <2>3. /\ p[4].bit = "REQUEST"
    BY <2>2, OpOf
  <2>4. m = 4 /\ ~raced' => ~raced /\ reg[t] = ctrl2
    BY <1>6, <2>1 DEF Executes
  <2>5. m = 4 /\ ~raced' => ctrl2' = Toggled(ctrl2, "REQUEST")
    BY <1>6, <2>1, <2>3, <2>4 DEF Executes
  <2> QED BY <2>4, <2>5
<1> HIDE DEF p, L, M
<1>13. m \in 1 .. 6 /\ Apart(t)
  BY <1>1, <1>7
<1>14. Request2Goes(t, m, n)
  BY <1>4, <1>5, <1>8, <1>9, <1>10, <1>11, <1>12 DEF Request2Goes, p, L, M
<1> QED BY <1>4, <1>13, <1>14

-----------------------------------------------------------------------------
(* The steps of rtnl keep its part of the invariant, call by call. *)

Requests == Toggles \cup {"RECONNECT"}

\* What the register has to hold does not depend on them.
LEMMA HoldsApart ==
    ASSUME NEW l, NEW S, S \subseteq Settings, NEW x, NEW y, NEW g, NEW v,
           x \ Requests = y \ Requests, Holds(l, S, x, g, v)
    PROVE  Holds(l, S, y, g, v)
<1>1. \A b : b \notin Requests => (b \in x <=> b \in y)
  BY DEF Requests
<1>2. "LINK_DROP" \notin Requests /\ "INIT" \notin Requests /\ "SPEED" \notin Requests
      /\ "DIRTY_WAKE" \notin Requests /\ "POWER" \notin Requests /\ "WOL" \notin Requests
      /\ "DEINIT" \notin Requests /\ \A b \in S : b \notin Requests
  BY DEF Requests, Toggles, Settings
<1>3. x \cap S = y \cap S
  BY <1>1, <1>2
<1> QED BY <1>1, <1>2, <1>3 DEF Holds

\* What the other threads see of a step of rtnl.
Meanwhile ==
    /\ Apart("rtnl")
    /\ life' \in {"absent", "closed", "open", "closing", "armed", "dropped"}
    /\ life # "absent" => life' # "absent"
    /\ life \in {"open", "closing"} /\ todo["service"] # <<>> =>
         /\ life' \in {"open", "closing"}
         /\ mutex = "service" => ctrl2' = ctrl2

LEMMA Opening2Step ==
    ASSUME CallTypes, NEW m, Opening2(m), Step("rtnl")
    PROVE  RtnlInv' /\ Meanwhile
<1>0. PICK c : c = cfg
  OBVIOUS
<1>1. /\ m \in 1 .. 19 /\ Apart("rtnl")
      /\ \E n \in 1 .. 20 : Open2Goes("rtnl", m, n, c)
  <2>1. Runs("rtnl", Open2(c), m, (2 .. 6) \cup (16 .. 18), {4, 8, 11, 17})
    BY <1>0 DEF Opening2
  <2> QED BY <2>1, Open2Does DEF Threads
<1>2. PICK n \in 1 .. 20 : Open2Goes("rtnl", m, n, c)
  BY <1>1
<1>3. n = m + 1 \/ (n = m /\ m = 2) \/ (m = 2 /\ n = 6) \/ (m = 12 /\ n = 14) \/ (m = 6 /\ n = 20)
  BY <1>2 DEF Open2Goes
<1>4. cfg' = cfg /\ c = cfg' /\ major' = major /\ (m # 19 => life' = life) /\ (m = 19 => life' = "open")
  BY <1>0, <1>1, <1>2 DEF Open2Goes, Apart
<1>5. m \notin {2, 4, 8, 11, 17} \/ (m = 2 /\ n # 3) => ctrl2' = ctrl2 /\ raced' = raced
  BY <1>2 DEF Open2Goes
<1>6. Meanwhile
  BY <1>1, <1>4 DEF Meanwhile, Opening2, Down
<1>7. CASE n = 20
  <2>1. m = 19 \/ m = 6
    BY <1>1, <1>3, <1>7
  <2>2. \/ m = 19 /\ Kept("open", Settings)
        \/ m = 6 /\ Kept(life, Settings)
    BY <1>2, <1>7, <2>1 DEF Opening2, Open2Goes
  <2>3. Kept(life, Settings)'
    BY <1>4, <1>5, <2>2 DEF Kept
  <2>4. life' # "closing"
    BY <1>4 DEF Opening2, Down
  <2> QED BY <1>2, <1>6, <1>7, <2>3, <2>4 DEF RtnlInv, AtRest, Open2Goes
<1>8. CASE n # 20
  <2>1. n \in 1 .. 19 /\ m # 19
    BY <1>1, <1>2, <1>3, <1>8
  <2>2. (~Fw1x)' /\ Down'
    BY <1>4, <2>1 DEF Opening2, Down, Fw1x
  <2>3. Runs("rtnl", Open2(cfg), n, (2 .. 6) \cup (16 .. 18), {4, 8, 11, 17})'
    <3>1. Runs("rtnl", Open2(c), n, (2 .. 6) \cup (16 .. 18), {4, 8, 11, 17})'
      BY <1>2, <2>1 DEF Open2Goes
    <3> QED BY <1>4, <3>1
  <2>4. (n <= 2 \/ (n = 6 /\ err["rtnl"]))' => Kept(life, Settings)'
    <3>1. n <= 2 \/ n = 6 => m \in {1, 2, 5} /\ n # 3 /\ (n <= 2 => m # 5)
      BY <1>1, <2>1, <1>3
    <3>2. m = 5 => ~err'["rtnl"]
      BY <1>2 DEF Open2Goes
    <3>3. m \in {1, 2} => Kept(life, Settings)
      BY DEF Opening2
    <3> QED BY <1>4, <1>5, <3>1, <3>2, <3>3 DEF Kept
  <2>5. n >= 9 => Kept("open", {"EEE", "PAUSE"})'
    <3>1. n >= 9 => m >= 8
      BY <1>1, <2>1, <1>3
    <3>2. CASE m = 8
      <4>1. ~raced' => ctrl2' = (ctrl2 \ {"LINK_DROP", "EEE", "PAUSE"}) \cup (cfg \cap {"EEE", "PAUSE"})
        BY <1>0, <1>2, <3>2 DEF Open2Goes
      <4> QED BY <1>4, <4>1 DEF Kept, Holds, Opening2, Fw1x
    <3>3. CASE m >= 9 /\ m \notin {11, 17}
      BY <1>1, <1>4, <1>5, <3>3 DEF Kept, Opening2
    <3>4. CASE m \in {11, 17}
      <4>1. Kept("open", {"EEE", "PAUSE"})
        BY <3>4 DEF Opening2
      <4>2. ~raced' => ~raced /\ (m = 11 => ctrl2' = Toggled(ctrl2, "STATS"))
                      /\ (m = 17 => ctrl2' = (ctrl2 \ {"LOOPBACK"}) \cup (c \cap {"LOOPBACK"}))
        BY <1>2, <3>4 DEF Open2Goes
      <4> QED BY <1>4, <3>4, <4>1, <4>2 DEF Kept, Holds, Toggled
    <3> QED BY <1>1, <3>1, <3>2, <3>3, <3>4
  <2>6. n >= 18 => Kept("open", Settings)'
    <3>1. n >= 18 => m >= 17
      BY <1>1, <2>1, <1>3
    <3>2. CASE m = 17
      <4>1. Kept("open", {"EEE", "PAUSE"})
        BY <3>2 DEF Opening2
      <4>2. ~raced' => ~raced /\ ctrl2' = (ctrl2 \ {"LOOPBACK"}) \cup (cfg \cap {"LOOPBACK"})
        BY <1>0, <1>2, <3>2 DEF Open2Goes
      <4> QED BY <1>4, <4>1, <4>2 DEF Kept, Holds, Settings, Opening2, Fw1x
    <3>3. CASE m >= 18
      BY <1>1, <1>4, <1>5, <3>3 DEF Kept, Opening2
    <3> QED BY <1>1, <3>1, <3>2, <3>3
  <2>7. Opening2(n)'
    BY <2>2, <2>3, <2>4, <2>5, <2>6 DEF Opening2
  <2> QED BY <1>6, <2>1, <2>7 DEF RtnlInv
<1> QED BY <1>7, <1>8

LEMMA Opening1Step ==
    ASSUME CallTypes, NEW m, Opening1(m), Step("rtnl")
    PROVE  RtnlInv' /\ Meanwhile
<1>1. /\ m \in 1 .. 15 /\ Apart("rtnl")
      /\ \E n \in 1 .. 16 : Open1Goes("rtnl", m, n)
  <2>1. Runs("rtnl", Open1, m, 2 .. 7, {4, 5, 9, 11})
    BY DEF Opening1
  <2> QED BY <2>1, Open1Does DEF Threads
<1>2. PICK n \in 1 .. 16 : Open1Goes("rtnl", m, n)
  BY <1>1
<1>3. n = m + 1 \/ (n = m /\ m = 2) \/ (m = 4 /\ n = 6) \/ (m = 2 /\ n = 7) \/ (m = 7 /\ n = 16)
  BY <1>2 DEF Open1Goes
<1>4. cfg' = cfg /\ major' = major /\ (m # 15 => life' = life) /\ (m = 15 => life' = "open")
  BY <1>1, <1>2 DEF Open1Goes, Apart
<1>5. m \notin {2, 5, 9, 11} \/ (m = 2 /\ n # 3) => ctrl2' = ctrl2 /\ raced' = raced
  BY <1>2 DEF Open1Goes
<1>6. Meanwhile
  BY <1>1, <1>4 DEF Meanwhile, Opening1, Down
<1>7. CASE n = 16
  <2>1. m = 15 \/ m = 7
    BY <1>1, <1>3, <1>7
  <2>2. \/ m = 15 /\ Kept("open", Settings)
        \/ m = 7 /\ Kept(life, Settings)
    BY <1>2, <1>7, <2>1 DEF Opening1, Open1Goes
  <2>3. Kept(life, Settings)'
    BY <1>4, <1>5, <2>2 DEF Kept
  <2>4. life' # "closing"
    BY <1>4 DEF Opening1, Down
  <2> QED BY <1>2, <1>6, <1>7, <2>3, <2>4 DEF RtnlInv, AtRest, Open1Goes
<1>8. CASE n # 16
  <2>1. n \in 1 .. 15 /\ n \in 1 .. 19 /\ m # 15
    BY <1>1, <1>2, <1>3, <1>8
  <2>2. Fw1x' /\ Down'
    BY <1>4, <2>1 DEF Opening1, Down, Fw1x
  <2>3. Runs("rtnl", Open1, n, 2 .. 7, {4, 5, 9, 11})'
    BY <1>2, <2>1 DEF Open1Goes
  <2>4. (n <= 2 \/ (n = 7 /\ err["rtnl"]))' => Kept(life, Settings)'
    <3>1. n <= 2 \/ n = 7 => m \in {1, 2, 6} /\ n # 3 /\ (n <= 2 => m # 6)
      BY <1>1, <2>1, <1>3
    <3>2. m = 6 => ~err'["rtnl"]
      BY <1>2 DEF Open1Goes
    <3>3. m \in {1, 2} => Kept(life, Settings)
      BY DEF Opening1
    <3> QED BY <1>4, <1>5, <3>1, <3>2, <3>3 DEF Kept
  <2>5. n \in {10, 11} => raced' \/ "SPEED" \in ctrl2'
    <3>1. n \in {10, 11} => m \in {9, 10}
      BY <1>1, <2>1, <1>3
    <3>2. m = 9 /\ ~raced' => "SPEED" \in ctrl2'
      BY <1>2 DEF Open1Goes
    <3>3. m = 10 => raced \/ "SPEED" \in ctrl2
      BY DEF Opening1
    <3> QED BY <1>5, <3>1, <3>2, <3>3
  <2>6. n >= 12 => Kept("open", Settings)'
    <3>1. n >= 12 => m >= 11
      BY <1>1, <2>1, <1>3
    <3>2. CASE m = 11
      <4>1. raced \/ "SPEED" \in ctrl2
        BY <3>2 DEF Opening1
      <4>2. ~raced' => ~raced /\ ctrl2' = (ctrl2 \ (States1x \cup {"DIRTY_WAKE"})) \cup {"INIT"}
        BY <1>2, <3>2 DEF Open1Goes
      <4> QED BY <1>4, <4>1, <4>2 DEF Kept, Holds, States1x, Opening1, Fw1x
    <3>3. CASE m >= 12
      BY <1>1, <1>4, <1>5, <3>3 DEF Kept, Opening1
    <3> QED BY <1>1, <3>1, <3>2, <3>3
  <2>7. Opening1(n)'
    BY <2>2, <2>3, <2>4, <2>5, <2>6 DEF Opening1
  <2> QED BY <1>6, <2>1, <2>7 DEF RtnlInv
<1> QED BY <1>7, <1>8

LEMMA InitingStep ==
    ASSUME CallTypes, Initing, Step("rtnl")
    PROVE  RtnlInv' /\ Meanwhile
<1>1. \/ Fw1x /\ \E m : Runs("rtnl", Init1, m, {}, {})
      \/ ~Fw1x /\ \E m : Runs("rtnl", Init2, m, {}, {})
  BY DEF Initing
<1>2. ASSUME NEW N \in {5, 6}, NEW m \in 1 .. N, NEW n \in 1 .. N + 1, Apart("rtnl"),
             life' \in {"absent", "closed"}, n # N + 1 => life' = "absent",
             n = N + 1 => todo'["rtnl"] = <<>> /\ mutex' # "rtnl",
             n # N + 1 => \/ Fw1x' /\ Runs("rtnl", Init1, n, {}, {})'
                          \/ ~Fw1x' /\ Runs("rtnl", Init2, n, {}, {})'
      PROVE  RtnlInv' /\ Meanwhile
  <2>1. Meanwhile
    BY <1>2 DEF Meanwhile, Initing
  <2>2. CASE n = N + 1
    <3>1. Kept(life, Settings)'
      BY <1>2 DEF Kept, Holds
    <3> QED BY <1>2, <2>1, <2>2, <3>1 DEF RtnlInv, AtRest
  <2>3. CASE n # N + 1
    <3>1. n \in 1 .. 6
      BY <1>2, <2>3
    <3> QED BY <1>2, <2>1, <2>3, <3>1 DEF RtnlInv, Initing
  <2> QED BY <2>2, <2>3
<1>3. CASE Fw1x /\ \E m : Runs("rtnl", Init1, m, {}, {})
  <2>1. PICK m : Runs("rtnl", Init1, m, {}, {})
    BY <1>3
  <2>2. m \in 1 .. 6 /\ Apart("rtnl") /\ \E n \in 1 .. 7 : Init1Goes("rtnl", m, n)
    BY <2>1, Init1Does DEF Threads
  <2>3. PICK n \in 1 .. 7 : Init1Goes("rtnl", m, n)
    BY <2>2
  <2>4. life' \in {"absent", "closed"} /\ (n # 7 => life' = "absent")
    <3>1. m # 6 \/ n = 7
      BY <2>3 DEF Init1Goes
    <3> QED BY <2>3, <3>1 DEF Init1Goes, Initing
  <2>5. Fw1x'
    BY <1>3, <2>2 DEF Fw1x, Apart
  <2>6. n # 7 => Runs("rtnl", Init1, n, {}, {})'
    <3>1. n # 7 => n <= 6
      BY <2>3
    <3> QED BY <2>3, <3>1 DEF Init1Goes
  <2>7. n = 7 => todo'["rtnl"] = <<>> /\ mutex' # "rtnl"
    BY <2>3 DEF Init1Goes
  <2>8. 6 + 1 = 7 /\ 6 \in {5, 6}
    OBVIOUS
  <2> QED BY <1>2, <2>2, <2>4, <2>5, <2>6, <2>7, <2>8
<1>4. CASE ~Fw1x /\ \E m : Runs("rtnl", Init2, m, {}, {})
  <2>1. PICK m : Runs("rtnl", Init2, m, {}, {})
    BY <1>4
  <2>2. m \in 1 .. 5 /\ Apart("rtnl") /\ \E n \in 1 .. 6 : Init2Goes("rtnl", m, n)
    BY <2>1, Init2Does DEF Threads
  <2>3. PICK n \in 1 .. 6 : Init2Goes("rtnl", m, n)
    BY <2>2
  <2>4. life' \in {"absent", "closed"} /\ (n # 6 => life' = "absent")
    <3>1. m # 5 \/ n = 6
      BY <2>3 DEF Init2Goes
    <3> QED BY <2>3, <3>1 DEF Init2Goes, Initing
  <2>5. ~Fw1x'
    BY <1>4, <2>2 DEF Fw1x, Apart
  <2>6. n # 6 => Runs("rtnl", Init2, n, {}, {})'
    <3>1. n # 6 => n <= 5
      BY <2>3
    <3> QED BY <2>3, <3>1 DEF Init2Goes
  <2>7. n = 6 => todo'["rtnl"] = <<>> /\ mutex' # "rtnl"
    BY <2>3 DEF Init2Goes
  <2>8. 5 + 1 = 6 /\ 5 \in {5, 6}
    OBVIOUS
  <2> QED BY <1>2, <2>2, <2>4, <2>5, <2>6, <2>7, <2>8
<1> QED BY <1>1, <1>3, <1>4

\* rtnl leaves the device: the life it is in, position by position.
Leaves(m, n, N, l) ==
    /\ N \in Nat /\ N > 3 /\ m \in 1 .. N /\ n \in 1 .. N + 1 /\ l \in {"dropped", "armed"}
    /\ n = m + 1 \/ m \notin {1, 2, N}
    /\ m \notin {1, 2, N} => life' = life /\ n >= 3
    /\ m = 1 => life' = "closing"
    /\ m = 2 => life' = "closed" /\ (life = "closing" => todo["service"] = <<>>)
    /\ m = N => life' = l
    /\ m <= 3 => ctrl2' = ctrl2

LEMMA LeavingStep ==
    ASSUME NEW m, NEW n, NEW N, NEW l, Apart("rtnl"), Leaving(m), Leaves(m, n, N, l)
    PROVE  /\ Meanwhile
           /\ n # N + 1 => Leaving(n)'
           /\ n = N + 1 => (m = N /\ life' = l) \/ life' = "closed"
<1> USE DEF Leaves
<1>1. CASE m = 1
  BY <1>1 DEF Meanwhile, Leaving
<1>2. CASE m = 2
  BY <1>2 DEF Meanwhile, Leaving
<1>3. CASE m >= 3 /\ m # N
  <2>1. life = "closed" /\ life' = life /\ n >= 3
    BY <1>3 DEF Leaving
  <2> QED BY <2>1 DEF Meanwhile, Leaving
<1>4. CASE m = N
  <2>1. life = "closed" /\ life' = l /\ n = N + 1
    BY <1>4 DEF Leaving
  <2> QED BY <1>4, <2>1 DEF Meanwhile
<1> QED BY <1>1, <1>2, <1>3, <1>4

LEMMA Drop1Step ==
    ASSUME CallTypes, NEW m, Fw1x, Leaving(m), Runs("rtnl", Drop1, m, 4 .. 8, {5, 7}),
           m >= 8 => Kept("dropped", Settings), Step("rtnl")
    PROVE  RtnlInv' /\ Meanwhile
<1>1. m \in 1 .. 9 /\ Apart("rtnl") /\ \E n \in 1 .. 10 : Drop1Goes("rtnl", m, n)
  BY Drop1Does DEF Threads
<1>2. PICK n \in 1 .. 10 : Drop1Goes("rtnl", m, n)
  BY <1>1
<1>3. n = m + 1 /\ cfg' = cfg /\ major' = major
  BY <1>1, <1>2 DEF Drop1Goes, Apart
<1>4. m \notin {5, 7} => ctrl2' = ctrl2 /\ raced' = raced
  BY <1>2 DEF Drop1Goes
<1>5. /\ Meanwhile
      /\ n # 10 => Leaving(n)'
      /\ n = 10 => (m = 9 /\ life' = "dropped") \/ life' = "closed"
  <2>1. /\ m \notin {1, 2, 9} => life' = life
        /\ m = 1 => life' = "closing"
        /\ m = 2 => life' = "closed" /\ (life = "closing" => todo["service"] = <<>>)
        /\ m = 9 => life' = "dropped"
    BY <1>2 DEF Drop1Goes
  <2>2. /\ 9 \in Nat /\ 9 > 3 /\ n \in 1 .. 9 + 1 /\ "dropped" \in {"dropped", "armed"}
        /\ m \notin {1, 2, 9} => n >= 3
        /\ m <= 3 => ctrl2' = ctrl2
        /\ n = m + 1 \/ m \notin {1, 2, 9}
    BY <1>1, <1>3, <1>4
  <2>3. Leaves(m, n, 9, "dropped")
    BY <1>1, <2>1, <2>2 DEF Leaves
  <2>4. /\ Meanwhile
        /\ n # 9 + 1 => Leaving(n)'
        /\ n = 9 + 1 => (m = 9 /\ life' = "dropped") \/ life' = "closed"
    BY <1>1, <2>3, LeavingStep
  <2> QED BY <2>4
<1>6. n >= 8 => Kept("dropped", Settings)'
  <2>1. CASE m = 7
    <3>1. ~raced' => ctrl2' = (ctrl2 \ (States1x \cup {"DIRTY_WAKE"})) \cup {"DEINIT", "DIRTY_WAKE"}
      BY <1>2, <2>1 DEF Drop1Goes
    <3> QED BY <1>3, <3>1 DEF Kept, Holds, Fw1x
  <2>2. CASE m >= 8
    BY <1>1, <1>3, <1>4, <2>2 DEF Kept
  <2> QED BY <1>1, <1>3, <2>1, <2>2
<1>7. CASE n = 10
  <2>1. Kept(life, Settings)' /\ life' # "closing"
    BY <1>5, <1>6, <1>7 DEF Kept, Holds
  <2> QED BY <1>2, <1>5, <1>7, <2>1 DEF RtnlInv, AtRest, Drop1Goes
<1>8. CASE n # 10
  <2>1. n \in 1 .. 9 /\ n \in 1 .. 19
    BY <1>8
  <2>2. Runs("rtnl", Drop1, n, 4 .. 8, {5, 7})'
    BY <1>2, <2>1 DEF Drop1Goes
  <2>3. Fw1x'
    BY <1>3 DEF Fw1x
  <2>4. Closing1(n)'
    BY <1>5, <1>6, <1>8, <2>2, <2>3 DEF Closing1
  <2> QED BY <1>5, <2>1, <2>4 DEF RtnlInv
<1> QED BY <1>7, <1>8

LEMMA Arm1Step ==
    ASSUME CallTypes, NEW m, Fw1x, Leaving(m), Runs("rtnl", Arm1, m, 4 .. 8, {5, 7, 14, 16}),
           m >= 17 => Kept("armed", Settings), Step("rtnl")
    PROVE  RtnlInv' /\ Meanwhile
<1>1. m \in 1 .. 17 /\ Apart("rtnl") /\ \E n \in 1 .. 18 : Arm1Goes("rtnl", m, n)
  BY Arm1Does DEF Threads
<1>2. PICK n \in 1 .. 18 : Arm1Goes("rtnl", m, n)
  BY <1>1
<1>3. /\ n = m + 1 \/ (n = m /\ m \in {9, 11}) \/ (m \in {9, 10, 11, 12} /\ n = 18)
      /\ cfg' = cfg /\ major' = major
  BY <1>1, <1>2 DEF Arm1Goes, Apart
<1>4. m \notin {5, 7, 14, 16} => ctrl2' = ctrl2 /\ (raced => raced')
  BY <1>2 DEF Arm1Goes
<1>5. /\ Meanwhile
      /\ n # 18 => Leaving(n)'
      /\ n = 18 => (m = 17 /\ life' = "armed") \/ life' = "closed"
  <2>1. /\ m \notin {1, 2, 17} => life' = life
        /\ m = 1 => life' = "closing"
        /\ m = 2 => life' = "closed" /\ (life = "closing" => todo["service"] = <<>>)
        /\ m = 17 => life' = "armed"
    BY <1>2 DEF Arm1Goes
  <2>2. /\ 17 \in Nat /\ 17 > 3 /\ n \in 1 .. 17 + 1 /\ "armed" \in {"dropped", "armed"}
        /\ m \notin {1, 2, 17} => n >= 3
        /\ m <= 3 => ctrl2' = ctrl2
        /\ n = m + 1 \/ m \notin {1, 2, 17}
    BY <1>1, <1>3, <1>4
  <2>3. Leaves(m, n, 17, "armed")
    BY <1>1, <2>1, <2>2 DEF Leaves
  <2>4. /\ Meanwhile
        /\ n # 17 + 1 => Leaving(n)'
        /\ n = 17 + 1 => (m = 17 /\ life' = "armed") \/ life' = "closed"
    BY <1>1, <2>3, LeavingStep
  <2> QED BY <2>4
<1>6. n >= 17 => (m \in {9, 10, 11, 12} /\ n = 18) \/ Kept("armed", Settings)'
  <2>1. CASE m = 16
    <3>1. ~raced' => ctrl2' = (ctrl2 \ (States1x \cup {"DIRTY_WAKE"})) \cup {"POWER", "DIRTY_WAKE"}
      BY <1>2, <2>1 DEF Arm1Goes
    <3> QED BY <1>3, <3>1 DEF Kept, Holds, Fw1x
  <2>2. CASE m >= 17
    BY <1>1, <1>3, <1>4, <2>2 DEF Kept
  <2> QED BY <1>1, <1>3, <2>1, <2>2
<1>7. CASE n = 18
  <2>1. Kept(life, Settings)' /\ life' # "closing"
    BY <1>5, <1>6, <1>7 DEF Kept, Holds
  <2> QED BY <1>2, <1>5, <1>7, <2>1 DEF RtnlInv, AtRest, Arm1Goes
<1>8. CASE n # 18
  <2>1. n \in 1 .. 17 /\ n \in 1 .. 19
    BY <1>8
  <2>2. Runs("rtnl", Arm1, n, 4 .. 8, {5, 7, 14, 16})'
    BY <1>2, <2>1 DEF Arm1Goes
  <2>3. Fw1x'
    BY <1>3 DEF Fw1x
  <2>4. Closing1(n)'
    BY <1>5, <1>6, <1>8, <2>2, <2>3 DEF Closing1
  <2> QED BY <1>5, <2>1, <2>4 DEF RtnlInv
<1> QED BY <1>7, <1>8

LEMMA Drop2Step ==
    ASSUME CallTypes, NEW m, ~Fw1x, Leaving(m), Runs("rtnl", Drop2, m, 4 .. 6, {5}),
           m >= 6 => Kept("dropped", Settings), Step("rtnl")
    PROVE  RtnlInv' /\ Meanwhile
<1>1. m \in 1 .. 7 /\ Apart("rtnl") /\ \E n \in 1 .. 8 : Drop2Goes("rtnl", m, n)
  BY Drop2Does DEF Threads
<1>2. PICK n \in 1 .. 8 : Drop2Goes("rtnl", m, n)
  BY <1>1
<1>3. n = m + 1 /\ cfg' = cfg /\ major' = major
  BY <1>1, <1>2 DEF Drop2Goes, Apart
<1>4. m # 5 => ctrl2' = ctrl2 /\ raced' = raced
  BY <1>2 DEF Drop2Goes
<1>5. /\ Meanwhile
      /\ n # 8 => Leaving(n)'
      /\ n = 8 => (m = 7 /\ life' = "dropped") \/ life' = "closed"
  <2>1. /\ m \notin {1, 2, 7} => life' = life
        /\ m = 1 => life' = "closing"
        /\ m = 2 => life' = "closed" /\ (life = "closing" => todo["service"] = <<>>)
        /\ m = 7 => life' = "dropped"
    BY <1>2 DEF Drop2Goes
  <2>2. /\ 7 \in Nat /\ 7 > 3 /\ n \in 1 .. 7 + 1 /\ "dropped" \in {"dropped", "armed"}
        /\ m \notin {1, 2, 7} => n >= 3
        /\ m <= 3 => ctrl2' = ctrl2
        /\ n = m + 1 \/ m \notin {1, 2, 7}
    BY <1>1, <1>3, <1>4
  <2>3. Leaves(m, n, 7, "dropped")
    BY <1>1, <2>1, <2>2 DEF Leaves
  <2>4. /\ Meanwhile
        /\ n # 7 + 1 => Leaving(n)'
        /\ n = 7 + 1 => (m = 7 /\ life' = "dropped") \/ life' = "closed"
    BY <1>1, <2>3, LeavingStep
  <2> QED BY <2>4
<1>6. n >= 6 => Kept("dropped", Settings)'
  <2>1. CASE m = 5
    <3>1. ~raced' => "LINK_DROP" \in ctrl2'
      BY <1>2, <2>1 DEF Drop2Goes
    <3> QED BY <1>3, <3>1 DEF Kept, Holds, Fw1x
  <2>2. CASE m >= 6
    BY <1>1, <1>3, <1>4, <2>2 DEF Kept
  <2> QED BY <1>1, <1>3, <2>1, <2>2
<1>7. CASE n = 8
  <2>1. Kept(life, Settings)' /\ life' # "closing"
    BY <1>5, <1>6, <1>7 DEF Kept, Holds
  <2> QED BY <1>2, <1>5, <1>7, <2>1 DEF RtnlInv, AtRest, Drop2Goes
<1>8. CASE n # 8
  <2>1. n \in 1 .. 7 /\ n \in 1 .. 19
    BY <1>8
  <2>2. Runs("rtnl", Drop2, n, 4 .. 6, {5})'
    BY <1>2, <2>1 DEF Drop2Goes
  <2>3. ~Fw1x'
    BY <1>3 DEF Fw1x
  <2>4. Closing2(n)'
    BY <1>5, <1>6, <1>8, <2>2, <2>3 DEF Closing2
  <2> QED BY <1>5, <2>1, <2>4 DEF RtnlInv
<1> QED BY <1>7, <1>8

LEMMA Arm2Step ==
    ASSUME CallTypes, NEW m, ~Fw1x, Leaving(m),
           Runs("rtnl", Arm2, m, 4 .. 6, {5, 9, 10, 11, 15, 16, 17}),
           m >= 10 => raced \/ "LINK_DROP" \notin ctrl2,
           m >= 18 => Kept("armed", Settings), Step("rtnl")
    PROVE  RtnlInv' /\ Meanwhile
<1>1. m \in 1 .. 19 /\ Apart("rtnl") /\ \E n \in 1 .. 20 : Arm2Goes("rtnl", m, n)
  BY Arm2Does DEF Threads
<1>2. PICK n \in 1 .. 20 : Arm2Goes("rtnl", m, n)
  BY <1>1
<1>3. /\ n = m + 1 \/ (n = m /\ m \in {7, 13}) \/ (m \in {7, 10, 12, 13, 16, 18} /\ n = 20)
      /\ cfg' = cfg /\ major' = major
  BY <1>1, <1>2 DEF Arm2Goes, Apart
<1>4. m \notin {5, 9, 11, 15, 17} => ctrl2' = ctrl2 /\ (raced => raced')
  BY <1>2 DEF Arm2Goes
<1>5. /\ Meanwhile
      /\ n # 20 => Leaving(n)'
      /\ n = 20 => (m = 19 /\ life' = "armed") \/ life' = "closed"
  <2>1. /\ m \notin {1, 2, 19} => life' = life
        /\ m = 1 => life' = "closing"
        /\ m = 2 => life' = "closed" /\ (life = "closing" => todo["service"] = <<>>)
        /\ m = 19 => life' = "armed"
    BY <1>2 DEF Arm2Goes
  <2>2. /\ 19 \in Nat /\ 19 > 3 /\ n \in 1 .. 19 + 1 /\ "armed" \in {"dropped", "armed"}
        /\ m \notin {1, 2, 19} => n >= 3
        /\ m <= 3 => ctrl2' = ctrl2
        /\ n = m + 1 \/ m \notin {1, 2, 19}
    BY <1>1, <1>3, <1>4
  <2>3. Leaves(m, n, 19, "armed")
    BY <1>1, <2>1, <2>2 DEF Leaves
  <2>4. /\ Meanwhile
        /\ n # 19 + 1 => Leaving(n)'
        /\ n = 19 + 1 => (m = 19 /\ life' = "armed") \/ life' = "closed"
    BY <1>1, <2>3, LeavingStep
  <2> QED BY <2>4
<1>6. n >= 10 => (m \in {7} /\ n = 20) \/ raced' \/ "LINK_DROP" \notin ctrl2'
  <2>1. n >= 10 => m \in {7, 9} \/ m >= 10
    BY <1>1, <1>3
  <2>2. n >= 10 /\ m = 7 => n = 20
    BY <1>3
  <2>3. m = 9 /\ ~raced' => "LINK_DROP" \notin ctrl2'
    BY <1>2 DEF Arm2Goes
  <2>4. m >= 10 /\ m \notin {11, 15, 17} => raced' \/ "LINK_DROP" \notin ctrl2'
    BY <1>1, <1>4
  <2>5. m \in {11, 15, 17} => raced' \/ "LINK_DROP" \notin ctrl2'
    <3>1. m \in {11, 15, 17} => m >= 10
      OBVIOUS
    <3>2. m \in {11, 15, 17} /\ ~raced' =>
            /\ ~raced
            /\ m = 11 => ctrl2' = (ctrl2 \ {}) \cup {"PROXY"}
            /\ m = 15 => ctrl2' = (ctrl2 \ {"PROXY", "WOL"}) \cup {}
            /\ m = 17 => ctrl2' = (ctrl2 \ {}) \cup {"WOL"}
      BY <1>2 DEF Arm2Goes
    <3> QED BY <3>1, <3>2
  <2> QED BY <2>1, <2>2, <2>3, <2>4, <2>5
<1>7. n \in {18, 19} \/ m = 19 => Kept("armed", Settings)'
  <2>1. CASE m = 17
    <3>1. ~raced' => ~raced /\ ctrl2' = (ctrl2 \ {}) \cup {"WOL"}
      BY <1>2, <2>1 DEF Arm2Goes
    <3>2. raced \/ "LINK_DROP" \notin ctrl2
      BY <2>1
    <3> QED BY <1>3, <3>1, <3>2 DEF Kept, Holds, Fw1x
  <2>2. CASE m >= 18
    BY <1>1, <1>3, <1>4, <2>2 DEF Kept
  <2> QED BY <1>1, <1>3, <2>1, <2>2
<1>8. CASE n = 20
  <2>1. Kept(life, Settings)' /\ life' # "closing"
    BY <1>5, <1>7, <1>8 DEF Kept, Holds
  <2> QED BY <1>2, <1>5, <1>8, <2>1 DEF RtnlInv, AtRest, Arm2Goes
<1>9. CASE n # 20
  <2>1. n \in 1 .. 19
    BY <1>9
  <2>2. Runs("rtnl", Arm2, n, 4 .. 6, {5, 9, 10, 11, 15, 16, 17})'
    BY <1>2, <2>1 DEF Arm2Goes
  <2>3. ~Fw1x'
    BY <1>3 DEF Fw1x
  <2>4. (n >= 10 => raced' \/ "LINK_DROP" \notin ctrl2') /\ (n >= 18 => Kept("armed", Settings)')
    BY <1>6, <1>7, <2>1
  <2>5. Closing2(n)'
    BY <1>5, <1>9, <2>2, <2>3, <2>4 DEF Closing2
  <2> QED BY <1>5, <2>1, <2>5 DEF RtnlInv
<1> QED BY <1>8, <1>9

LEMMA ClosingStep ==
    ASSUME CallTypes, NEW m, Closing1(m) \/ Closing2(m), Step("rtnl")
    PROVE  RtnlInv' /\ Meanwhile
  BY Drop1Step, Arm1Step, Drop2Step, Arm2Step DEF Closing1, Closing2

LEMMA AskingKept ==
    ASSUME Up, Kept(life, Settings), Apart("rtnl"), life' = life, cfg' = cfg,
           ~raced' => ~raced /\ ctrl2' \ Requests = ctrl2 \ Requests,
           ctrl2' = ctrl2 \/ mutex = "rtnl"
    PROVE  Up' /\ Kept(life, Settings)' /\ Fw1x' = Fw1x /\ Meanwhile
<1>1. major' = major
  BY DEF Apart
<1>2. Kept(life, Settings)'
  <2> SUFFICES ASSUME ~raced' PROVE Holds(life, Settings, ctrl2', cfg, major)
    BY <1>1 DEF Kept
  <2>1. Holds(life, Settings, ctrl2, cfg, major)
    BY DEF Kept
  <2> QED BY <2>1, HoldsApart
<1>3. Meanwhile
  BY DEF Meanwhile, Up
<1> QED BY <1>1, <1>2, <1>3 DEF Up, Fw1x

LEMMA Stats1Step ==
    ASSUME CallTypes, NEW m, Up, Kept(life, Settings), Fw1x,
           Runs("rtnl", Stats1, m, {2, 3}, {}), Step("rtnl")
    PROVE  RtnlInv' /\ Meanwhile
<1>1. m \in 1 .. 3 /\ Apart("rtnl") /\ \E n \in 1 .. 4 : Stats1Goes("rtnl", m, n)
  BY Stats1Does DEF Threads
<1>2. PICK n \in 1 .. 4 : Stats1Goes("rtnl", m, n)
  BY <1>1
<1>3. /\ ~raced' => ~raced /\ ctrl2' \ Requests = ctrl2 \ Requests
      /\ ctrl2' = ctrl2 \/ mutex = "rtnl"
  BY <1>2 DEF Stats1Goes
<1>4. Up' /\ Kept(life, Settings)' /\ Fw1x' = Fw1x /\ Meanwhile
  <2>1. life' = life /\ cfg' = cfg
    BY <1>2 DEF Stats1Goes
  <2> QED BY <1>1, <1>3, <2>1, AskingKept
<1>5. CASE n = 4
  BY <1>2, <1>4, <1>5 DEF RtnlInv, AtRest, Up, Stats1Goes
<1>6. CASE n # 4
  <2>1. n <= 3 /\ n \in 1 .. 19
    BY <1>6
  <2>2. Runs("rtnl", Stats1, n, {2, 3}, {})'
    BY <1>2, <2>1 DEF Stats1Goes
  <2>3. Asking(n)'
    BY <1>4, <2>2 DEF Asking
  <2> QED BY <1>4, <2>1, <2>3 DEF RtnlInv
<1> QED BY <1>5, <1>6

LEMMA Stats2Step ==
    ASSUME CallTypes, NEW m, Up, Kept(life, Settings), ~Fw1x,
           Runs("rtnl", Stats2, m, 2 .. 6, {3}), Step("rtnl")
    PROVE  RtnlInv' /\ Meanwhile
<1>1. m \in 1 .. 6 /\ Apart("rtnl") /\ \E n \in 1 .. 7 : Stats2Goes("rtnl", m, n)
  BY Stats2Does DEF Threads
<1>2. PICK n \in 1 .. 7 : Stats2Goes("rtnl", m, n)
  BY <1>1
<1>3. /\ ~raced' => ~raced /\ ctrl2' \ Requests = ctrl2 \ Requests
      /\ ctrl2' = ctrl2 \/ mutex = "rtnl"
  <2>1. CASE m # 3
    BY <1>2, <2>1 DEF Stats2Goes
  <2>2. CASE m = 3
    <3>1. ~raced' => ~raced /\ ctrl2' = Toggled(ctrl2, "STATS")
      BY <1>2, <2>2 DEF Stats2Goes
    <3>2. ~raced' => ctrl2' \ Requests = ctrl2 \ Requests
      BY <3>1 DEF Requests, Toggles, Toggled
    <3>3. mutex = "rtnl"
      BY <2>2 DEF Runs
    <3> QED BY <3>1, <3>2, <3>3
  <2> QED BY <2>1, <2>2
<1>4. Up' /\ Kept(life, Settings)' /\ Fw1x' = Fw1x /\ Meanwhile
  <2>1. life' = life /\ cfg' = cfg
    BY <1>2 DEF Stats2Goes
  <2> QED BY <1>1, <1>3, <2>1, AskingKept
<1>5. CASE n = 7
  BY <1>2, <1>4, <1>5 DEF RtnlInv, AtRest, Up, Stats2Goes
<1>6. CASE n # 7
  <2>1. n <= 6 /\ n \in 1 .. 19
    BY <1>6
  <2>2. Runs("rtnl", Stats2, n, 2 .. 6, {3})'
    BY <1>2, <2>1 DEF Stats2Goes
  <2>3. Asking(n)'
    BY <1>4, <2>2 DEF Asking
  <2> QED BY <1>4, <2>1, <2>3 DEF RtnlInv
<1> QED BY <1>5, <1>6

LEMMA GetEee2Step ==
    ASSUME CallTypes, NEW m, Up, Kept(life, Settings), ~Fw1x,
           Runs("rtnl", GetEee2, m, 2 .. 4, {}), Step("rtnl")
    PROVE  RtnlInv' /\ Meanwhile
<1>1. m \in 1 .. 4 /\ Apart("rtnl") /\ \E n \in 1 .. 5 : GetEee2Goes("rtnl", m, n)
  BY GetEee2Does DEF Threads
<1>2. PICK n \in 1 .. 5 : GetEee2Goes("rtnl", m, n)
  BY <1>1
<1>3. /\ ~raced' => ~raced /\ ctrl2' \ Requests = ctrl2 \ Requests
      /\ ctrl2' = ctrl2 \/ mutex = "rtnl"
  BY <1>2 DEF GetEee2Goes
<1>4. Up' /\ Kept(life, Settings)' /\ Fw1x' = Fw1x /\ Meanwhile
  <2>1. life' = life /\ cfg' = cfg
    BY <1>2 DEF GetEee2Goes
  <2> QED BY <1>1, <1>3, <2>1, AskingKept
<1>5. CASE n = 5
  BY <1>2, <1>4, <1>5 DEF RtnlInv, AtRest, Up, GetEee2Goes
<1>6. CASE n # 5
  <2>1. n <= 4 /\ n \in 1 .. 19
    BY <1>6
  <2>2. Runs("rtnl", GetEee2, n, 2 .. 4, {})'
    BY <1>2, <2>1 DEF GetEee2Goes
  <2>3. Asking(n)'
    BY <1>4, <2>2 DEF Asking
  <2> QED BY <1>4, <2>1, <2>3 DEF RtnlInv
<1> QED BY <1>5, <1>6

LEMMA Nway2Step ==
    ASSUME CallTypes, NEW m, Up, Kept(life, Settings), ~Fw1x,
           Runs("rtnl", Nway2, m, 2 .. 4, {3}), Step("rtnl")
    PROVE  RtnlInv' /\ Meanwhile
<1>1. m \in 1 .. 4 /\ Apart("rtnl") /\ \E n \in 1 .. 5 : Nway2Goes("rtnl", m, n)
  BY Nway2Does DEF Threads
<1>2. PICK n \in 1 .. 5 : Nway2Goes("rtnl", m, n)
  BY <1>1
<1>3. /\ ~raced' => ~raced /\ ctrl2' \ Requests = ctrl2 \ Requests
      /\ ctrl2' = ctrl2 \/ mutex = "rtnl"
  <2>1. CASE m # 3
    BY <1>2, <2>1 DEF Nway2Goes
  <2>2. CASE m = 3
    <3>1. ~raced' => ~raced /\ ctrl2' = (ctrl2 \ {}) \cup {"RECONNECT"}
      BY <1>2, <2>2 DEF Nway2Goes
    <3>2. ~raced' => ctrl2' \ Requests = ctrl2 \ Requests
      BY <3>1 DEF Requests, Toggles, Toggled
    <3>3. mutex = "rtnl"
      BY <2>2 DEF Runs
    <3> QED BY <3>1, <3>2, <3>3
  <2> QED BY <2>1, <2>2
<1>4. Up' /\ Kept(life, Settings)' /\ Fw1x' = Fw1x /\ Meanwhile
  <2>1. life' = life /\ cfg' = cfg
    BY <1>2 DEF Nway2Goes
  <2> QED BY <1>1, <1>3, <2>1, AskingKept
<1>5. CASE n = 5
  BY <1>2, <1>4, <1>5 DEF RtnlInv, AtRest, Up, Nway2Goes
<1>6. CASE n # 5
  <2>1. n <= 4 /\ n \in 1 .. 19
    BY <1>6
  <2>2. Runs("rtnl", Nway2, n, 2 .. 4, {3})'
    BY <1>2, <2>1 DEF Nway2Goes
  <2>3. Asking(n)'
    BY <1>4, <2>2 DEF Asking
  <2> QED BY <1>4, <2>1, <2>3 DEF RtnlInv
<1> QED BY <1>5, <1>6

LEMMA AskingStep ==
    ASSUME CallTypes, NEW m, Asking(m), Step("rtnl")
    PROVE  RtnlInv' /\ Meanwhile
  BY Stats1Step, Stats2Step, GetEee2Step, Nway2Step DEF Asking

LEMMA SettingPauseStep ==
    ASSUME CallTypes, NEW m, SettingPause(m), Step("rtnl")
    PROVE  RtnlInv' /\ Meanwhile
<1>1. PICK c : c = cfg
  OBVIOUS
<1>2. Runs("rtnl", Pause2(c), m, 2 .. 4, {3})
  BY <1>1 DEF SettingPause
<1>3. m \in 1 .. 4 /\ Apart("rtnl") /\ \E n \in 1 .. 5 : Pause2Goes("rtnl", m, n, c)
  BY <1>2, Pause2Does DEF Threads
<1>4. PICK n \in 1 .. 5 : Pause2Goes("rtnl", m, n, c)
  BY <1>3
<1>5. /\ n = m + 1 /\ life' = life /\ cfg' = cfg /\ major' = major
      /\ m # 3 => ctrl2' = ctrl2 /\ raced' = raced
  BY <1>3, <1>4 DEF Pause2Goes, Apart
<1>6. Kept(life, IF n <= 3 THEN {"EEE", "LOOPBACK"} ELSE Settings)'
  <2>1. CASE m # 3
    <3>1. (m <= 3) <=> (n <= 3)
      BY <1>3, <1>5, <2>1
    <3> QED BY <1>5, <2>1, <3>1 DEF SettingPause, Kept
  <2>2. CASE m = 3
    <3>1. ~raced' => ~raced /\ ctrl2' = (ctrl2 \ {"PAUSE"}) \cup (cfg \cap {"PAUSE"})
      BY <1>1, <1>4, <2>2 DEF Pause2Goes
    <3>2. Kept(life, {"EEE", "LOOPBACK"})
      BY <2>2 DEF SettingPause
    <3>3. Kept(life, Settings)'
      BY <1>5, <3>1, <3>2 DEF Kept, Holds, Settings, SettingPause, Fw1x
    <3> QED BY <1>5, <2>2, <3>3
  <2> QED BY <2>1, <2>2
<1>7. Meanwhile /\ Up' /\ ~Fw1x'
  <2>1. ctrl2' = ctrl2 \/ mutex = "rtnl"
    BY <1>5, <1>2 DEF Runs
  <2> QED BY <1>3, <1>5, <2>1 DEF Meanwhile, SettingPause, Up, Fw1x
<1>8. CASE n = 5
  <2>1. Kept(life, Settings)'
    BY <1>6, <1>8
  <2> QED BY <1>4, <1>7, <1>8, <2>1 DEF RtnlInv, AtRest, Up, Pause2Goes
<1>9. CASE n # 5
  <2>1. n <= 4 /\ n \in 1 .. 19
    BY <1>9
  <2>2. Runs("rtnl", Pause2(c), n, 2 .. 4, {3})'
    BY <1>4, <2>1 DEF Pause2Goes
  <2>3. Runs("rtnl", Pause2(cfg), n, 2 .. 4, {3})'
    BY <1>1, <1>5, <2>2
  <2>4. SettingPause(n)'
    BY <1>6, <1>7, <2>3 DEF SettingPause
  <2> QED BY <1>7, <2>1, <2>4 DEF RtnlInv
<1> QED BY <1>8, <1>9

LEMMA SettingLoopStep ==
    ASSUME CallTypes, NEW m, SettingLoop(m), Step("rtnl")
    PROVE  RtnlInv' /\ Meanwhile
<1>1. PICK c : c = Toggled(cfg, "LOOPBACK")
  OBVIOUS
<1>2. Runs("rtnl", Loop2(c), m, 2 .. 4, {3})
  BY <1>1 DEF SettingLoop
<1>3. m \in 1 .. 5 /\ Apart("rtnl") /\ \E n \in 1 .. 6 : Loop2Goes("rtnl", m, n, c)
  BY <1>2, Loop2Does DEF Threads
<1>4. PICK n \in 1 .. 6 : Loop2Goes("rtnl", m, n, c)
  BY <1>3
<1>5. /\ n = m + 1 /\ life' = life /\ major' = major /\ Linux'
      /\ m # 5 => cfg' = cfg
      /\ m = 5 => cfg' = c
      /\ m # 3 => ctrl2' = ctrl2 /\ raced' = raced
  BY <1>3, <1>4 DEF Loop2Goes, Apart, Linux, SettingLoop
<1>6. Meanwhile /\ Up' /\ ~Fw1x'
  <2>1. ctrl2' = ctrl2 \/ mutex = "rtnl"
    BY <1>5, <1>2 DEF Runs
  <2> QED BY <1>3, <1>5, <2>1 DEF Meanwhile, SettingLoop, Up, Fw1x
<1>7. /\ m <= 3 => Kept(life, Settings)
      /\ m > 3 => Kept(life, {"EEE", "PAUSE"})
      /\ m >= 4 /\ life = "open" => raced \/ ("LOOPBACK" \in ctrl2) = ("LOOPBACK" \in c)
  BY <1>1, <1>3 DEF SettingLoop
<1>8. m = 3 /\ ~raced' => ~raced /\ ctrl2' = (ctrl2 \ {"LOOPBACK"}) \cup (c \cap {"LOOPBACK"})
  BY <1>4 DEF Loop2Goes
<1>9. CASE n = 6
  <2>1. m = 5 /\ cfg' = c /\ ctrl2' = ctrl2 /\ raced' = raced
    BY <1>3, <1>5, <1>9
  <2>2. \A s : s # "LOOPBACK" => (s \in c <=> s \in cfg)
    BY <1>1 DEF Toggled
  <2>3. Kept(life, Settings)'
    <3> SUFFICES ASSUME ~raced PROVE Holds(life, Settings, ctrl2, c, major)
      BY <1>5, <2>1 DEF Kept
    <3>1. Holds(life, {"EEE", "PAUSE"}, ctrl2, cfg, major)
      BY <1>7, <2>1 DEF Kept
    <3>2. life = "open" => ("LOOPBACK" \in ctrl2 <=> "LOOPBACK" \in c)
      BY <1>7, <2>1
    <3> QED BY <2>2, <3>1, <3>2 DEF Holds, Settings
  <2> QED BY <1>4, <1>6, <1>9, <2>3 DEF RtnlInv, AtRest, Up, Loop2Goes
<1>10. CASE n # 6
  <2>1. n <= 5 /\ n \in 1 .. 19 /\ m # 5
    BY <1>3, <1>5, <1>10
  <2>2. Runs("rtnl", Loop2(c), n, 2 .. 4, {3})'
    BY <1>4, <2>1 DEF Loop2Goes
  <2>3. c = Toggled(cfg, "LOOPBACK")'
    BY <1>1, <1>5, <2>1 DEF Toggled
  <2>4. Kept(life, IF n <= 3 THEN Settings ELSE {"EEE", "PAUSE"})'
    <3>1. CASE m = 3
      BY <1>5, <1>7, <1>8, <3>1 DEF Kept, Holds, Settings
    <3>2. CASE m # 3
      <4>1. (m <= 3) <=> (n <= 3)
        BY <1>3, <1>5, <3>2
      <4> QED BY <1>3, <1>5, <1>7, <2>1, <3>2, <4>1 DEF Kept
    <3> QED BY <3>1, <3>2
  <2>5. n >= 4 /\ life' = "open" => raced' \/ ("LOOPBACK" \in ctrl2') = ("LOOPBACK" \in c)
    <3>1. CASE m = 3
      BY <1>8, <3>1
    <3>2. CASE m >= 4
      BY <1>3, <1>5, <1>7, <3>2
    <3> QED BY <1>3, <1>5, <3>1, <3>2
  <2>6. SettingLoop(n)'
    BY <1>5, <1>6, <2>2, <2>3, <2>4, <2>5 DEF SettingLoop
  <2> QED BY <1>6, <2>1, <2>6 DEF RtnlInv
<1> QED BY <1>9, <1>10

\* What is left after the setting is noted depends no more on what it was.
LEMMA EeeRest ==
    ASSUME NEW on \in BOOLEAN, NEW c, NEW d, NEW m \in 6 .. 9
    PROVE  Rest(SetEee2(on, c), m) = Rest(SetEee2(on, d), m)
<1> DEFINE S == {Lock, Try, UnlockCheck, SetCfg(IF on THEN c \cup {"EEE"} ELSE c \ {"EEE"}),
                 SetCfg(IF on THEN d \cup {"EEE"} ELSE d \ {"EEE"}), Read,
                 Write(IF on THEN {"EEE"} ELSE {}, {"EEE"}), Unlock}
           p == SetEee2(on, c)
           q == SetEee2(on, d)
<1>1. p \in Seq(S) /\ q \in Seq(S)
  BY DEF SetEee2
<1>2. Len(p) = 9 /\ Len(q) = 9 /\ \A k \in 6 .. 9 : p[k] = q[k]
  <2>1. Len(p) = 9 /\ Len(q) = 9 /\ p[6] = q[6] /\ p[7] = q[7] /\ p[8] = q[8] /\ p[9] = q[9]
    BY DEF SetEee2
  <2> HIDE DEF p, q
  <2> QED BY <2>1
<1> HIDE DEF S, p, q
<1>3. m \in 1 .. Len(p) + 1 /\ m \in 1 .. Len(q) + 1
  BY <1>2
<1>4. /\ Rest(p, m) \in Seq(S) /\ Len(Rest(p, m)) = 9 - m + 1
      /\ \A k \in 1 .. 9 - m + 1 : Rest(p, m)[k] = p[k + m - 1]
  <2>1. /\ Rest(p, m) \in Seq(S) /\ Len(Rest(p, m)) = Len(p) - m + 1
        /\ \A k \in 1 .. Len(p) - m + 1 : Rest(p, m)[k] = p[k + m - 1]
    BY <1>1, <1>3, RestIs
  <2> QED BY <1>2, <2>1
<1>5. /\ Rest(q, m) \in Seq(S) /\ Len(Rest(q, m)) = 9 - m + 1
      /\ \A k \in 1 .. 9 - m + 1 : Rest(q, m)[k] = q[k + m - 1]
  <2>1. /\ Rest(q, m) \in Seq(S) /\ Len(Rest(q, m)) = Len(q) - m + 1
        /\ \A k \in 1 .. Len(q) - m + 1 : Rest(q, m)[k] = q[k + m - 1]
    BY <1>1, <1>3, RestIs
  <2> QED BY <1>2, <2>1
<1>6. \A k \in 1 .. 9 - m + 1 : k + m - 1 \in 6 .. 9
  OBVIOUS
<1>7. \A k \in 1 .. Len(Rest(p, m)) : Rest(p, m)[k] = Rest(q, m)[k]
  BY <1>2, <1>4, <1>5, <1>6
<1>8. Rest(p, m) = Rest(q, m)
  BY <1>4, <1>5, <1>7, SameSeq
<1> QED BY <1>8 DEF p, q

LEMMA SettingEeeStep ==
    ASSUME CallTypes, NEW m, SettingEee(m), Step("rtnl")
    PROVE  RtnlInv' /\ Meanwhile
<1>1. PICK c : c = cfg
  OBVIOUS
<1>2. PICK on \in BOOLEAN : /\ Runs("rtnl", SetEee2(on, c), m, (2 .. 4) \cup (7 .. 9), {8})
                            /\ m >= 6 => on = ("EEE" \in cfg)
  BY <1>1 DEF SettingEee
<1>3. m \in 1 .. 9 /\ Apart("rtnl") /\ \E n \in 1 .. 10 : SetEee2Goes("rtnl", m, n, on, c)
  BY <1>2, SetEee2Does DEF Threads
<1>4. PICK n \in 1 .. 10 : SetEee2Goes("rtnl", m, n, on, c)
  BY <1>3
<1>5. n = m + 1 \/ (m \in {2, 3} /\ n = 4) \/ (m = 4 /\ n = 10)
  BY <1>4 DEF SetEee2Goes
<1>6. /\ life' = life /\ major' = major /\ Linux' /\ Linux
      /\ m # 5 => cfg' = cfg
      /\ m = 5 => cfg' = (IF on THEN c \cup {"EEE"} ELSE c \ {"EEE"})
      /\ m # 8 => ctrl2' = ctrl2 /\ raced' = raced
  BY <1>3, <1>4 DEF SetEee2Goes, Apart, Linux, SettingEee
<1>7. Meanwhile /\ Up' /\ ~Fw1x'
  <2>1. ctrl2' = ctrl2 \/ mutex = "rtnl"
    BY <1>6, <1>2 DEF Runs
  <2> QED BY <1>3, <1>6, <2>1 DEF Meanwhile, SettingEee, Up, Fw1x
<1>8. m \in 6 .. 8 => Kept(life, {"PAUSE", "LOOPBACK"})
  BY DEF SettingEee
<1>9. m \notin 6 .. 8 => Kept(life, Settings)
  BY DEF SettingEee
<1>10. n >= 6 /\ n # 10 => on = ("EEE" \in cfg')
  <2>1. CASE m = 5
    <3>1. CASE on
      BY <1>6, <2>1, <3>1
    <3>2. CASE ~on
      BY <1>6, <2>1, <3>2
    <3> QED BY <3>1, <3>2
  <2>2. CASE m # 5
    <3>1. n >= 6 /\ n # 10 => m >= 6
      BY <1>3, <1>5, <2>2
    <3> QED BY <1>6, <1>2, <2>2, <3>1
  <2> QED BY <2>1, <2>2
<1>11. m = 8 => Kept(life, Settings)'
  <2> SUFFICES ASSUME m = 8 PROVE Kept(life, Settings)'
    OBVIOUS
  <2>1. ~raced' => ~raced /\ ctrl2' = (ctrl2 \ {"EEE"}) \cup (IF on THEN {"EEE"} ELSE {})
    BY <1>4 DEF SetEee2Goes
  <2>2. on = ("EEE" \in cfg)
    BY <1>2
  <2>3. ~raced' => ctrl2' = (ctrl2 \ {"EEE"}) \cup (cfg \cap {"EEE"})
    BY <2>1, <2>2
  <2>4. Kept(life, {"PAUSE", "LOOPBACK"})
    BY <1>8
  <2> QED BY <1>6, <2>1, <2>3, <2>4 DEF Kept, Holds, Settings, SettingEee, Fw1x
<1>12. m = 5 => Kept(life, {"PAUSE", "LOOPBACK"})'
  <2> SUFFICES ASSUME m = 5 PROVE Kept(life, {"PAUSE", "LOOPBACK"})'
    OBVIOUS
  <2>1. Kept(life, Settings)
    BY <1>9
  <2>2. \A s : s # "EEE" => (s \in cfg' <=> s \in cfg)
    BY <1>1, <1>6
  <2> QED BY <1>6, <2>1, <2>2 DEF Kept, Holds, Settings
<1>13. CASE n = 10
  <2>1. m = 9 \/ m = 4
    BY <1>3, <1>5, <1>13
  <2>2. Kept(life, Settings)'
    BY <1>6, <1>9, <2>1 DEF Kept
  <2> QED BY <1>4, <1>7, <1>13, <2>2 DEF RtnlInv, AtRest, Up, SetEee2Goes
<1>14. CASE n # 10
  <2>1. n <= 9 /\ n \in 1 .. 9 /\ n \in 1 .. 19
    BY <1>14
  <2>2. Runs("rtnl", SetEee2(on, c), n, (2 .. 4) \cup (7 .. 9), {8})'
    BY <1>4, <2>1 DEF SetEee2Goes
  <2>3. PICK d : d = cfg'
    OBVIOUS
  <2>4. Rest(SetEee2(on, c), n) = Rest(SetEee2(on, d), n)
    <3>1. CASE n \in 6 .. 9
      BY <3>1, EeeRest
    <3>2. CASE n \notin 6 .. 9
      <4>1. m # 5
        BY <1>5, <3>2
      <4> QED BY <1>1, <1>6, <2>3, <4>1
    <3> QED BY <3>1, <3>2
  <2>5. Len(SetEee2(on, d)) = 9
    BY SetEee2Is
  <2>6. Runs("rtnl", SetEee2(on, d), n, (2 .. 4) \cup (7 .. 9), {8})'
    BY <2>1, <2>2, <2>4, <2>5 DEF Runs
  <2>7. Runs("rtnl", SetEee2(on, cfg), n, (2 .. 4) \cup (7 .. 9), {8})'
    BY <2>3, <2>6
  <2>8. Kept(life, IF n \in 6 .. 8 THEN {"PAUSE", "LOOPBACK"} ELSE Settings)'
    <3>1. CASE n \in 6 .. 8
      <4>1. m = 5 \/ m \in 6 .. 7
        BY <1>3, <1>5, <3>1
      <4>2. Kept(life, {"PAUSE", "LOOPBACK"})'
        BY <1>6, <1>8, <1>12, <4>1 DEF Kept
      <4> QED BY <3>1, <4>2
    <3>2. CASE n \notin 6 .. 8
      <4>1. m = 8 \/ m \in 1 .. 4
        BY <1>3, <1>5, <2>1, <3>2
      <4>2. Kept(life, Settings)'
        BY <1>6, <1>9, <1>11, <4>1 DEF Kept
      <4> QED BY <3>2, <4>2
    <3> QED BY <3>1, <3>2
  <2>9. n >= 6 => on = ("EEE" \in cfg')
    BY <1>10, <1>14
  <2>10. SettingEee(n)'
    BY <1>6, <1>7, <2>7, <2>8, <2>9 DEF SettingEee
  <2> QED BY <1>7, <2>1, <2>10 DEF RtnlInv
<1> QED BY <1>13, <1>14

\* A step of rtnl.
LEMMA RtnlStep ==
    ASSUME CallTypes, RtnlInv, Step("rtnl")
    PROVE  RtnlInv' /\ Meanwhile
<1>1. ~AtRest
  BY StepGoes DEF AtRest, CallTypes, Goes, Threads
<1> QED BY <1>1, InitingStep, Opening1Step, Opening2Step, ClosingStep, AskingStep,
           SettingEeeStep, SettingPauseStep, SettingLoopStep DEF RtnlInv

\* What rtnl sees of a step that is not its own.
-----------------------------------------------------------------------------
(* The steps of the other threads keep it. *)

Elsewhere ==
    /\ UNCHANGED <<major, scen, cfg, life>>
    /\ todo'["rtnl"] = todo["rtnl"] /\ err'["rtnl"] = err["rtnl"] /\ reg'["rtnl"] = reg["rtnl"]
    /\ mutex' = "rtnl" <=> mutex = "rtnl"
    /\ ~raced' => ~raced /\ ctrl2' \ Requests = ctrl2 \ Requests
    /\ ~Linux /\ ctrl2' # ctrl2 => mutex # "rtnl" /\ life \in {"open", "closing"}

LEMMA RunsElsewhere ==
    ASSUME Elsewhere, NEW p, NEW m, NEW locked, NEW mid, Runs("rtnl", p, m, locked, mid),
           m \in mid => m \in locked \/ life \notin {"open", "closing"}
    PROVE  Runs("rtnl", p, m, locked, mid)'
<1>1. Linux' = Linux
  BY DEF Elsewhere, Linux
<1> QED BY <1>1 DEF Elsewhere, Runs

LEMMA KeptElsewhere ==
    ASSUME Elsewhere
    PROVE  /\ \A l, S : S \subseteq Settings /\ Kept(l, S) => Kept(l, S)'
           /\ \A S : S \subseteq Settings /\ Kept(life, S) => Kept(life, S)'
<1>1. ASSUME NEW l, NEW S, S \subseteq Settings, Kept(l, S)
      PROVE  Kept(l, S)'
  <2> SUFFICES ASSUME ~raced' PROVE Holds(l, S, ctrl2', cfg', major')
    BY DEF Kept
  <2>1. Holds(l, S, ctrl2, cfg, major) /\ ctrl2' \ Requests = ctrl2 \ Requests
        /\ cfg' = cfg /\ major' = major
    BY <1>1 DEF Kept, Elsewhere
  <2>2. Holds(l, S, ctrl2', cfg, major)
    BY <1>1, <2>1, HoldsApart
  <2> QED BY <2>1, <2>2
<1>2. ASSUME NEW S, S \subseteq Settings, Kept(life, S)
      PROVE  Kept(life, S)'
  <2>1. PICK l : l = life
    OBVIOUS
  <2>2. life' = l
    BY <2>1 DEF Elsewhere
  <2>3. Kept(l, S)'
    BY <1>1, <1>2, <2>1
  <2> QED BY <2>2, <2>3
<1> QED BY <1>1, <1>2

LEMMA RtnlElsewhere ==
    ASSUME RtnlInv, Elsewhere
    PROVE  RtnlInv'
<1>1. /\ Fw1x' = Fw1x /\ Down' = Down /\ Up' = Up /\ Linux' = Linux /\ cfg' = cfg
      /\ life' = life /\ \A m : Leaving(m)' = Leaving(m)
  BY DEF Elsewhere, Fw1x, Down, Up, Linux, Leaving
<1>2. /\ Settings \subseteq Settings /\ {"EEE", "PAUSE"} \subseteq Settings
      /\ {"EEE", "LOOPBACK"} \subseteq Settings /\ {"PAUSE", "LOOPBACK"} \subseteq Settings
  BY DEF Settings
<1>3. CASE AtRest
  <2>1. Kept(life, Settings)'
    BY <1>2, <1>3, KeptElsewhere DEF AtRest
  <2>2. AtRest'
    BY <1>3, <2>1 DEF AtRest, Elsewhere
  <2> QED BY <2>2 DEF RtnlInv
<1>4. CASE Initing
  <2>1. \A m : Runs("rtnl", Init1, m, {}, {}) => Runs("rtnl", Init1, m, {}, {})'
    BY RunsElsewhere
  <2>2. \A m : Runs("rtnl", Init2, m, {}, {}) => Runs("rtnl", Init2, m, {}, {})'
    BY RunsElsewhere
  <2>3. Initing'
    BY <1>1, <1>4, <2>1, <2>2 DEF Initing
  <2> QED BY <2>3 DEF RtnlInv
<1>5. ASSUME NEW m \in 1 .. 19, Opening1(m) PROVE RtnlInv'
  <2>1. Runs("rtnl", Open1, m, 2 .. 7, {4, 5, 9, 11})'
    <3>1. Runs("rtnl", Open1, m, 2 .. 7, {4, 5, 9, 11}) /\ life \notin {"open", "closing"}
      BY <1>5 DEF Opening1, Down
    <3> QED BY <3>1, RunsElsewhere
  <2>2. (m <= 2 \/ (m = 7 /\ err["rtnl"]))' => Kept(life, Settings)'
    <3>1. (m <= 2 \/ (m = 7 /\ err["rtnl"])) => Kept(life, Settings)
      BY <1>5 DEF Opening1
    <3>2. err'["rtnl"] = err["rtnl"]
      BY DEF Elsewhere
    <3> QED BY <1>2, <3>1, <3>2, KeptElsewhere
  <2>3. m \in {10, 11} => raced' \/ "SPEED" \in ctrl2'
    BY <1>5 DEF Opening1, Elsewhere, Requests, Toggles
  <2>4. m >= 12 => Kept("open", Settings)'
    BY <1>2, <1>5, KeptElsewhere DEF Opening1
  <2>5. Opening1(m)'
    BY <1>1, <1>5, <2>1, <2>2, <2>3, <2>4 DEF Opening1
  <2> QED BY <2>5 DEF RtnlInv
<1>6. ASSUME NEW m \in 1 .. 19, Opening2(m) PROVE RtnlInv'
  <2>0. PICK c : c = cfg
    OBVIOUS
  <2>1. Runs("rtnl", Open2(cfg), m, (2 .. 6) \cup (16 .. 18), {4, 8, 11, 17})'
    <3>1. Runs("rtnl", Open2(c), m, (2 .. 6) \cup (16 .. 18), {4, 8, 11, 17})
          /\ life \notin {"open", "closing"}
      BY <1>6, <2>0 DEF Opening2, Down
    <3>2. Runs("rtnl", Open2(c), m, (2 .. 6) \cup (16 .. 18), {4, 8, 11, 17})'
      BY <3>1, RunsElsewhere
    <3> QED BY <1>1, <2>0, <3>2
  <2>2. (m <= 2 \/ (m = 6 /\ err["rtnl"]))' => Kept(life, Settings)'
    <3>1. (m <= 2 \/ (m = 6 /\ err["rtnl"])) => Kept(life, Settings)
      BY <1>6 DEF Opening2
    <3>2. err'["rtnl"] = err["rtnl"]
      BY DEF Elsewhere
    <3> QED BY <1>2, <3>1, <3>2, KeptElsewhere
  <2>3. m >= 9 => Kept("open", {"EEE", "PAUSE"})'
    BY <1>2, <1>6, KeptElsewhere DEF Opening2
  <2>4. m >= 18 => Kept("open", Settings)'
    BY <1>2, <1>6, KeptElsewhere DEF Opening2
  <2>5. Opening2(m)'
    BY <1>1, <1>6, <2>1, <2>2, <2>3, <2>4 DEF Opening2
  <2> QED BY <2>5 DEF RtnlInv
<1>7. ASSUME NEW m \in 1 .. 19, Closing1(m) PROVE RtnlInv'
  <2>0. m >= 3 => life \notin {"open", "closing"}
    BY <1>7 DEF Closing1, Leaving
  <2>1. CASE Runs("rtnl", Drop1, m, 4 .. 8, {5, 7}) /\ (m >= 8 => Kept("dropped", Settings))
    <3>1. Runs("rtnl", Drop1, m, 4 .. 8, {5, 7})'
      BY <2>0, <2>1, RunsElsewhere
    <3>2. m >= 8 => Kept("dropped", Settings)'
      BY <1>2, <2>1, KeptElsewhere
    <3>3. Closing1(m)'
      BY <1>1, <1>7, <3>1, <3>2 DEF Closing1
    <3> QED BY <3>3 DEF RtnlInv
  <2>2. CASE Runs("rtnl", Arm1, m, 4 .. 8, {5, 7, 14, 16}) /\ (m >= 17 => Kept("armed", Settings))
    <3>1. Runs("rtnl", Arm1, m, 4 .. 8, {5, 7, 14, 16})'
      BY <2>0, <2>2, RunsElsewhere
    <3>2. m >= 17 => Kept("armed", Settings)'
      BY <1>2, <2>2, KeptElsewhere
    <3>3. Closing1(m)'
      BY <1>1, <1>7, <3>1, <3>2 DEF Closing1
    <3> QED BY <3>3 DEF RtnlInv
  <2> QED BY <1>7, <2>1, <2>2 DEF Closing1
<1>8. ASSUME NEW m \in 1 .. 19, Closing2(m) PROVE RtnlInv'
  <2>0. m >= 3 => life \notin {"open", "closing"}
    BY <1>8 DEF Closing2, Leaving
  <2>1. CASE Runs("rtnl", Drop2, m, 4 .. 6, {5}) /\ (m >= 6 => Kept("dropped", Settings))
    <3>1. Runs("rtnl", Drop2, m, 4 .. 6, {5})'
      BY <2>0, <2>1, RunsElsewhere
    <3>2. m >= 6 => Kept("dropped", Settings)'
      BY <1>2, <2>1, KeptElsewhere
    <3>3. Closing2(m)'
      BY <1>1, <1>8, <3>1, <3>2 DEF Closing2
    <3> QED BY <3>3 DEF RtnlInv
  <2>2. CASE /\ Runs("rtnl", Arm2, m, 4 .. 6, {5, 9, 10, 11, 15, 16, 17})
             /\ m >= 10 => raced \/ "LINK_DROP" \notin ctrl2
             /\ m >= 18 => Kept("armed", Settings)
    <3>1. Runs("rtnl", Arm2, m, 4 .. 6, {5, 9, 10, 11, 15, 16, 17})'
      BY <2>0, <2>2, RunsElsewhere
    <3>2. m >= 18 => Kept("armed", Settings)'
      BY <1>2, <2>2, KeptElsewhere
    <3>3. m >= 10 => raced' \/ "LINK_DROP" \notin ctrl2'
      BY <2>2 DEF Elsewhere, Requests, Toggles
    <3>4. Closing2(m)'
      BY <1>1, <1>8, <3>1, <3>2, <3>3 DEF Closing2
    <3> QED BY <3>4 DEF RtnlInv
  <2> QED BY <1>8, <2>1, <2>2 DEF Closing2
<1>9. ASSUME NEW m \in 1 .. 19, Asking(m) PROVE RtnlInv'
  <2>1. Kept(life, Settings)'
    BY <1>2, <1>9, KeptElsewhere DEF Asking
  <2>2. /\ Runs("rtnl", Stats1, m, {2, 3}, {}) => Runs("rtnl", Stats1, m, {2, 3}, {})'
        /\ Runs("rtnl", GetEee2, m, 2 .. 4, {}) => Runs("rtnl", GetEee2, m, 2 .. 4, {})'
    BY RunsElsewhere
  <2>3. Runs("rtnl", Stats2, m, 2 .. 6, {3}) => Runs("rtnl", Stats2, m, 2 .. 6, {3})'
    BY RunsElsewhere
  <2>4. Runs("rtnl", Nway2, m, 2 .. 4, {3}) => Runs("rtnl", Nway2, m, 2 .. 4, {3})'
    BY RunsElsewhere
  <2>5. Asking(m)'
    BY <1>1, <1>9, <2>1, <2>2, <2>3, <2>4 DEF Asking
  <2> QED BY <2>5 DEF RtnlInv
<1>10. ASSUME NEW m \in 1 .. 19, SettingEee(m) PROVE RtnlInv'
  <2>0. PICK c : c = cfg
    OBVIOUS
  <2>1. PICK on \in BOOLEAN : /\ Runs("rtnl", SetEee2(on, c), m, (2 .. 4) \cup (7 .. 9), {8})
                              /\ m >= 6 => on = ("EEE" \in cfg)
    BY <1>10, <2>0 DEF SettingEee
  <2>2. Runs("rtnl", SetEee2(on, c), m, (2 .. 4) \cup (7 .. 9), {8})'
    BY <2>1, RunsElsewhere
  <2>3. Runs("rtnl", SetEee2(on, cfg), m, (2 .. 4) \cup (7 .. 9), {8})'
    BY <1>1, <2>0, <2>2
  <2>4. Kept(life, IF m \in 6 .. 8 THEN {"PAUSE", "LOOPBACK"} ELSE Settings)'
    <3>1. CASE m \in 6 .. 8
      BY <1>2, <1>10, <3>1, KeptElsewhere DEF SettingEee
    <3>2. CASE m \notin 6 .. 8
      BY <1>2, <1>10, <3>2, KeptElsewhere DEF SettingEee
    <3> QED BY <3>1, <3>2
  <2>5. SettingEee(m)'
    BY <1>1, <1>10, <2>1, <2>3, <2>4 DEF SettingEee
  <2> QED BY <2>5 DEF RtnlInv
<1>11. ASSUME NEW m \in 1 .. 19, SettingPause(m) PROVE RtnlInv'
  <2>0. PICK c : c = cfg
    OBVIOUS
  <2>1. Runs("rtnl", Pause2(c), m, 2 .. 4, {3})
    BY <1>11, <2>0 DEF SettingPause
  <2>2. Runs("rtnl", Pause2(c), m, 2 .. 4, {3})'
    BY <2>1, RunsElsewhere
  <2>3. Runs("rtnl", Pause2(cfg), m, 2 .. 4, {3})'
    BY <1>1, <2>0, <2>2
  <2>4. Kept(life, IF m <= 3 THEN {"EEE", "LOOPBACK"} ELSE Settings)'
    <3>1. CASE m <= 3
      BY <1>2, <1>11, <3>1, KeptElsewhere DEF SettingPause
    <3>2. CASE ~(m <= 3)
      BY <1>2, <1>11, <3>2, KeptElsewhere DEF SettingPause
    <3> QED BY <3>1, <3>2
  <2>5. SettingPause(m)'
    BY <1>1, <1>11, <2>3, <2>4 DEF SettingPause
  <2> QED BY <2>5 DEF RtnlInv
<1>12. ASSUME NEW m \in 1 .. 19, SettingLoop(m) PROVE RtnlInv'
  <2>0. PICK c : c = Toggled(cfg, "LOOPBACK")
    OBVIOUS
  <2>1. Runs("rtnl", Loop2(c), m, 2 .. 4, {3})
    BY <1>12, <2>0 DEF SettingLoop
  <2>2. Runs("rtnl", Loop2(c), m, 2 .. 4, {3})'
    BY <2>1, RunsElsewhere
  <2>3. c = Toggled(cfg, "LOOPBACK")'
    BY <1>1, <2>0 DEF Toggled
  <2>4. Kept(life, IF m <= 3 THEN Settings ELSE {"EEE", "PAUSE"})'
    <3>1. CASE m <= 3
      BY <1>2, <1>12, <3>1, KeptElsewhere DEF SettingLoop
    <3>2. CASE ~(m <= 3)
      BY <1>2, <1>12, <3>2, KeptElsewhere DEF SettingLoop
    <3> QED BY <3>1, <3>2
  <2>5. m >= 4 /\ life' = "open" => raced' \/ ("LOOPBACK" \in ctrl2') = ("LOOPBACK" \in c)
    <3>1. m >= 4 /\ life = "open" => raced \/ ("LOOPBACK" \in ctrl2) = ("LOOPBACK" \in c)
      BY <1>12, <2>0 DEF SettingLoop
    <3>2. ~raced' => ~raced /\ ("LOOPBACK" \in ctrl2' <=> "LOOPBACK" \in ctrl2)
      BY DEF Elsewhere, Requests, Toggles
    <3> QED BY <1>1, <3>1, <3>2
  <2>6. SettingLoop(m)'
    BY <1>1, <1>12, <2>2, <2>3, <2>4, <2>5 DEF SettingLoop
  <2> QED BY <2>6 DEF RtnlInv
<1> QED BY <1>3, <1>4, <1>5, <1>6, <1>7, <1>8, <1>9, <1>10, <1>11, <1>12 DEF RtnlInv

\* The steps of the service task and of user space keep their own parts.
LEMMA ServiceStats1Step ==
    ASSUME CallTypes, NEW m, life \in {"open", "closing"}, Fw1x,
           Runs("service", Stats1, m, {2, 3}, {}), Step("service")
    PROVE  ServiceInv' /\ Elsewhere /\ Apart("service") /\ (raced' /\ ~Linux => raced)
<1>1. m \in 1 .. 3 /\ Apart("service") /\ \E n \in 1 .. 4 : Stats1Goes("service", m, n)
  BY Stats1Does DEF Threads
<1>2. PICK n \in 1 .. 4 : Stats1Goes("service", m, n)
  BY <1>1
<1>3. /\ ~raced' => ~raced /\ ctrl2' \ Requests = ctrl2 \ Requests
      /\ ctrl2' = ctrl2 \/ mutex = "service"
  BY <1>2 DEF Stats1Goes
<1>4. life' = life /\ cfg' = cfg /\ major' = major /\ scen' = scen
  BY <1>1, <1>2 DEF Stats1Goes, Apart
<1>5. Elsewhere
  BY <1>1, <1>3, <1>4 DEF Elsewhere, Apart, Threads
<1>8. raced' /\ ~Linux => raced
  BY <1>2 DEF Stats1Goes
<1>6. CASE n = 4
  BY <1>1, <1>2, <1>5, <1>6, <1>8 DEF ServiceInv, Stats1Goes
<1>7. CASE n # 4
  <2>1. n <= 3 /\ n \in 1 .. 6
    BY <1>7
  <2>2. Runs("service", Stats1, n, {2, 3}, {})'
    BY <1>2, <2>1 DEF Stats1Goes
  <2>3. ServiceInv'
    BY <1>4, <2>1, <2>2 DEF ServiceInv, Fw1x, Linux
  <2> QED BY <1>1, <1>5, <1>8, <2>3
<1> QED BY <1>6, <1>7

LEMMA ServiceStats2Step ==
    ASSUME CallTypes, NEW m, life \in {"open", "closing"}, ~Fw1x,
           Runs("service", Stats2, m, 2 .. 6, {3}), Step("service")
    PROVE  ServiceInv' /\ Elsewhere /\ Apart("service") /\ (raced' /\ ~Linux => raced)
<1>1. m \in 1 .. 6 /\ Apart("service") /\ \E n \in 1 .. 7 : Stats2Goes("service", m, n)
  BY Stats2Does DEF Threads
<1>2. PICK n \in 1 .. 7 : Stats2Goes("service", m, n)
  BY <1>1
<1>3. /\ ~raced' => ~raced /\ ctrl2' \ Requests = ctrl2 \ Requests
      /\ ctrl2' = ctrl2 \/ mutex = "service"
  <2>1. CASE m # 3
    BY <1>2, <2>1 DEF Stats2Goes
  <2>2. CASE m = 3
    <3>1. ~raced' => ~raced /\ ctrl2' = Toggled(ctrl2, "STATS")
      BY <1>2, <2>2 DEF Stats2Goes
    <3>2. ~raced' => ctrl2' \ Requests = ctrl2 \ Requests
      BY <3>1 DEF Requests, Toggles, Toggled
    <3>3. mutex = "service"
      BY <2>2 DEF Runs
    <3> QED BY <3>1, <3>2, <3>3
  <2> QED BY <2>1, <2>2
<1>4. life' = life /\ cfg' = cfg /\ major' = major /\ scen' = scen
  BY <1>1, <1>2 DEF Stats2Goes, Apart
<1>5. Elsewhere
  BY <1>1, <1>3, <1>4 DEF Elsewhere, Apart, Threads
<1>8. raced' /\ ~Linux => raced
  BY <1>2 DEF Stats2Goes
<1>6. CASE n = 7
  BY <1>1, <1>2, <1>5, <1>6, <1>8 DEF ServiceInv, Stats2Goes
<1>7. CASE n # 7
  <2>1. n <= 6 /\ n \in 1 .. 6
    BY <1>7
  <2>2. Runs("service", Stats2, n, 2 .. 6, {3})'
    BY <1>2, <2>1 DEF Stats2Goes
  <2>3. ServiceInv'
    BY <1>4, <2>1, <2>2 DEF ServiceInv, Fw1x, Linux
  <2> QED BY <1>1, <1>5, <1>8, <2>3
<1> QED BY <1>6, <1>7

LEMMA Temp2Step ==
    ASSUME CallTypes, NEW m, life # "absent", Linux, ~Fw1x,
           Runs("user", Temp2, m, 2 .. 6, {3}), Step("user")
    PROVE  UserInv' /\ Elsewhere /\ Apart("user")
<1>1. m \in 1 .. 6 /\ Apart("user") /\ \E n \in 1 .. 7 : Temp2Goes("user", m, n)
  BY Temp2Does DEF Threads
<1>2. PICK n \in 1 .. 7 : Temp2Goes("user", m, n)
  BY <1>1
<1>3. /\ ~raced' => ~raced /\ ctrl2' \ Requests = ctrl2 \ Requests
      /\ ctrl2' = ctrl2 \/ mutex = "user"
  <2>1. CASE m # 3
    BY <1>2, <2>1 DEF Temp2Goes
  <2>2. CASE m = 3
    <3>1. ~raced' => ~raced /\ ctrl2' = Toggled(ctrl2, "TEMP")
      BY <1>2, <2>2 DEF Temp2Goes
    <3>2. ~raced' => ctrl2' \ Requests = ctrl2 \ Requests
      BY <3>1 DEF Requests, Toggles, Toggled
    <3>3. mutex = "user"
      BY <2>2 DEF Runs
    <3> QED BY <3>1, <3>2, <3>3
  <2> QED BY <2>1, <2>2
<1>4. life' = life /\ cfg' = cfg /\ major' = major /\ scen' = scen
  BY <1>1, <1>2 DEF Temp2Goes, Apart
<1>5. Elsewhere
  BY <1>1, <1>3, <1>4 DEF Elsewhere, Apart, Threads
<1>6. CASE n = 7
  BY <1>1, <1>2, <1>5, <1>6 DEF UserInv, Temp2Goes
<1>7. CASE n # 7
  <2>1. n <= 6 /\ n \in 1 .. 6
    BY <1>7
  <2>2. Runs("user", Temp2, n, 2 .. 6, {3})'
    BY <1>2, <2>1 DEF Temp2Goes
  <2>3. UserInv'
    BY <1>4, <2>1, <2>2 DEF UserInv, Fw1x, Linux
  <2> QED BY <1>1, <1>5, <2>3
<1> QED BY <1>6, <1>7

LEMMA Cable2Step ==
    ASSUME CallTypes, NEW m, life # "absent", Linux, ~Fw1x,
           Runs("user", Cable2, m, 2 .. 3, {}), Step("user")
    PROVE  UserInv' /\ Elsewhere /\ Apart("user")
<1>1. m \in 1 .. 3 /\ Apart("user") /\ \E n \in 1 .. 4 : Cable2Goes("user", m, n)
  BY Cable2Does DEF Threads
<1>2. PICK n \in 1 .. 4 : Cable2Goes("user", m, n)
  BY <1>1
<1>3. /\ ~raced' => ~raced /\ ctrl2' \ Requests = ctrl2 \ Requests
      /\ ctrl2' = ctrl2 \/ mutex = "user"
  BY <1>2 DEF Cable2Goes
<1>4. life' = life /\ cfg' = cfg /\ major' = major /\ scen' = scen
  BY <1>1, <1>2 DEF Cable2Goes, Apart
<1>5. Elsewhere
  BY <1>1, <1>3, <1>4 DEF Elsewhere, Apart, Threads
<1>6. CASE n = 4
  BY <1>1, <1>2, <1>5, <1>6 DEF UserInv, Cable2Goes
<1>7. CASE n # 4
  <2>1. n <= 3 /\ n \in 1 .. 6
    BY <1>7
  <2>2. Runs("user", Cable2, n, 2 .. 3, {})'
    BY <1>2, <2>1 DEF Cable2Goes
  <2>3. UserInv'
    BY <1>4, <2>1, <2>2 DEF UserInv, Fw1x, Linux
  <2> QED BY <1>1, <1>5, <2>3
<1> QED BY <1>6, <1>7

LEMMA Request2Step ==
    ASSUME CallTypes, NEW m, life # "absent", Linux, ~Fw1x,
           Runs("user", Request2, m, 2 .. 6, {4}), Step("user")
    PROVE  UserInv' /\ Elsewhere /\ Apart("user")
<1>1. m \in 1 .. 6 /\ Apart("user") /\ \E n \in 1 .. 7 : Request2Goes("user", m, n)
  BY Request2Does DEF Threads
<1>2. PICK n \in 1 .. 7 : Request2Goes("user", m, n)
  BY <1>1
<1>3. /\ ~raced' => ~raced /\ ctrl2' \ Requests = ctrl2 \ Requests
      /\ ctrl2' = ctrl2 \/ mutex = "user"
  <2>1. CASE m # 4
    BY <1>2, <2>1 DEF Request2Goes
  <2>2. CASE m = 4
    <3>1. ~raced' => ~raced /\ ctrl2' = Toggled(ctrl2, "REQUEST")
      BY <1>2, <2>2 DEF Request2Goes
    <3>2. ~raced' => ctrl2' \ Requests = ctrl2 \ Requests
      BY <3>1 DEF Requests, Toggles, Toggled
    <3>3. mutex = "user"
      BY <2>2 DEF Runs
    <3> QED BY <3>1, <3>2, <3>3
  <2> QED BY <2>1, <2>2
<1>4. life' = life /\ cfg' = cfg /\ major' = major /\ scen' = scen
  BY <1>1, <1>2 DEF Request2Goes, Apart
<1>5. Elsewhere
  BY <1>1, <1>3, <1>4 DEF Elsewhere, Apart, Threads
<1>6. CASE n = 7
  BY <1>1, <1>2, <1>5, <1>6 DEF UserInv, Request2Goes
<1>7. CASE n # 7
  <2>1. n <= 6 /\ n \in 1 .. 6
    BY <1>7
  <2>2. Runs("user", Request2, n, 2 .. 6, {4})'
    BY <1>2, <2>1 DEF Request2Goes
  <2>3. UserInv'
    BY <1>4, <2>1, <2>2 DEF UserInv, Fw1x, Linux
  <2> QED BY <1>1, <1>5, <2>3
<1> QED BY <1>6, <1>7

\* A thread that runs a program has something to do.
LEMMA RunsBusy ==
    ASSUME NEW t, NEW p, IsProgram(p), NEW m, NEW locked, NEW mid, Runs(t, p, m, locked, mid)
    PROVE  todo[t] # <<>>
  BY RestSteps DEF Runs

LEMMA ServiceStep ==
    ASSUME CallTypes, ServiceInv, Step("service")
    PROVE  ServiceInv' /\ Elsewhere /\ Apart("service") /\ (raced' /\ ~Linux => raced)
<1>1. todo["service"] # <<>>
  BY StepGoes DEF CallTypes, Goes, Threads
<1> QED BY <1>1, ServiceStats1Step, ServiceStats2Step DEF ServiceInv

LEMMA UserStep ==
    ASSUME CallTypes, UserInv, Step("user")
    PROVE  UserInv' /\ Elsewhere /\ Apart("user")
<1>1. todo["user"] # <<>>
  BY StepGoes DEF CallTypes, Goes, Threads
<1> QED BY <1>1, Temp2Step, Cable2Step, Request2Step DEF UserInv

\* What the service task, and user space, see of a step that is not theirs.
LEMMA ServiceElsewhere ==
    ASSUME ServiceInv, major' = major, scen' = scen,
           todo'["service"] = todo["service"], reg'["service"] = reg["service"],
           mutex' = "service" <=> mutex = "service",
           life \in {"open", "closing"} /\ todo["service"] # <<>> =>
             life' \in {"open", "closing"} /\ (mutex = "service" => ctrl2' = ctrl2 \/ Linux)
    PROVE  ServiceInv'
<1>1. Fw1x' = Fw1x /\ Linux' = Linux
  BY DEF Fw1x, Linux
<1>2. CASE todo["service"] = <<>>
  <2>1. \A m : /\ Runs("service", Stats1, m, {2, 3}, {}) => FALSE
               /\ Runs("service", Stats2, m, 2 .. 6, {3}) => FALSE
    BY <1>2, RunsBusy, Stats1Is, Stats2Is
  <2> QED BY <1>2, <2>1 DEF ServiceInv
<1>3. CASE todo["service"] # <<>>
  <2>1. life' \in {"open", "closing"} /\ (mutex = "service" => ctrl2' = ctrl2 \/ Linux)
    BY <1>3 DEF ServiceInv
  <2>2. ASSUME NEW m, Runs("service", Stats1, m, {2, 3}, {})
        PROVE  Runs("service", Stats1, m, {2, 3}, {})'
    BY <2>2 DEF Runs
  <2>3. ASSUME NEW m, Runs("service", Stats2, m, 2 .. 6, {3})
        PROVE  Runs("service", Stats2, m, 2 .. 6, {3})'
    <3>1. m \in {3} => m \in 2 .. 6
      OBVIOUS
    <3> QED BY <1>1, <2>1, <2>3, <3>1 DEF Runs
  <2> QED BY <1>1, <1>3, <2>1, <2>2, <2>3 DEF ServiceInv
<1> QED BY <1>2, <1>3

LEMMA UserElsewhere ==
    ASSUME UserInv, major' = major, scen' = scen, todo'["user"] = todo["user"],
           mutex' = "user" <=> mutex = "user", life # "absent" => life' # "absent"
    PROVE  UserInv'
<1>1. Fw1x' = Fw1x /\ Linux' = Linux
  BY DEF Fw1x, Linux
<1>2. Linux => \A p, m, locked, mid :
         Runs("user", p, m, locked, mid) => Runs("user", p, m, locked, mid)'
  BY <1>1 DEF Runs
<1> QED BY <1>1, <1>2 DEF UserInv

\* On ESXi nobody else sends a message while rtnl does.
-----------------------------------------------------------------------------
(* A step of any thread keeps the invariant. *)

LEMMA NobodySends ==
    ASSUME ServiceInv, UserInv, ~Linux
    PROVE  ~AreaBusy("rtnl")
<1> SUFFICES ASSUME NEW u \in {"service", "user"}, todo[u] # <<>>,
                    NEW k \in DOMAIN todo[u], todo[u][k] = Answer("REQUEST")
             PROVE  FALSE
  BY DEF AreaBusy, Threads, At, Idle
<1>1. u = "service"
  BY DEF UserInv
<1>2. Answer("REQUEST").i = "answer" /\ Answer("REQUEST").bit = "REQUEST"
  BY OpOf
<1>3. ASSUME NEW p, NEW m, IsProgram(p), m \in 1 .. Len(p), todo[u] = Rest(p, m)
      PROVE  \E j \in 1 .. Len(p) : p[j] = Answer("REQUEST")
  <2>1. PICK S : p \in Seq(S) /\ Len(p) \in Nat
    BY <1>3 DEF IsProgram
  <2>2. m \in 1 .. Len(p) + 1
    BY <1>3, <2>1
  <2>3. /\ Rest(p, m) \in Seq(S) /\ Len(Rest(p, m)) = Len(p) - m + 1
        /\ \A i \in 1 .. Len(p) - m + 1 : Rest(p, m)[i] = p[i + m - 1]
    BY <2>1, <2>2, RestIs
  <2>4. k \in 1 .. Len(p) - m + 1
    BY <1>3, <2>3
  <2>5. p[k + m - 1] = Answer("REQUEST")
    BY <1>3, <2>3, <2>4
  <2>6. k + m - 1 \in 1 .. Len(p)
    BY <1>3, <2>1, <2>4
  <2> QED BY <2>5, <2>6
<1>4. CASE \E m : Runs("service", Stats1, m, {2, 3}, {})
  <2>1. PICK j \in 1 .. 3 : Stats1[j] = Answer("REQUEST")
    BY <1>1, <1>3, <1>4, Stats1Is DEF Runs
  <2> QED BY <1>2, <2>1, Stats1Ops
<1>5. CASE \E m : Runs("service", Stats2, m, 2 .. 6, {3})
  <2>1. PICK j \in 1 .. 6 : Stats2[j] = Answer("REQUEST")
    BY <1>1, <1>3, <1>5, Stats2Is DEF Runs
  <2>2. j = 4
    BY <1>2, <2>1, Stats2Ops
  <2>3. Stats2[4] = Answer("STATS")
    BY Stats2Is
  <2>4. Answer("STATS").bit = "STATS"
    BY OpOf
  <2> QED BY <1>2, <2>1, <2>2, <2>3, <2>4
<1> QED BY <1>1, <1>4, <1>5 DEF ServiceInv

\* A step of a thread keeps the invariant.
LEMMA StepInv ==
    ASSUME SetInv, NEW t \in Threads, Step(t)
    PROVE  SetInv'
<1>1. CallTypes /\ RtnlInv /\ ServiceInv /\ UserInv /\ (raced => Linux)
  BY DEF SetInv
<1>2. ASSUME Apart(t), life' \in {"absent", "closed", "open", "closing", "armed", "dropped"},
             raced' /\ ~Linux => raced
      PROVE  CallTypes' /\ (raced' => Linux')
  BY <1>1, <1>2 DEF CallTypes, Apart, Linux
<1>3. CASE t = "rtnl"
  <2>1. RtnlInv' /\ Meanwhile
    BY <1>1, <1>3, RtnlStep
  <2>2. Apart("rtnl") /\ life' \in {"absent", "closed", "open", "closing", "armed", "dropped"}
    BY <2>1 DEF Meanwhile
  <2>3. raced' /\ ~Linux => raced
    BY <1>1, <2>2, NobodySends DEF Apart
  <2>4. /\ major' = major /\ scen' = scen
        /\ todo'["service"] = todo["service"] /\ reg'["service"] = reg["service"]
        /\ mutex' = "service" <=> mutex = "service"
        /\ todo'["user"] = todo["user"] /\ (mutex' = "user" <=> mutex = "user")
    BY <2>2 DEF Apart, Threads
  <2>5. ServiceInv'
    BY <1>1, <2>1, <2>4, ServiceElsewhere DEF Meanwhile
  <2>6. UserInv'
    BY <1>1, <2>1, <2>4, UserElsewhere DEF Meanwhile
  <2> QED BY <1>2, <1>3, <2>1, <2>2, <2>3, <2>5, <2>6 DEF SetInv
<1>4. CASE t = "service"
  <2>1. ServiceInv' /\ Elsewhere /\ Apart("service") /\ (raced' /\ ~Linux => raced)
    BY <1>1, <1>4, ServiceStep
  <2>2. RtnlInv'
    BY <1>1, <2>1, RtnlElsewhere
  <2>3. /\ major' = major /\ scen' = scen /\ life' = life
        /\ todo'["user"] = todo["user"] /\ (mutex' = "user" <=> mutex = "user")
    BY <2>1 DEF Apart, Threads, Elsewhere
  <2>4. UserInv'
    BY <1>1, <2>3, UserElsewhere
  <2> QED BY <1>1, <1>2, <1>4, <2>1, <2>2, <2>3, <2>4 DEF SetInv, CallTypes
<1>5. CASE t = "user"
  <2>1. UserInv' /\ Elsewhere /\ Apart("user")
    BY <1>1, <1>5, UserStep
  <2>2. RtnlInv'
    BY <1>1, <2>1, RtnlElsewhere
  <2>3. todo["user"] # <<>>
    BY <1>1, <1>5, StepGoes DEF CallTypes, Goes
  <2>4. Linux
    BY <1>1, <2>3 DEF UserInv
  <2>5. /\ major' = major /\ scen' = scen /\ life' = life
        /\ todo'["service"] = todo["service"] /\ reg'["service"] = reg["service"]
        /\ (mutex' = "service" <=> mutex = "service")
    BY <2>1 DEF Apart, Threads, Elsewhere
  <2>6. ServiceInv'
    BY <1>1, <2>4, <2>5, ServiceElsewhere
  <2> QED BY <1>1, <1>2, <1>5, <2>1, <2>2, <2>4, <2>5, <2>6 DEF SetInv, CallTypes
<1> QED BY <1>3, <1>4, <1>5 DEF Threads

-----------------------------------------------------------------------------
(* So does the beginning of a call. *)

LEMMA IdleAtRest ==
    ASSUME RtnlInv, todo["rtnl"] = <<>>
    PROVE  AtRest
<1>1. ASSUME NEW p, IsProgram(p), NEW m, NEW locked, NEW mid, Runs("rtnl", p, m, locked, mid)
      PROVE  FALSE
  BY <1>1, RunsBusy
<1>2. ~Initing
  BY <1>1, Init1Is, Init2Is DEF Initing
<1>3. ASSUME NEW m, Opening1(m) PROVE FALSE
  BY <1>1, <1>3, Open1Is DEF Opening1
<1>4. ASSUME NEW m, Opening2(m) PROVE FALSE
  BY <1>1, <1>4, Open2Is DEF Opening2
<1>5. ASSUME NEW m, Closing1(m) PROVE FALSE
  BY <1>1, <1>5, Drop1Is, Arm1Is DEF Closing1
<1>6. ASSUME NEW m, Closing2(m) PROVE FALSE
  BY <1>1, <1>6, Drop2Is, Arm2Is DEF Closing2
<1>7. ASSUME NEW m, Asking(m) PROVE FALSE
  BY <1>1, <1>7, Stats1Is, Stats2Is, GetEee2Is, Nway2Is DEF Asking
<1>8. ASSUME NEW m, SettingEee(m) PROVE FALSE
  BY <1>1, <1>8, SetEee2Is DEF SettingEee
<1>9. ASSUME NEW m, SettingPause(m) PROVE FALSE
  BY <1>1, <1>9, Pause2Is DEF SettingPause
<1>10. ASSUME NEW m, SettingLoop(m) PROVE FALSE
  BY <1>1, <1>10, Loop2Is DEF SettingLoop
<1> QED BY <1>2, <1>3, <1>4, <1>5, <1>6, <1>7, <1>8, <1>9, <1>10 DEF RtnlInv

LEMMA ServiceIdle ==
    ASSUME ServiceInv, todo["service"] = <<>>
    PROVE  mutex # "service"
<1>1. \A m : /\ Runs("service", Stats1, m, {2, 3}, {}) => FALSE
             /\ Runs("service", Stats2, m, 2 .. 6, {3}) => FALSE
  BY RunsBusy, Stats1Is, Stats2Is
<1> QED BY <1>1 DEF ServiceInv

LEMMA UserIdle ==
    ASSUME UserInv, todo["user"] = <<>>
    PROVE  mutex # "user"
<1>1. \A m : /\ Runs("user", Temp2, m, 2 .. 6, {3}) => FALSE
             /\ Runs("user", Cable2, m, 2 .. 3, {}) => FALSE
             /\ Runs("user", Request2, m, 2 .. 6, {4}) => FALSE
  BY RunsBusy, Temp2Is, Cable2Is, Request2Is
<1> QED BY <1>1 DEF UserInv

\* What beginning a call leaves alone, and where it begins.
Begins(t) ==
    /\ UNCHANGED <<major, scen, mutex, reg, ctrl2, life, raced>>
    /\ todo[t] = <<>>
    /\ todo' = [u \in Threads |-> todo'[u]]
    /\ err' \in [Threads -> BOOLEAN]
    /\ \A u \in Threads \ {t} : todo'[u] = todo[u] /\ err'[u] = err[u]

LEMMA BeginRuns ==
    ASSUME CallTypes, NEW t \in Threads, NEW prog, Begin(t, prog)
    PROVE  Begins(t) /\ todo'[t] = prog
  BY DEF Begin, Begins, CallTypes, Idle, bootVars, regVars, histVars

LEMMA RunsFirst ==
    ASSUME NEW t \in Threads, Begins(t), NEW prog, todo'[t] = prog, IsProgram(prog), Len(prog) > 0,
           mutex # t, NEW locked, NEW mid, 1 \notin locked, 1 \notin mid
    PROVE  Runs(t, prog, 1, locked, mid)'
<1>1. Rest(prog, 1) = prog
  BY RestEnds
<1>2. 1 \in 1 .. Len(prog)
  BY DEF IsProgram
<1> QED BY <1>1, <1>2 DEF Runs, Begins

\* The other parts of the invariant, when rtnl begins a call.
LEMMA RtnlBegins ==
    ASSUME SetInv, Begins("rtnl"), RtnlInv'
    PROVE  SetInv'
<1>1. CallTypes'
  BY DEF SetInv, CallTypes, Begins
<1>2. ServiceInv'
  <2>1. ServiceInv /\ todo'["service"] = todo["service"]
    BY DEF SetInv, Begins, Threads
  <2> QED BY <2>1, ServiceElsewhere DEF Begins
<1>3. UserInv'
  <2>1. UserInv /\ todo'["user"] = todo["user"]
    BY DEF SetInv, Begins, Threads
  <2> QED BY <2>1, UserElsewhere DEF Begins
<1>4. raced' => Linux'
  BY DEF SetInv, Begins, Linux
<1> QED BY <1>1, <1>2, <1>3, <1>4 DEF SetInv

LEMMA KeptBegins ==
    ASSUME Begins("rtnl"), cfg' = cfg, Kept(life, Settings)
    PROVE  Kept(life, Settings)'
  BY DEF Begins, Kept

\* The calls of rtnl.
LEMMA ProbeInv ==
    ASSUME SetInv, Probe
    PROVE  SetInv'
<1>1. CallTypes /\ AtRest
  BY IdleAtRest DEF SetInv, Probe, Begin, Idle
<1>2. life' = "absent" /\ Fw1x' = Fw1x
  BY DEF Probe, Probed, Begin, Fw1x, bootVars
<1>3. CASE Fw1x
  <2>1. Begins("rtnl") /\ Runs("rtnl", Init1, 1, {}, {})'
    <3>1. Begin("rtnl", Init1)
      BY <1>3, Init1Code DEF Probe
    <3>4. IsProgram(Init1) /\ Len(Init1) = 6
      BY Init1Is
    <3>2. IsProgram(Init1) /\ Len(Init1) > 0
      BY <3>4
    <3>3. 1 \notin {} /\ 1 \notin {}
      OBVIOUS
    <3> QED BY <1>1, <3>1, <3>2, <3>3, BeginRuns, RunsFirst DEF AtRest, Threads
  <2>2. Initing'
    BY <1>2, <1>3, <2>1 DEF Initing
  <2> QED BY <2>1, <2>2, RtnlBegins DEF RtnlInv
<1>4. CASE ~Fw1x
  <2>1. Begins("rtnl") /\ Runs("rtnl", Init2, 1, {}, {})'
    <3>1. Begin("rtnl", Init2)
      BY <1>4, Init2Code DEF Probe
    <3>4. IsProgram(Init2) /\ Len(Init2) = 5
      BY Init2Is
    <3>2. IsProgram(Init2) /\ Len(Init2) > 0
      BY <3>4
    <3>3. 1 \notin {} /\ 1 \notin {}
      OBVIOUS
    <3> QED BY <1>1, <3>1, <3>2, <3>3, BeginRuns, RunsFirst DEF AtRest, Threads
  <2>2. Initing'
    BY <1>2, <1>4, <2>1 DEF Initing
  <2> QED BY <2>1, <2>2, RtnlBegins DEF RtnlInv
<1> QED BY <1>3, <1>4

LEMMA OpenInv ==
    ASSUME SetInv, Open
    PROVE  SetInv'
<1>1. CallTypes /\ AtRest
  BY IdleAtRest DEF SetInv, Open, Begin, Idle
<1>2. cfg' = cfg /\ life' = life /\ Fw1x' = Fw1x /\ Down'
  BY <1>1 DEF Open, Probed, Begin, Same, Fw1x, bootVars, Down, AtRest, CallTypes
<1>3. CASE Fw1x
  <2>1. Begins("rtnl") /\ Runs("rtnl", Open1, 1, 2 .. 7, {4, 5, 9, 11})'
    <3>1. Begin("rtnl", Open1)
      BY <1>3, Open1Code DEF Open
    <3>4. IsProgram(Open1) /\ Len(Open1) = 15
      BY Open1Is
    <3>2. IsProgram(Open1) /\ Len(Open1) > 0
      BY <3>4
    <3>3. 1 \notin 2 .. 7 /\ 1 \notin {4, 5, 9, 11}
      OBVIOUS
    <3> QED BY <1>1, <3>1, <3>2, <3>3, BeginRuns, RunsFirst DEF AtRest, Threads
  <2>2. Kept(life, Settings)'
    BY <1>1, <1>2, <2>1, KeptBegins DEF AtRest
  <2>3. Opening1(1)'
    BY <1>2, <1>3, <2>1, <2>2 DEF Opening1
  <2> QED BY <2>1, <2>3, RtnlBegins DEF RtnlInv
<1>4. CASE ~Fw1x
  <2>0. PICK c : c = cfg
    OBVIOUS
  <2>1. Begins("rtnl") /\ Runs("rtnl", Open2(c), 1, (2 .. 6) \cup (16 .. 18), {4, 8, 11, 17})'
    <3>1. Begin("rtnl", Open2(c))
      BY <1>4, <2>0, Open2Code DEF Open
    <3>4. IsProgram(Open2(c)) /\ Len(Open2(c)) = 19
      BY Open2Is
    <3>2. IsProgram(Open2(c)) /\ Len(Open2(c)) > 0
      BY <3>4
    <3>3. 1 \notin ((2 .. 6) \cup (16 .. 18)) /\ 1 \notin {4, 8, 11, 17}
      OBVIOUS
    <3> QED BY <1>1, <3>1, <3>2, <3>3, BeginRuns, RunsFirst DEF AtRest, Threads
  <2>2. Kept(life, Settings)'
    BY <1>1, <1>2, <2>1, KeptBegins DEF AtRest
  <2>3. Runs("rtnl", Open2(cfg), 1, (2 .. 6) \cup (16 .. 18), {4, 8, 11, 17})'
    BY <1>2, <2>0, <2>1
  <2>4. Opening2(1)'
    BY <1>2, <1>4, <2>2, <2>3 DEF Opening2
  <2> QED BY <2>1, <2>4, RtnlBegins DEF RtnlInv
<1> QED BY <1>3, <1>4

LEMMA CloseInv ==
    ASSUME SetInv, Close
    PROVE  SetInv'
<1>1. CallTypes /\ AtRest
  BY IdleAtRest DEF SetInv, Close, Begin, Idle
<1>2. Fw1x' = Fw1x /\ Leaving(1)'
  BY DEF Close, Begin, Fw1x, bootVars, Leaving
<1>3. CASE Fw1x /\ "WOL" \notin cfg
  <2>1. Begins("rtnl") /\ Runs("rtnl", Drop1, 1, 4 .. 8, {5, 7})'
    <3>1. Begin("rtnl", Drop1)
      BY <1>3, Drop1Code DEF Close
    <3>4. IsProgram(Drop1) /\ Len(Drop1) = 9
      BY Drop1Is
    <3>2. IsProgram(Drop1) /\ Len(Drop1) > 0
      BY <3>4
    <3>3. 1 \notin 4 .. 8 /\ 1 \notin {5, 7}
      OBVIOUS
    <3> QED BY <1>1, <3>1, <3>2, <3>3, BeginRuns, RunsFirst DEF AtRest, Threads
  <2>2. Closing1(1)'
    BY <1>2, <1>3, <2>1 DEF Closing1
  <2> QED BY <2>1, <2>2, RtnlBegins DEF RtnlInv
<1>4. CASE Fw1x /\ "WOL" \in cfg
  <2>1. Begins("rtnl") /\ Runs("rtnl", Arm1, 1, 4 .. 8, {5, 7, 14, 16})'
    <3>1. Begin("rtnl", Arm1)
      BY <1>4, Arm1Code DEF Close
    <3>4. IsProgram(Arm1) /\ Len(Arm1) = 17
      BY Arm1Is
    <3>2. IsProgram(Arm1) /\ Len(Arm1) > 0
      BY <3>4
    <3>3. 1 \notin 4 .. 8 /\ 1 \notin {5, 7, 14, 16}
      OBVIOUS
    <3> QED BY <1>1, <3>1, <3>2, <3>3, BeginRuns, RunsFirst DEF AtRest, Threads
  <2>2. Closing1(1)'
    BY <1>2, <1>4, <2>1 DEF Closing1
  <2> QED BY <2>1, <2>2, RtnlBegins DEF RtnlInv
<1>5. CASE ~Fw1x /\ "WOL" \notin cfg
  <2>1. Begins("rtnl") /\ Runs("rtnl", Drop2, 1, 4 .. 6, {5})'
    <3>1. Begin("rtnl", Drop2)
      BY <1>5, Drop2Code DEF Close
    <3>4. IsProgram(Drop2) /\ Len(Drop2) = 7
      BY Drop2Is
    <3>2. IsProgram(Drop2) /\ Len(Drop2) > 0
      BY <3>4
    <3>3. 1 \notin 4 .. 6 /\ 1 \notin {5}
      OBVIOUS
    <3> QED BY <1>1, <3>1, <3>2, <3>3, BeginRuns, RunsFirst DEF AtRest, Threads
  <2>2. Closing2(1)'
    BY <1>2, <1>5, <2>1 DEF Closing2
  <2> QED BY <2>1, <2>2, RtnlBegins DEF RtnlInv
<1>6. CASE ~Fw1x /\ "WOL" \in cfg
  <2>1. Begins("rtnl") /\ Runs("rtnl", Arm2, 1, 4 .. 6, {5, 9, 10, 11, 15, 16, 17})'
    <3>1. Begin("rtnl", Arm2)
      BY <1>6, Arm2Code DEF Close
    <3>4. IsProgram(Arm2) /\ Len(Arm2) = 19
      BY Arm2Is
    <3>2. IsProgram(Arm2) /\ Len(Arm2) > 0
      BY <3>4
    <3>3. 1 \notin 4 .. 6 /\ 1 \notin {5, 9, 10, 11, 15, 16, 17}
      OBVIOUS
    <3> QED BY <1>1, <3>1, <3>2, <3>3, BeginRuns, RunsFirst DEF AtRest, Threads
  <2>2. Closing2(1)'
    BY <1>2, <1>6, <2>1 DEF Closing2
  <2> QED BY <2>1, <2>2, RtnlBegins DEF RtnlInv
<1> QED BY <1>3, <1>4, <1>5, <1>6

LEMMA EthtoolStatsInv ==
    ASSUME SetInv, EthtoolStats
    PROVE  SetInv'
<1>1. CallTypes /\ AtRest
  BY IdleAtRest DEF SetInv, EthtoolStats, Begin, Idle
<1>2. cfg' = cfg /\ Fw1x' = Fw1x /\ Up'
  BY <1>1 DEF EthtoolStats, Begin, Same, Fw1x, bootVars, Up, Probed, AtRest, CallTypes
<1>3. CASE Fw1x
  <2>1. Begins("rtnl") /\ Runs("rtnl", Stats1, 1, {2, 3}, {})'
    <3>1. Begin("rtnl", Stats1)
      BY <1>3, Stats1Code DEF EthtoolStats
    <3>4. IsProgram(Stats1) /\ Len(Stats1) = 3
      BY Stats1Is
    <3>2. IsProgram(Stats1) /\ Len(Stats1) > 0
      BY <3>4
    <3>3. 1 \notin {2, 3} /\ 1 \notin {}
      OBVIOUS
    <3> QED BY <1>1, <3>1, <3>2, <3>3, BeginRuns, RunsFirst DEF AtRest, Threads
  <2>2. Kept(life, Settings)'
    BY <1>1, <1>2, <2>1, KeptBegins DEF AtRest
  <2>3. Asking(1)'
    BY <1>2, <1>3, <2>1, <2>2 DEF Asking
  <2> QED BY <2>1, <2>3, RtnlBegins DEF RtnlInv
<1>4. CASE ~Fw1x
  <2>1. Begins("rtnl") /\ Runs("rtnl", Stats2, 1, 2 .. 6, {3})'
    <3>1. Begin("rtnl", Stats2)
      BY <1>4, Stats2Code DEF EthtoolStats
    <3>4. IsProgram(Stats2) /\ Len(Stats2) = 6
      BY Stats2Is
    <3>2. IsProgram(Stats2) /\ Len(Stats2) > 0
      BY <3>4
    <3>3. 1 \notin 2 .. 6 /\ 1 \notin {3}
      OBVIOUS
    <3> QED BY <1>1, <3>1, <3>2, <3>3, BeginRuns, RunsFirst DEF AtRest, Threads
  <2>2. Kept(life, Settings)'
    BY <1>1, <1>2, <2>1, KeptBegins DEF AtRest
  <2>3. Asking(1)'
    BY <1>2, <1>4, <2>1, <2>2 DEF Asking
  <2> QED BY <2>1, <2>3, RtnlBegins DEF RtnlInv
<1> QED BY <1>3, <1>4

LEMMA GetEeeInv ==
    ASSUME SetInv, GetEee
    PROVE  SetInv'
<1>1. CallTypes /\ AtRest
  BY IdleAtRest DEF SetInv, GetEee, Begin, Idle
<1>2. cfg' = cfg /\ Fw1x' = Fw1x /\ Up'
  BY <1>1 DEF GetEee, Begin, Same, Fw1x, bootVars, Up, Probed, AtRest, CallTypes
<1>3. CASE ~Fw1x
  <2>1. Begins("rtnl") /\ Runs("rtnl", GetEee2, 1, 2 .. 4, {})'
    <3>1. Begin("rtnl", GetEee2)
      BY <1>3, GetEee2Code DEF GetEee
    <3>4. IsProgram(GetEee2) /\ Len(GetEee2) = 4
      BY GetEee2Is
    <3>2. IsProgram(GetEee2) /\ Len(GetEee2) > 0
      BY <3>4
    <3>3. 1 \notin 2 .. 4 /\ 1 \notin {}
      OBVIOUS
    <3> QED BY <1>1, <3>1, <3>2, <3>3, BeginRuns, RunsFirst DEF AtRest, Threads
  <2>2. Kept(life, Settings)'
    BY <1>1, <1>2, <2>1, KeptBegins DEF AtRest
  <2>3. Asking(1)'
    BY <1>2, <1>3, <2>1, <2>2 DEF Asking
  <2> QED BY <2>1, <2>3, RtnlBegins DEF RtnlInv
<1> QED BY <1>3 DEF GetEee

LEMMA NwayResetInv ==
    ASSUME SetInv, NwayReset
    PROVE  SetInv'
<1>1. CallTypes /\ AtRest
  BY IdleAtRest DEF SetInv, NwayReset, Begin, Idle
<1>2. cfg' = cfg /\ Fw1x' = Fw1x /\ Up'
  BY <1>1 DEF NwayReset, Begin, Same, Fw1x, bootVars, Up, Probed, AtRest, CallTypes
<1>3. CASE ~Fw1x
  <2>1. Begins("rtnl") /\ Runs("rtnl", Nway2, 1, 2 .. 4, {3})'
    <3>1. Begin("rtnl", Nway2)
      BY <1>3, Nway2Code DEF NwayReset
    <3>4. IsProgram(Nway2) /\ Len(Nway2) = 4
      BY Nway2Is
    <3>2. IsProgram(Nway2) /\ Len(Nway2) > 0
      BY <3>4
    <3>3. 1 \notin 2 .. 4 /\ 1 \notin {3}
      OBVIOUS
    <3> QED BY <1>1, <3>1, <3>2, <3>3, BeginRuns, RunsFirst DEF AtRest, Threads
  <2>2. Kept(life, Settings)'
    BY <1>1, <1>2, <2>1, KeptBegins DEF AtRest
  <2>3. Asking(1)'
    BY <1>2, <1>3, <2>1, <2>2 DEF Asking
  <2> QED BY <2>1, <2>3, RtnlBegins DEF RtnlInv
<1> QED BY <1>3 DEF NwayReset

LEMMA SetEeeInv ==
    ASSUME SetInv, SetEee
    PROVE  SetInv'
<1>1. CallTypes /\ AtRest
  BY IdleAtRest DEF SetInv, SetEee, Begin, Idle
<1>2. cfg' = cfg /\ ~Fw1x' /\ Up' /\ Linux'
  BY <1>1 DEF SetEee, Begin, Same, Fw1x, bootVars, Up, Probed, AtRest, CallTypes, Linux
<1>3. PICK on \in BOOLEAN : Begin("rtnl", aq_ethtool_set_eee(on, cfg))
  BY DEF SetEee
<1>4. PICK c : c = cfg
  OBVIOUS
<1>5. Begins("rtnl") /\ Runs("rtnl", SetEee2(on, c), 1, (2 .. 4) \cup (7 .. 9), {8})'
  <2>1. Begin("rtnl", SetEee2(on, c))
    BY <1>3, <1>4, SetEee2Code
  <2>4. IsProgram(SetEee2(on, c)) /\ Len(SetEee2(on, c)) = 9
    BY SetEee2Is
  <2>2. IsProgram(SetEee2(on, c)) /\ Len(SetEee2(on, c)) > 0
    BY <2>4
  <2>3. 1 \notin ((2 .. 4) \cup (7 .. 9)) /\ 1 \notin {8}
    OBVIOUS
  <2> QED BY <1>1, <2>1, <2>2, <2>3, BeginRuns, RunsFirst DEF AtRest, Threads
<1>6. Runs("rtnl", SetEee2(on, cfg), 1, (2 .. 4) \cup (7 .. 9), {8})'
  BY <1>2, <1>4, <1>5
<1>7. Kept(life, Settings)'
  BY <1>1, <1>2, <1>5, KeptBegins DEF AtRest
<1>8. SettingEee(1)'
  BY <1>2, <1>6, <1>7 DEF SettingEee
<1> QED BY <1>5, <1>8, RtnlBegins DEF RtnlInv

LEMMA SetPauseparamInv ==
    ASSUME SetInv, SetPauseparam
    PROVE  SetInv'
<1>1. CallTypes /\ AtRest
  BY IdleAtRest DEF SetInv, SetPauseparam, Begin, Idle
<1>2. cfg' = Toggled(cfg, "PAUSE") /\ ~Fw1x' /\ Up'
  BY <1>1 DEF SetPauseparam, Begin, Fw1x, bootVars, Up, Probed, AtRest, CallTypes
<1>3. PICK c : c = cfg'
  OBVIOUS
<1>4. Begins("rtnl") /\ Runs("rtnl", Pause2(c), 1, 2 .. 4, {3})'
  <2>1. Begin("rtnl", Pause2(c))
    BY <1>3, Pause2Code DEF SetPauseparam
  <2>4. IsProgram(Pause2(c)) /\ Len(Pause2(c)) = 4
    BY Pause2Is
  <2>2. IsProgram(Pause2(c)) /\ Len(Pause2(c)) > 0
    BY <2>4
  <2>3. 1 \notin 2 .. 4 /\ 1 \notin {3}
    OBVIOUS
  <2> QED BY <1>1, <2>1, <2>2, <2>3, BeginRuns, RunsFirst DEF AtRest, Threads
<1>5. Runs("rtnl", Pause2(cfg), 1, 2 .. 4, {3})'
  BY <1>3, <1>4
<1>6. Kept(life, {"EEE", "LOOPBACK"})'
  <2>1. \A s : s # "PAUSE" => (s \in cfg' <=> s \in cfg)
    BY <1>2 DEF Toggled
  <2>2. Kept(life, Settings)
    BY <1>1 DEF AtRest
  <2> QED BY <1>4, <2>1, <2>2 DEF Begins, Kept, Holds, Settings
<1>7. SettingPause(1)'
  BY <1>2, <1>5, <1>6 DEF SettingPause
<1> QED BY <1>4, <1>7, RtnlBegins DEF RtnlInv

LEMMA SetPrivFlagsInv ==
    ASSUME SetInv, SetPrivFlags
    PROVE  SetInv'
<1>1. CallTypes /\ AtRest
  BY IdleAtRest DEF SetInv, SetPrivFlags, Begin, Idle
<1>2. cfg' = cfg /\ ~Fw1x /\ ~Fw1x' /\ Up' /\ Linux'
  BY <1>1 DEF SetPrivFlags, Begin, Same, Fw1x, bootVars, Up, Probed, AtRest, CallTypes, Linux
<1>3. PICK c : c = Toggled(cfg, "LOOPBACK")
  OBVIOUS
<1>4. Begins("rtnl") /\ Runs("rtnl", Loop2(c), 1, 2 .. 4, {3})'
  <2>1. Begin("rtnl", Loop2(c))
    BY <1>2, <1>3, Loop2Code DEF SetPrivFlags
  <2>4. IsProgram(Loop2(c)) /\ Len(Loop2(c)) = 5
    BY Loop2Is
  <2>2. IsProgram(Loop2(c)) /\ Len(Loop2(c)) > 0
    BY <2>4
  <2>3. 1 \notin 2 .. 4 /\ 1 \notin {3}
    OBVIOUS
  <2> QED BY <1>1, <2>1, <2>2, <2>3, BeginRuns, RunsFirst DEF AtRest, Threads
<1>5. c = Toggled(cfg, "LOOPBACK")'
  BY <1>2, <1>3 DEF Toggled
<1>6. Kept(life, Settings)'
  BY <1>1, <1>2, <1>4, KeptBegins DEF AtRest
<1>7. SettingLoop(1)'
  BY <1>2, <1>4, <1>5, <1>6 DEF SettingLoop
<1> QED BY <1>4, <1>7, RtnlBegins DEF RtnlInv

LEMMA SetWolInv ==
    ASSUME SetInv, SetWol
    PROVE  SetInv'
<1>1. CallTypes /\ AtRest
  BY IdleAtRest DEF SetInv, SetWol, Begin, Idle
<1>2. cfg' = Toggled(cfg, "WOL") /\ Begin("rtnl", <<>>)
  BY DEF SetWol
<1>3. Begins("rtnl") /\ todo'["rtnl"] = <<>>
  BY <1>1, <1>2, BeginRuns DEF Threads
<1>4. Kept(life, Settings)'
  <2>1. \A s : s # "WOL" => (s \in cfg' <=> s \in cfg)
    BY <1>2 DEF Toggled
  <2>2. Kept(life, Settings)
    BY <1>1 DEF AtRest
  <2> QED BY <1>3, <2>1, <2>2 DEF Begins, Kept, Holds, Settings
<1>5. AtRest'
  BY <1>1, <1>3, <1>4 DEF AtRest, Begins
<1> QED BY <1>3, <1>5, RtnlBegins DEF RtnlInv

\* A call of the service task or of user space.
LEMMA OthersBegin ==
    ASSUME SetInv, NEW t \in {"service", "user"}, Begins(t), cfg' = cfg
    PROVE  /\ CallTypes' /\ RtnlInv' /\ (raced' => Linux')
           /\ t = "service" => UserInv'
           /\ t = "user" => ServiceInv'
<1>1. Elsewhere
  BY DEF Begins, Elsewhere, Threads
<1>2. RtnlInv'
  BY <1>1, RtnlElsewhere DEF SetInv
<1>3. CallTypes' /\ (raced' => Linux')
  BY DEF SetInv, CallTypes, Begins, Linux
<1>4. t = "service" => UserInv'
  <2>1. UserInv /\ (t = "service" => todo'["user"] = todo["user"])
    BY DEF SetInv, Begins, Threads
  <2> QED BY <2>1, UserElsewhere DEF Begins
<1>5. t = "user" => ServiceInv'
  <2>1. ServiceInv /\ (t = "user" => todo'["service"] = todo["service"])
    BY DEF SetInv, Begins, Threads
  <2> QED BY <2>1, ServiceElsewhere DEF Begins
<1> QED BY <1>2, <1>3, <1>4, <1>5

LEMMA ServiceTaskInv ==
    ASSUME SetInv, ServiceTask
    PROVE  SetInv'
<1>1. CallTypes /\ mutex # "service"
  BY ServiceIdle DEF SetInv, ServiceTask, Begin, Idle
<1>2. cfg' = cfg /\ life' = "open" /\ Fw1x' = Fw1x
  BY DEF ServiceTask, Begin, Fw1x, bootVars
<1>3. ASSUME Begins("service"), ServiceInv' PROVE SetInv'
  BY <1>2, <1>3, OthersBegin DEF SetInv
<1>4. CASE Fw1x
  <2>1. Begins("service") /\ Runs("service", Stats1, 1, {2, 3}, {})'
    <3>1. Begin("service", Stats1)
      BY <1>4, Stats1Code DEF ServiceTask
    <3>4. IsProgram(Stats1) /\ Len(Stats1) = 3
      BY Stats1Is
    <3>2. IsProgram(Stats1) /\ Len(Stats1) > 0
      BY <3>4
    <3>3. 1 \notin {2, 3} /\ 1 \notin {}
      OBVIOUS
    <3> QED BY <1>1, <3>1, <3>2, <3>3, BeginRuns, RunsFirst DEF Threads
  <2>2. ServiceInv'
    BY <1>2, <1>4, <2>1 DEF ServiceInv
  <2> QED BY <1>3, <2>1, <2>2
<1>5. CASE ~Fw1x
  <2>1. Begins("service") /\ Runs("service", Stats2, 1, 2 .. 6, {3})'
    <3>1. Begin("service", Stats2)
      BY <1>5, Stats2Code DEF ServiceTask
    <3>4. IsProgram(Stats2) /\ Len(Stats2) = 6
      BY Stats2Is
    <3>2. IsProgram(Stats2) /\ Len(Stats2) > 0
      BY <3>4
    <3>3. 1 \notin 2 .. 6 /\ 1 \notin {3}
      OBVIOUS
    <3> QED BY <1>1, <3>1, <3>2, <3>3, BeginRuns, RunsFirst DEF Threads
  <2>2. ServiceInv'
    BY <1>2, <1>5, <2>1 DEF ServiceInv
  <2> QED BY <1>3, <2>1, <2>2
<1> QED BY <1>4, <1>5

LEMMA UserCallInv ==
    ASSUME SetInv, HwmonTemp \/ HwmonCable \/ PtpRequest
    PROVE  SetInv'
<1>1. CallTypes /\ mutex # "user"
  BY UserIdle DEF SetInv, HwmonTemp, HwmonCable, PtpRequest, User, Begin, Idle
<1>2. cfg' = cfg /\ life' = life /\ life # "absent" /\ ~Fw1x' /\ Linux'
  BY DEF HwmonTemp, HwmonCable, PtpRequest, User, Begin, Fw1x, bootVars, Linux, Probed, Same
<1>3. ASSUME Begins("user"), UserInv' PROVE SetInv'
  BY <1>2, <1>3, OthersBegin DEF SetInv
<1>4. CASE HwmonTemp
  <2>1. Begins("user") /\ Runs("user", Temp2, 1, 2 .. 6, {3})'
    <3>1. Begin("user", Temp2)
      BY <1>4, Temp2Code DEF HwmonTemp, User
    <3>4. IsProgram(Temp2) /\ Len(Temp2) = 6
      BY Temp2Is
    <3>2. IsProgram(Temp2) /\ Len(Temp2) > 0
      BY <3>4
    <3>3. 1 \notin 2 .. 6 /\ 1 \notin {3}
      OBVIOUS
    <3> QED BY <1>1, <3>1, <3>2, <3>3, BeginRuns, RunsFirst DEF Threads
  <2>2. UserInv'
    BY <1>2, <2>1 DEF UserInv
  <2> QED BY <1>3, <2>1, <2>2
<1>5. CASE HwmonCable
  <2>1. Begins("user") /\ Runs("user", Cable2, 1, 2 .. 3, {})'
    <3>1. Begin("user", Cable2)
      BY <1>5, Cable2Code DEF HwmonCable, User
    <3>4. IsProgram(Cable2) /\ Len(Cable2) = 3
      BY Cable2Is
    <3>2. IsProgram(Cable2) /\ Len(Cable2) > 0
      BY <3>4
    <3>3. 1 \notin 2 .. 3 /\ 1 \notin {}
      OBVIOUS
    <3> QED BY <1>1, <3>1, <3>2, <3>3, BeginRuns, RunsFirst DEF Threads
  <2>2. UserInv'
    BY <1>2, <2>1 DEF UserInv
  <2> QED BY <1>3, <2>1, <2>2
<1>6. CASE PtpRequest
  <2>1. Begins("user") /\ Runs("user", Request2, 1, 2 .. 6, {4})'
    <3>1. Begin("user", Request2)
      BY <1>6, Request2Code DEF PtpRequest, User
    <3>4. IsProgram(Request2) /\ Len(Request2) = 6
      BY Request2Is
    <3>2. IsProgram(Request2) /\ Len(Request2) > 0
      BY <3>4
    <3>3. 1 \notin 2 .. 6 /\ 1 \notin {4}
      OBVIOUS
    <3> QED BY <1>1, <3>1, <3>2, <3>3, BeginRuns, RunsFirst DEF Threads
  <2>2. UserInv'
    BY <1>2, <2>1 DEF UserInv
  <2> QED BY <1>3, <2>1, <2>2
<1> QED BY <1>4, <1>5, <1>6

-----------------------------------------------------------------------------
(* And so do the firmware and the device. *)

LEMMA StillInv ==
    ASSUME SetInv, UNCHANGED <<major, scen, mutex, todo, err, reg, ctrl2, cfg, life, raced>>
    PROVE  SetInv'
<1>1. Elsewhere
  BY DEF SetInv, Elsewhere
<1>2. RtnlInv'
  BY <1>1, RtnlElsewhere DEF SetInv
<1>3. ServiceInv'
  BY ServiceElsewhere DEF SetInv
<1>4. UserInv'
  BY UserElsewhere DEF SetInv
<1> QED BY <1>2, <1>3, <1>4 DEF SetInv, CallTypes, Linux

LEMMA FirmwareInv ==
    ASSUME SetInv, Firmware \/ ResetRuns \/ UNCHANGED vars
    PROVE  SetInv'
<1> USE DEF bootVars, regVars, rpcVars, histVars
<1>1. ASSUME NEW b, ServeToggle(b) \/ ServeMode(b) \/ DropMode(b)
      PROVE  SetInv'
  <2>1. UNCHANGED <<major, scen, mutex, todo, err, reg, ctrl2, cfg, life, raced>>
    BY <1>1 DEF ServeToggle, ServeMode, DropMode
  <2> QED BY <2>1, StillInv
<1>2. CASE ServeRpc \/ Packet
  <2>1. UNCHANGED <<major, scen, mutex, todo, err, reg, ctrl2, cfg, life, raced>>
    BY <1>2 DEF ServeRpc, Packet
  <2> QED BY <2>1, StillInv
<1>3. CASE DeviceStep
  <2>1. UNCHANGED <<major, scen, mutex, todo, err, reg, ctrl2, cfg, life, raced>>
    BY <1>3 DEF DeviceStep, DeviceBoots, LoaderReports, FirmwareComesUp, NoFirmware
  <2> QED BY <2>1, StillInv
<1>4. CASE ResetRuns
  <2>1. UNCHANGED <<major, scen, mutex, todo, err, reg, ctrl2, cfg, life, raced>>
    BY <1>4 DEF ResetRuns, BootStep, NobodyStarted, LoaderFoundSkips, LoaderFound, ColdStartDone,
        ColdStartLate, Deinit1x, ResetRbl, RblBooted, RblFailed, ResetFlb, MacKicked, MacKickFailed,
        Started, StartFailed, Goto
  <2> QED BY <2>1, StillInv
<1>5. CASE UNCHANGED vars
  <2>1. UNCHANGED <<major, scen, mutex, todo, err, reg, ctrl2, cfg, life, raced>>
    BY <1>5 DEF vars
  <2> QED BY <2>1, StillInv
<1> QED BY <1>1, <1>2, <1>3, <1>4, <1>5 DEF Firmware

\* The invariant holds at the start, every step keeps it, and it says enough.
LEMMA SetInvInit == CallInit => SetInv
<1> SUFFICES ASSUME CallInit PROVE SetInv
  OBVIOUS
<1>1. /\ todo = [t \in Threads |-> <<>>] /\ mutex = None /\ life = "absent" /\ raced = FALSE
      /\ err = [t \in Threads |-> FALSE] /\ reg = [t \in Threads |-> {}]
  BY DEF CallInit
<1>2. mutex \notin {"rtnl", "service", "user"}
  BY <1>1, NoneAssumption DEF Threads
<1>3. Kept(life, Settings)
  BY <1>1 DEF Kept, Holds
<1>4. RtnlInv
  BY <1>1, <1>2, <1>3 DEF RtnlInv, AtRest, Threads
<1>5. ServiceInv /\ UserInv
  BY <1>1, <1>2 DEF ServiceInv, UserInv, Threads
<1>6. CallTypes
  BY <1>1 DEF CallTypes
<1> QED BY <1>1, <1>4, <1>5, <1>6 DEF SetInv

LEMMA SetInvNext == SetInv /\ [CallNext]_vars => SetInv'
<1> SUFFICES ASSUME SetInv, [CallNext]_vars PROVE SetInv'
  OBVIOUS
<1>1. CASE Calls
  BY <1>1, ProbeInv, OpenInv, CloseInv, EthtoolStatsInv, GetEeeInv, SetEeeInv, SetPauseparamInv,
     SetPrivFlagsInv, NwayResetInv, SetWolInv, ServiceTaskInv, UserCallInv DEF Calls
<1>2. CASE \E t \in Threads : DoLock(t) \/ ThreadStep(t)
  BY <1>2, StepInv DEF Step
<1>3. CASE ResetRuns \/ Firmware \/ UNCHANGED vars
  BY <1>3, FirmwareInv
<1> QED BY <1>1, <1>2, <1>3 DEF CallNext

LEMMA SetInvKept == SetInv => SettingsKept
<1> SUFFICES ASSUME SetInv PROVE SettingsKept
  OBVIOUS
<1>1. raced => Linux
  BY DEF SetInv
<1>2. ASSUME todo["rtnl"] = <<>>, ~raced PROVE Holds(life, Settings, ctrl2, cfg, major)
  BY <1>2, IdleAtRest DEF SetInv, AtRest, Kept
<1>3. ASSUME todo["rtnl"] = <<>>, ~raced
      PROVE  CASE life = "open" /\ ~Fw1x  -> /\ ctrl2 \cap Settings = cfg \cap Settings
                                             /\ "LINK_DROP" \notin ctrl2
               [] life = "open" /\ Fw1x   -> /\ {"INIT", "SPEED"} \subseteq ctrl2
                                             /\ "DIRTY_WAKE" \notin ctrl2
               [] life = "armed"          -> IF Fw1x THEN {"POWER", "DIRTY_WAKE"} \subseteq ctrl2
                                             ELSE "WOL" \in ctrl2 /\ "LINK_DROP" \notin ctrl2
               [] life = "dropped"        -> IF Fw1x THEN {"DEINIT", "DIRTY_WAKE"} \subseteq ctrl2
                                             ELSE "LINK_DROP" \in ctrl2
               [] OTHER                   -> TRUE
  <2>1. Holds(life, Settings, ctrl2, cfg, major)
    BY <1>2, <1>3
  <2>2. CASE life = "open" /\ ~Fw1x
    BY <2>1, <2>2 DEF Holds, Fw1x
  <2>3. CASE life = "open" /\ Fw1x
    BY <2>1, <2>3 DEF Holds, Fw1x
  <2>4. CASE life = "armed"
    BY <2>1, <2>4 DEF Holds, Fw1x
  <2>5. CASE life = "dropped"
    BY <2>1, <2>5 DEF Holds, Fw1x
  <2>6. CASE life \notin {"open", "armed", "dropped"}
    BY <2>6
  <2> QED BY <2>2, <2>3, <2>4, <2>5, <2>6
<1> QED BY <1>1, <1>3 DEF SettingsKept, Idle

\* What opens, closes and the setters (aq_fw2x_set_state, aq_fw2x_set_eee_rate,
\* aq_fw2x_set_flow_control, aq_fw2x_set_phyloopback, aq_fw2x_set_power and their 1.x
\* forms) leave in the control register is what they were asked for: when no call of
\* the stack runs and no two threads have written the register over each other, an
\* open device has EEE, PAUSE and LOOPBACK as the settings say and is not told to
\* drop the link, an armed one is told to wake, and a dropped one to drop the link,
\* for firmware 1.x and 2.x alike. On ESXi no two threads ever do.
THEOREM SettingsTheorem == CallSpec => []SettingsKept
<1>1. CallInit => SetInv
  BY SetInvInit
<1>2. SetInv /\ [CallNext]_vars => SetInv'
  BY SetInvNext
<1>3. SetInv => SettingsKept
  BY SetInvKept
<1> QED BY <1>1, <1>2, <1>3, PTL DEF CallSpec

-----------------------------------------------------------------------------
\* The instructions that wait for an answer, and the toggles the waits of a thread are for.
Asks == {"answer", "answer_or_not"}

BitsOf(t) == IF t = "user" THEN {"TEMP", "REQUEST"} ELSE {"STATS"}

\* The instructions each thread has.
Kinds(t) ==
    CASE t = "user"    -> {"lock", "unlock", "read", "try", "toggle", "upload"} \cup Asks
      [] t = "service" -> {"lock", "unlock", "read", "toggle", "answer", "account"}
      [] OTHER         -> {"lock", "unlock", "unlock_check", "return", "read", "write", "toggle",
                           "answer", "until_set", "try", "rpc_wait", "rpc_call", "account",
                           "no_link", "cfg", "become", "ops", "reset"}

\* From its k-th instruction on, p makes a remote call before it waits for another.
CallsNext(p, k) ==
    \E j \in k .. Len(p) : p[j].i = "rpc_call" /\ \A i \in k .. j - 1 : p[i].i \in {"read", "write"}

\* A program of thread t: writes leave the toggles alone, an answer is waited for right
\* after its toggle, and a remote call is made only after a wait for the one before.
Plan(p, t) ==
    \A k \in 1 .. Len(p) :
      /\ p[k].i \in Kinds(t)
      /\ p[k].i = "write" => p[k].on \cap Toggles = {} /\ p[k].off \cap Toggles = {}
      /\ p[k].i \in {"toggle"} \cup Asks => p[k].bit \in BitsOf(t)
      /\ p[k].i = "until_set" => p[k].bit \in {"PROXY", "WOL"}
      /\ p[k].i = "answer" => p[k] = Answer(p[k].bit)
      /\ p[k].i = "answer_or_not" => p[k] = AnswerOrNot(p[k].bit)
      /\ p[k].i \in Asks => k > 1 /\ p[k - 1].i = "toggle" /\ p[k - 1].bit = p[k].bit
      /\ p[k].i = "toggle" => k < Len(p) /\ p[k + 1].i \in Asks /\ p[k + 1].bit = p[k].bit
      /\ CallsNext(p, k) => k > 1 /\ p[k - 1].i \in {"rpc_wait", "read", "write"}

LEMMA Init1Plan ==
    Plan(Init1, "rtnl")
<1> DEFINE p == Init1
<1>1. Len(p) = 6
  BY Init1Is
<1>2. /\ p[1].i = "reset" /\ p[2].i = "ops" /\ p[3].i = "try" /\ p[4].i = "try"
      /\ p[5].i = "rpc_wait" /\ p[6].i = "become"
  BY Init1Ops
<1> HIDE DEF p
<1>3. \A k \in 1 .. 6 : p[k].i \in Kinds("rtnl")
  BY <1>2 DEF Kinds, Asks
<1>4. \A k \in 1 .. 6 : p[k].i # "write"
  BY <1>2
<1>5. \A k \in 1 .. 6 : p[k].i \notin {"toggle", "answer", "answer_or_not"} \cup Asks
  BY <1>2 DEF Asks
<1>6. \A k \in 1 .. 6 : p[k].i # "until_set"
  BY <1>2
<1>7. \A k \in 1 .. 6 : ~CallsNext(p, k)
  <2>1. \A j \in 1 .. 6 : p[j].i # "rpc_call"
    BY <1>2
  <2> QED BY <1>1, <2>1 DEF CallsNext
<1>8. Plan(p, "rtnl")
  BY <1>1, <1>3, <1>4, <1>5, <1>6, <1>7 DEF Plan, Asks
<1> QED BY <1>8 DEF p

LEMMA Init2Plan ==
    Plan(Init2, "rtnl")
<1> DEFINE p == Init2
<1>1. Len(p) = 5
  BY Init2Is
<1>2. /\ p[1].i = "reset" /\ p[2].i = "ops" /\ p[3].i = "try" /\ p[4].i = "try"
      /\ p[5].i = "become"
  BY Init2Ops
<1> HIDE DEF p
<1>3. \A k \in 1 .. 5 : p[k].i \in Kinds("rtnl")
  BY <1>2 DEF Kinds, Asks
<1>4. \A k \in 1 .. 5 : p[k].i # "write"
  BY <1>2
<1>5. \A k \in 1 .. 5 : p[k].i \notin {"toggle", "answer", "answer_or_not"} \cup Asks
  BY <1>2 DEF Asks
<1>6. \A k \in 1 .. 5 : p[k].i # "until_set"
  BY <1>2
<1>7. \A k \in 1 .. 5 : ~CallsNext(p, k)
  <2>1. \A j \in 1 .. 5 : p[j].i # "rpc_call"
    BY <1>2
  <2> QED BY <1>1, <2>1 DEF CallsNext
<1>8. Plan(p, "rtnl")
  BY <1>1, <1>3, <1>4, <1>5, <1>6, <1>7 DEF Plan, Asks
<1> QED BY <1>8 DEF p

LEMMA Open1Plan ==
    Plan(Open1, "rtnl")
<1> DEFINE p == Open1
<1>1. Len(p) = 15
  BY Open1Is
<1>2. /\ p[1].i = "lock" /\ p[2].i = "reset" /\ p[3].i = "read" /\ p[4].i = "try"
      /\ p[5].i = "write" /\ p[6].i = "return" /\ p[7].i = "unlock_check"
      /\ p[8].i = "read" /\ p[9].i = "write" /\ p[10].i = "read" /\ p[11].i = "write"
      /\ p[12].i = "no_link" /\ p[13].i = "account" /\ p[14].i = "return"
      /\ p[15].i = "become"
  BY Open1Ops
<1>3. /\ p[5] = Write({"RESET"}, States1x \cup {"DIRTY_WAKE"})
      /\ p[9] = Write({"SPEED"}, {"SPEED"})
      /\ p[11] = Write({"INIT"}, States1x \cup {"DIRTY_WAKE"})
  BY Open1Is
<1> HIDE DEF p
<1>4. \A k \in 1 .. 15 : p[k].i \in Kinds("rtnl")
  BY <1>2 DEF Kinds, Asks
<1>5. \A k \in 1 .. 15 : p[k].i = "write" => p[k].on \cap Toggles = {} /\ p[k].off \cap Toggles = {}
  <2>1. /\ p[5].on = {"RESET"} /\ p[5].off = (States1x \cup {"DIRTY_WAKE"})
        /\ p[9].on = {"SPEED"} /\ p[9].off = {"SPEED"}
        /\ p[11].on = {"INIT"} /\ p[11].off = (States1x \cup {"DIRTY_WAKE"})
    BY <1>3, OpOf
  <2>2. p[5].on \cap Toggles = {} /\ p[5].off \cap Toggles = {}
    BY <2>1 DEF Toggles, States1x
  <2>3. p[9].on \cap Toggles = {} /\ p[9].off \cap Toggles = {}
    BY <2>1 DEF Toggles, States1x
  <2>4. p[11].on \cap Toggles = {} /\ p[11].off \cap Toggles = {}
    BY <2>1 DEF Toggles, States1x
  <2> QED BY <1>2, <2>2, <2>3, <2>4
<1>6. \A k \in 1 .. 15 : p[k].i \notin {"toggle", "answer", "answer_or_not"} \cup Asks
  BY <1>2 DEF Asks
<1>7. \A k \in 1 .. 15 : p[k].i # "until_set"
  BY <1>2
<1>8. \A k \in 1 .. 15 : ~CallsNext(p, k)
  <2>1. \A j \in 1 .. 15 : p[j].i # "rpc_call"
    BY <1>2
  <2> QED BY <1>1, <2>1 DEF CallsNext
<1>9. Plan(p, "rtnl")
  BY <1>1, <1>4, <1>5, <1>6, <1>7, <1>8 DEF Plan, Asks
<1> QED BY <1>9 DEF p

LEMMA Open2Plan ==
    ASSUME NEW c
    PROVE  Plan(Open2(c), "rtnl")
<1> DEFINE p == Open2(c)
<1>1. Len(p) = 19
  BY Open2Is
<1>2. /\ p[1].i = "lock" /\ p[2].i = "reset" /\ p[3].i = "read" /\ p[4].i = "write"
      /\ p[5].i = "return" /\ p[6].i = "unlock_check" /\ p[7].i = "read"
      /\ p[8].i = "write" /\ p[9].i = "no_link" /\ p[10].i = "read" /\ p[11].i = "toggle"
      /\ p[12].i = "answer" /\ p[13].i = "account" /\ p[14].i = "return"
      /\ p[15].i = "lock" /\ p[16].i = "read" /\ p[17].i = "write" /\ p[18].i = "unlock"
      /\ p[19].i = "become"
  BY Open2Ops
<1>3. /\ p[4] = Write({}, {})
      /\ p[8] = Write(c \cap {"EEE", "PAUSE"}, {"LINK_DROP", "EEE", "PAUSE"})
      /\ p[11] = Toggle("STATS") /\ p[12] = Answer("STATS")
      /\ p[17] = Write(c \cap {"LOOPBACK"}, {"LOOPBACK"})
  BY Open2Is
<1> HIDE DEF p
<1>4. \A k \in 1 .. 19 : p[k].i \in Kinds("rtnl")
  BY <1>2 DEF Kinds, Asks
<1>5. \A k \in 1 .. 19 : p[k].i = "write" => p[k].on \cap Toggles = {} /\ p[k].off \cap Toggles = {}
  <2>1. /\ p[4].on = {} /\ p[4].off = {}
        /\ p[8].on = (c \cap {"EEE", "PAUSE"}) /\ p[8].off = {"LINK_DROP", "EEE", "PAUSE"}
        /\ p[17].on = (c \cap {"LOOPBACK"}) /\ p[17].off = {"LOOPBACK"}
    BY <1>3, OpOf
  <2>2. p[4].on \cap Toggles = {} /\ p[4].off \cap Toggles = {}
    BY <2>1 DEF Toggles, States1x
  <2>3. p[8].on \cap Toggles = {} /\ p[8].off \cap Toggles = {}
    BY <2>1 DEF Toggles, States1x
  <2>4. p[17].on \cap Toggles = {} /\ p[17].off \cap Toggles = {}
    BY <2>1 DEF Toggles, States1x
  <2> QED BY <1>2, <2>2, <2>3, <2>4
<1>6. \A k \in 1 .. 19 :
        /\ p[k].i \in {"toggle"} \cup Asks => p[k].bit \in BitsOf("rtnl")
        /\ p[k].i = "answer" => p[k] = Answer(p[k].bit)
        /\ p[k].i = "answer_or_not" => p[k] = AnswerOrNot(p[k].bit)
        /\ p[k].i \in Asks => k > 1 /\ p[k - 1].i = "toggle" /\ p[k - 1].bit = p[k].bit
        /\ p[k].i = "toggle" => k < 19 /\ p[k + 1].i \in Asks /\ p[k + 1].bit = p[k].bit
  <2>1. p[11].bit = "STATS" /\ p[12].bit = "STATS"
    BY <1>3, OpOf
  <2>2. \A k \in 1 .. 19 :
        /\ p[k].i = "toggle" => k = 11
        /\ p[k].i \in Asks => k = 12
        /\ p[k].i # "answer_or_not"
    BY <1>2 DEF Asks
  <2>3. "STATS" \in BitsOf("rtnl")
    BY DEF BitsOf
  <2>4. 12 > 1 /\ p[12 - 1].i = "toggle" /\ p[12 - 1].bit = p[12].bit
    BY <1>2, <2>1
  <2>5. p[12] = Answer(p[12].bit) /\ "answer" \in Asks
    BY <1>3, <2>1 DEF Asks
  <2>6. p[11 + 1].i \in Asks /\ p[11 + 1].bit = p[11].bit
    BY <1>2, <2>1, <2>5
  <2> QED BY <2>1, <2>2, <2>3, <2>4, <2>5, <2>6 DEF Asks
<1>7. \A k \in 1 .. 19 : p[k].i # "until_set"
  BY <1>2
<1>8. \A k \in 1 .. 19 : ~CallsNext(p, k)
  <2>1. \A j \in 1 .. 19 : p[j].i # "rpc_call"
    BY <1>2
  <2> QED BY <1>1, <2>1 DEF CallsNext
<1>9. Plan(p, "rtnl")
  BY <1>1, <1>4, <1>5, <1>6, <1>7, <1>8 DEF Plan, Asks
<1> QED BY <1>9 DEF p

LEMMA Drop1Plan ==
    Plan(Drop1, "rtnl")
<1> DEFINE p == Drop1
<1>1. Len(p) = 9
  BY Drop1Is
<1>2. /\ p[1].i = "become" /\ p[2].i = "become" /\ p[3].i = "lock" /\ p[4].i = "read"
      /\ p[5].i = "write" /\ p[6].i = "read" /\ p[7].i = "write" /\ p[8].i = "unlock"
      /\ p[9].i = "become"
  BY Drop1Ops
<1>3. /\ p[5] = Write({}, {"SPEED"})
      /\ p[7] = Write({"DEINIT", "DIRTY_WAKE"}, States1x \cup {"DIRTY_WAKE"})
  BY Drop1Is
<1> HIDE DEF p
<1>4. \A k \in 1 .. 9 : p[k].i \in Kinds("rtnl")
  BY <1>2 DEF Kinds, Asks
<1>5. \A k \in 1 .. 9 : p[k].i = "write" => p[k].on \cap Toggles = {} /\ p[k].off \cap Toggles = {}
  <2>1. /\ p[5].on = {} /\ p[5].off = {"SPEED"}
        /\ p[7].on = {"DEINIT", "DIRTY_WAKE"} /\ p[7].off = (States1x \cup {"DIRTY_WAKE"})
    BY <1>3, OpOf
  <2>2. p[5].on \cap Toggles = {} /\ p[5].off \cap Toggles = {}
    BY <2>1 DEF Toggles, States1x
  <2>3. p[7].on \cap Toggles = {} /\ p[7].off \cap Toggles = {}
    BY <2>1 DEF Toggles, States1x
  <2> QED BY <1>2, <2>2, <2>3
<1>6. \A k \in 1 .. 9 : p[k].i \notin {"toggle", "answer", "answer_or_not"} \cup Asks
  BY <1>2 DEF Asks
<1>7. \A k \in 1 .. 9 : p[k].i # "until_set"
  BY <1>2
<1>8. \A k \in 1 .. 9 : ~CallsNext(p, k)
  <2>1. \A j \in 1 .. 9 : p[j].i # "rpc_call"
    BY <1>2
  <2> QED BY <1>1, <2>1 DEF CallsNext
<1>9. Plan(p, "rtnl")
  BY <1>1, <1>4, <1>5, <1>6, <1>7, <1>8 DEF Plan, Asks
<1> QED BY <1>9 DEF p

LEMMA Drop2Plan ==
    Plan(Drop2, "rtnl")
<1> DEFINE p == Drop2
<1>1. Len(p) = 7
  BY Drop2Is
<1>2. /\ p[1].i = "become" /\ p[2].i = "become" /\ p[3].i = "lock" /\ p[4].i = "read"
      /\ p[5].i = "write" /\ p[6].i = "unlock" /\ p[7].i = "become"
  BY Drop2Ops
<1>3. /\ p[5] = Write({"LINK_DROP"}, {})
  BY Drop2Is
<1> HIDE DEF p
<1>4. \A k \in 1 .. 7 : p[k].i \in Kinds("rtnl")
  BY <1>2 DEF Kinds, Asks
<1>5. \A k \in 1 .. 7 : p[k].i = "write" => p[k].on \cap Toggles = {} /\ p[k].off \cap Toggles = {}
  <2>1. /\ p[5].on = {"LINK_DROP"} /\ p[5].off = {}
    BY <1>3, OpOf
  <2>2. p[5].on \cap Toggles = {} /\ p[5].off \cap Toggles = {}
    BY <2>1 DEF Toggles, States1x
  <2> QED BY <1>2, <2>2
<1>6. \A k \in 1 .. 7 : p[k].i \notin {"toggle", "answer", "answer_or_not"} \cup Asks
  BY <1>2 DEF Asks
<1>7. \A k \in 1 .. 7 : p[k].i # "until_set"
  BY <1>2
<1>8. \A k \in 1 .. 7 : ~CallsNext(p, k)
  <2>1. \A j \in 1 .. 7 : p[j].i # "rpc_call"
    BY <1>2
  <2> QED BY <1>1, <2>1 DEF CallsNext
<1>9. Plan(p, "rtnl")
  BY <1>1, <1>4, <1>5, <1>6, <1>7, <1>8 DEF Plan, Asks
<1> QED BY <1>9 DEF p

LEMMA Arm1Plan ==
    Plan(Arm1, "rtnl")
<1> DEFINE p == Arm1
<1>1. Len(p) = 17
  BY Arm1Is
<1>2. /\ p[1].i = "become" /\ p[2].i = "become" /\ p[3].i = "lock" /\ p[4].i = "read"
      /\ p[5].i = "write" /\ p[6].i = "read" /\ p[7].i = "write" /\ p[8].i = "unlock"
      /\ p[9].i = "rpc_wait" /\ p[10].i = "rpc_call" /\ p[11].i = "rpc_wait"
      /\ p[12].i = "rpc_call" /\ p[13].i = "read" /\ p[14].i = "write" /\ p[15].i = "read"
      /\ p[16].i = "write" /\ p[17].i = "become"
  BY Arm1Ops
<1>3. /\ p[5] = Write({}, {"SPEED"})
      /\ p[7] = Write({"DEINIT", "DIRTY_WAKE"}, States1x \cup {"DIRTY_WAKE"})
      /\ p[14] = Write({}, {"SPEED"})
      /\ p[16] = Write({"POWER", "DIRTY_WAKE"}, States1x \cup {"DIRTY_WAKE"})
  BY Arm1Is
<1> HIDE DEF p
<1>4. \A k \in 1 .. 17 : p[k].i \in Kinds("rtnl")
  BY <1>2 DEF Kinds, Asks
<1>5. \A k \in 1 .. 17 : p[k].i = "write" => p[k].on \cap Toggles = {} /\ p[k].off \cap Toggles = {}
  <2>1. /\ p[5].on = {} /\ p[5].off = {"SPEED"}
        /\ p[7].on = {"DEINIT", "DIRTY_WAKE"} /\ p[7].off = (States1x \cup {"DIRTY_WAKE"})
        /\ p[14].on = {} /\ p[14].off = {"SPEED"}
        /\ p[16].on = {"POWER", "DIRTY_WAKE"} /\ p[16].off = (States1x \cup {"DIRTY_WAKE"})
    BY <1>3, OpOf
  <2>2. p[5].on \cap Toggles = {} /\ p[5].off \cap Toggles = {}
    BY <2>1 DEF Toggles, States1x
  <2>3. p[7].on \cap Toggles = {} /\ p[7].off \cap Toggles = {}
    BY <2>1 DEF Toggles, States1x
  <2>4. p[14].on \cap Toggles = {} /\ p[14].off \cap Toggles = {}
    BY <2>1 DEF Toggles, States1x
  <2>5. p[16].on \cap Toggles = {} /\ p[16].off \cap Toggles = {}
    BY <2>1 DEF Toggles, States1x
  <2> QED BY <1>2, <2>2, <2>3, <2>4, <2>5
<1>6. \A k \in 1 .. 17 : p[k].i \notin {"toggle", "answer", "answer_or_not"} \cup Asks
  BY <1>2 DEF Asks
<1>7. \A k \in 1 .. 17 : p[k].i # "until_set"
  BY <1>2
<1>8. \A k \in 1 .. 17 : CallsNext(p, k) => k > 1 /\ p[k - 1].i \in {"rpc_wait", "read", "write"}
  <2> SUFFICES ASSUME NEW k \in 1 .. 17, NEW j \in k .. 17, p[j].i = "rpc_call",
                          \A i \in k .. j - 1 : p[i].i \in {"read", "write"}
                   PROVE  k > 1 /\ p[k - 1].i \in {"rpc_wait", "read", "write"}
    BY <1>1 DEF CallsNext
  <2>1. j = 10 \/ j = 12
    BY <1>2
  <2>2. j = 10 => k \in 10 .. 10
    <3> SUFFICES ASSUME j = 10, k < 10 PROVE FALSE
      OBVIOUS
    <3>1. 9 \in k .. j - 1
      OBVIOUS
    <3>2. p[9].i \in {"read", "write"}
      BY <3>1
    <3> QED BY <1>2, <3>2
  <2>3. j = 12 => k \in 12 .. 12
    <3> SUFFICES ASSUME j = 12, k < 12 PROVE FALSE
      OBVIOUS
    <3>1. 11 \in k .. j - 1
      OBVIOUS
    <3>2. p[11].i \in {"read", "write"}
      BY <3>1
    <3> QED BY <1>2, <3>2
  <2>4. k \in 10 .. 10 \/ k \in 12 .. 12
    BY <2>1, <2>2, <2>3
  <2> QED BY <1>2, <2>4
<1>9. Plan(p, "rtnl")
  BY <1>1, <1>4, <1>5, <1>6, <1>7, <1>8 DEF Plan, Asks
<1> QED BY <1>9 DEF p

LEMMA Arm2Plan ==
    Plan(Arm2, "rtnl")
<1> DEFINE p == Arm2
<1>1. Len(p) = 19
  BY Arm2Is
<1>2. /\ p[1].i = "become" /\ p[2].i = "become" /\ p[3].i = "lock" /\ p[4].i = "read"
      /\ p[5].i = "write" /\ p[6].i = "unlock" /\ p[7].i = "rpc_wait" /\ p[8].i = "read"
      /\ p[9].i = "write" /\ p[10].i = "rpc_call" /\ p[11].i = "write"
      /\ p[12].i = "until_set" /\ p[13].i = "rpc_wait" /\ p[14].i = "read"
      /\ p[15].i = "write" /\ p[16].i = "rpc_call" /\ p[17].i = "write"
      /\ p[18].i = "until_set" /\ p[19].i = "become"
  BY Arm2Ops
<1>3. /\ p[5] = Write({"LINK_DROP"}, {}) /\ p[9] = Write({}, {"PROXY", "LINK_DROP"})
      /\ p[11] = Write({"PROXY"}, {}) /\ p[12] = UntilSet("PROXY")
      /\ p[15] = Write({}, {"PROXY", "WOL"}) /\ p[17] = Write({"WOL"}, {})
      /\ p[18] = UntilSet("WOL")
  BY Arm2Is
<1> HIDE DEF p
<1>4. \A k \in 1 .. 19 : p[k].i \in Kinds("rtnl")
  BY <1>2 DEF Kinds, Asks
<1>5. \A k \in 1 .. 19 : p[k].i = "write" => p[k].on \cap Toggles = {} /\ p[k].off \cap Toggles = {}
  <2>1. /\ p[5].on = {"LINK_DROP"} /\ p[5].off = {}
        /\ p[9].on = {} /\ p[9].off = {"PROXY", "LINK_DROP"}
        /\ p[11].on = {"PROXY"} /\ p[11].off = {}
        /\ p[15].on = {} /\ p[15].off = {"PROXY", "WOL"}
        /\ p[17].on = {"WOL"} /\ p[17].off = {}
    BY <1>3, OpOf
  <2>2. p[5].on \cap Toggles = {} /\ p[5].off \cap Toggles = {}
    BY <2>1 DEF Toggles, States1x
  <2>3. p[9].on \cap Toggles = {} /\ p[9].off \cap Toggles = {}
    BY <2>1 DEF Toggles, States1x
  <2>4. p[11].on \cap Toggles = {} /\ p[11].off \cap Toggles = {}
    BY <2>1 DEF Toggles, States1x
  <2>5. p[15].on \cap Toggles = {} /\ p[15].off \cap Toggles = {}
    BY <2>1 DEF Toggles, States1x
  <2>6. p[17].on \cap Toggles = {} /\ p[17].off \cap Toggles = {}
    BY <2>1 DEF Toggles, States1x
  <2> QED BY <1>2, <2>2, <2>3, <2>4, <2>5, <2>6
<1>6. \A k \in 1 .. 19 : p[k].i \notin {"toggle", "answer", "answer_or_not"} \cup Asks
  BY <1>2 DEF Asks
<1>7. \A k \in 1 .. 19 : p[k].i = "until_set" => p[k].bit \in {"PROXY", "WOL"}
  <2>1. p[12].bit = "PROXY" /\ p[18].bit = "WOL"
    BY <1>3, OpOf
  <2> QED BY <1>2, <2>1
<1>8. \A k \in 1 .. 19 : CallsNext(p, k) => k > 1 /\ p[k - 1].i \in {"rpc_wait", "read", "write"}
  <2> SUFFICES ASSUME NEW k \in 1 .. 19, NEW j \in k .. 19, p[j].i = "rpc_call",
                          \A i \in k .. j - 1 : p[i].i \in {"read", "write"}
                   PROVE  k > 1 /\ p[k - 1].i \in {"rpc_wait", "read", "write"}
    BY <1>1 DEF CallsNext
  <2>1. j = 10 \/ j = 16
    BY <1>2
  <2>2. j = 10 => k \in 8 .. 10
    <3> SUFFICES ASSUME j = 10, k < 8 PROVE FALSE
      OBVIOUS
    <3>1. 7 \in k .. j - 1
      OBVIOUS
    <3>2. p[7].i \in {"read", "write"}
      BY <3>1
    <3> QED BY <1>2, <3>2
  <2>3. j = 16 => k \in 14 .. 16
    <3> SUFFICES ASSUME j = 16, k < 14 PROVE FALSE
      OBVIOUS
    <3>1. 13 \in k .. j - 1
      OBVIOUS
    <3>2. p[13].i \in {"read", "write"}
      BY <3>1
    <3> QED BY <1>2, <3>2
  <2>4. k \in 8 .. 10 \/ k \in 14 .. 16
    BY <2>1, <2>2, <2>3
  <2> QED BY <1>2, <2>4
<1>9. Plan(p, "rtnl")
  BY <1>1, <1>4, <1>5, <1>6, <1>7, <1>8 DEF Plan, Asks
<1> QED BY <1>9 DEF p

LEMMA Stats1Plan ==
    ASSUME NEW t \in {"rtnl", "service"}
    PROVE  Plan(Stats1, t)
<1> DEFINE p == Stats1
<1>1. Len(p) = 3
  BY Stats1Is
<1>2. /\ p[1].i = "lock" /\ p[2].i = "account" /\ p[3].i = "unlock"
  BY Stats1Ops
<1> HIDE DEF p
<1>3. \A k \in 1 .. 3 : p[k].i \in Kinds(t)
  BY <1>2 DEF Kinds, Asks
<1>4. \A k \in 1 .. 3 : p[k].i # "write"
  BY <1>2
<1>5. \A k \in 1 .. 3 : p[k].i \notin {"toggle", "answer", "answer_or_not"} \cup Asks
  BY <1>2 DEF Asks
<1>6. \A k \in 1 .. 3 : p[k].i # "until_set"
  BY <1>2
<1>7. \A k \in 1 .. 3 : ~CallsNext(p, k)
  <2>1. \A j \in 1 .. 3 : p[j].i # "rpc_call"
    BY <1>2
  <2> QED BY <1>1, <2>1 DEF CallsNext
<1>8. Plan(p, t)
  BY <1>1, <1>3, <1>4, <1>5, <1>6, <1>7 DEF Plan, Asks
<1> QED BY <1>8 DEF p

LEMMA Stats2Plan ==
    ASSUME NEW t \in {"rtnl", "service"}
    PROVE  Plan(Stats2, t)
<1> DEFINE p == Stats2
<1>1. Len(p) = 6
  BY Stats2Is
<1>2. /\ p[1].i = "lock" /\ p[2].i = "read" /\ p[3].i = "toggle" /\ p[4].i = "answer"
      /\ p[5].i = "account" /\ p[6].i = "unlock"
  BY Stats2Ops
<1>3. /\ p[3] = Toggle("STATS") /\ p[4] = Answer("STATS")
  BY Stats2Is
<1> HIDE DEF p
<1>4. \A k \in 1 .. 6 : p[k].i \in Kinds(t)
  BY <1>2 DEF Kinds, Asks
<1>5. \A k \in 1 .. 6 : p[k].i # "write"
  BY <1>2
<1>6. \A k \in 1 .. 6 :
        /\ p[k].i \in {"toggle"} \cup Asks => p[k].bit \in BitsOf(t)
        /\ p[k].i = "answer" => p[k] = Answer(p[k].bit)
        /\ p[k].i = "answer_or_not" => p[k] = AnswerOrNot(p[k].bit)
        /\ p[k].i \in Asks => k > 1 /\ p[k - 1].i = "toggle" /\ p[k - 1].bit = p[k].bit
        /\ p[k].i = "toggle" => k < 6 /\ p[k + 1].i \in Asks /\ p[k + 1].bit = p[k].bit
  <2>1. p[3].bit = "STATS" /\ p[4].bit = "STATS"
    BY <1>3, OpOf
  <2>2. \A k \in 1 .. 6 :
        /\ p[k].i = "toggle" => k = 3
        /\ p[k].i \in Asks => k = 4
        /\ p[k].i # "answer_or_not"
    BY <1>2 DEF Asks
  <2>3. "STATS" \in BitsOf(t)
    BY DEF BitsOf
  <2>4. 4 > 1 /\ p[4 - 1].i = "toggle" /\ p[4 - 1].bit = p[4].bit
    BY <1>2, <2>1
  <2>5. p[4] = Answer(p[4].bit) /\ "answer" \in Asks
    BY <1>3, <2>1 DEF Asks
  <2>6. p[3 + 1].i \in Asks /\ p[3 + 1].bit = p[3].bit
    BY <1>2, <2>1, <2>5
  <2> QED BY <2>1, <2>2, <2>3, <2>4, <2>5, <2>6 DEF Asks
<1>7. \A k \in 1 .. 6 : p[k].i # "until_set"
  BY <1>2
<1>8. \A k \in 1 .. 6 : ~CallsNext(p, k)
  <2>1. \A j \in 1 .. 6 : p[j].i # "rpc_call"
    BY <1>2
  <2> QED BY <1>1, <2>1 DEF CallsNext
<1>9. Plan(p, t)
  BY <1>1, <1>4, <1>5, <1>6, <1>7, <1>8 DEF Plan, Asks
<1> QED BY <1>9 DEF p

LEMMA GetEee2Plan ==
    Plan(GetEee2, "rtnl")
<1> DEFINE p == GetEee2
<1>1. Len(p) = 4
  BY GetEee2Is
<1>2. /\ p[1].i = "lock" /\ p[2].i = "try" /\ p[3].i = "try" /\ p[4].i = "unlock"
  BY GetEee2Ops
<1> HIDE DEF p
<1>3. \A k \in 1 .. 4 : p[k].i \in Kinds("rtnl")
  BY <1>2 DEF Kinds, Asks
<1>4. \A k \in 1 .. 4 : p[k].i # "write"
  BY <1>2
<1>5. \A k \in 1 .. 4 : p[k].i \notin {"toggle", "answer", "answer_or_not"} \cup Asks
  BY <1>2 DEF Asks
<1>6. \A k \in 1 .. 4 : p[k].i # "until_set"
  BY <1>2
<1>7. \A k \in 1 .. 4 : ~CallsNext(p, k)
  <2>1. \A j \in 1 .. 4 : p[j].i # "rpc_call"
    BY <1>2
  <2> QED BY <1>1, <2>1 DEF CallsNext
<1>8. Plan(p, "rtnl")
  BY <1>1, <1>3, <1>4, <1>5, <1>6, <1>7 DEF Plan, Asks
<1> QED BY <1>8 DEF p

LEMMA SetEee2Plan ==
    ASSUME NEW on \in BOOLEAN, NEW c
    PROVE  Plan(SetEee2(on, c), "rtnl")
<1> DEFINE p == SetEee2(on, c)
<1>1. Len(p) = 9
  BY SetEee2Is
<1>2. /\ p[1].i = "lock" /\ p[2].i = "try" /\ p[3].i = "try" /\ p[4].i = "unlock_check"
      /\ p[5].i = "cfg" /\ p[6].i = "lock" /\ p[7].i = "read" /\ p[8].i = "write"
      /\ p[9].i = "unlock"
  BY SetEee2Ops
<1>3. /\ p[8] = Write(IF on THEN {"EEE"} ELSE {}, {"EEE"})
  BY SetEee2Is
<1> HIDE DEF p
<1>4. \A k \in 1 .. 9 : p[k].i \in Kinds("rtnl")
  BY <1>2 DEF Kinds, Asks
<1>5. \A k \in 1 .. 9 : p[k].i = "write" => p[k].on \cap Toggles = {} /\ p[k].off \cap Toggles = {}
  <2>1. /\ p[8].on = (IF on THEN {"EEE"} ELSE {}) /\ p[8].off = {"EEE"}
    BY <1>3, OpOf
  <2>2. p[8].on \cap Toggles = {} /\ p[8].off \cap Toggles = {}
    BY <2>1 DEF Toggles, States1x
  <2> QED BY <1>2, <2>2
<1>6. \A k \in 1 .. 9 : p[k].i \notin {"toggle", "answer", "answer_or_not"} \cup Asks
  BY <1>2 DEF Asks
<1>7. \A k \in 1 .. 9 : p[k].i # "until_set"
  BY <1>2
<1>8. \A k \in 1 .. 9 : ~CallsNext(p, k)
  <2>1. \A j \in 1 .. 9 : p[j].i # "rpc_call"
    BY <1>2
  <2> QED BY <1>1, <2>1 DEF CallsNext
<1>9. Plan(p, "rtnl")
  BY <1>1, <1>4, <1>5, <1>6, <1>7, <1>8 DEF Plan, Asks
<1> QED BY <1>9 DEF p

LEMMA Pause2Plan ==
    ASSUME NEW c
    PROVE  Plan(Pause2(c), "rtnl")
<1> DEFINE p == Pause2(c)
<1>1. Len(p) = 4
  BY Pause2Is
<1>2. /\ p[1].i = "lock" /\ p[2].i = "read" /\ p[3].i = "write" /\ p[4].i = "unlock"
  BY Pause2Ops
<1>3. /\ p[3] = Write(c \cap {"PAUSE"}, {"PAUSE"})
  BY Pause2Is
<1> HIDE DEF p
<1>4. \A k \in 1 .. 4 : p[k].i \in Kinds("rtnl")
  BY <1>2 DEF Kinds, Asks
<1>5. \A k \in 1 .. 4 : p[k].i = "write" => p[k].on \cap Toggles = {} /\ p[k].off \cap Toggles = {}
  <2>1. /\ p[3].on = (c \cap {"PAUSE"}) /\ p[3].off = {"PAUSE"}
    BY <1>3, OpOf
  <2>2. p[3].on \cap Toggles = {} /\ p[3].off \cap Toggles = {}
    BY <2>1 DEF Toggles, States1x
  <2> QED BY <1>2, <2>2
<1>6. \A k \in 1 .. 4 : p[k].i \notin {"toggle", "answer", "answer_or_not"} \cup Asks
  BY <1>2 DEF Asks
<1>7. \A k \in 1 .. 4 : p[k].i # "until_set"
  BY <1>2
<1>8. \A k \in 1 .. 4 : ~CallsNext(p, k)
  <2>1. \A j \in 1 .. 4 : p[j].i # "rpc_call"
    BY <1>2
  <2> QED BY <1>1, <2>1 DEF CallsNext
<1>9. Plan(p, "rtnl")
  BY <1>1, <1>4, <1>5, <1>6, <1>7, <1>8 DEF Plan, Asks
<1> QED BY <1>9 DEF p

LEMMA Loop2Plan ==
    ASSUME NEW c
    PROVE  Plan(Loop2(c), "rtnl")
<1> DEFINE p == Loop2(c)
<1>1. Len(p) = 5
  BY Loop2Is
<1>2. /\ p[1].i = "lock" /\ p[2].i = "read" /\ p[3].i = "write" /\ p[4].i = "unlock"
      /\ p[5].i = "cfg"
  BY Loop2Ops
<1>3. /\ p[3] = Write(c \cap {"LOOPBACK"}, {"LOOPBACK"})
  BY Loop2Is
<1> HIDE DEF p
<1>4. \A k \in 1 .. 5 : p[k].i \in Kinds("rtnl")
  BY <1>2 DEF Kinds, Asks
<1>5. \A k \in 1 .. 5 : p[k].i = "write" => p[k].on \cap Toggles = {} /\ p[k].off \cap Toggles = {}
  <2>1. /\ p[3].on = (c \cap {"LOOPBACK"}) /\ p[3].off = {"LOOPBACK"}
    BY <1>3, OpOf
  <2>2. p[3].on \cap Toggles = {} /\ p[3].off \cap Toggles = {}
    BY <2>1 DEF Toggles, States1x
  <2> QED BY <1>2, <2>2
<1>6. \A k \in 1 .. 5 : p[k].i \notin {"toggle", "answer", "answer_or_not"} \cup Asks
  BY <1>2 DEF Asks
<1>7. \A k \in 1 .. 5 : p[k].i # "until_set"
  BY <1>2
<1>8. \A k \in 1 .. 5 : ~CallsNext(p, k)
  <2>1. \A j \in 1 .. 5 : p[j].i # "rpc_call"
    BY <1>2
  <2> QED BY <1>1, <2>1 DEF CallsNext
<1>9. Plan(p, "rtnl")
  BY <1>1, <1>4, <1>5, <1>6, <1>7, <1>8 DEF Plan, Asks
<1> QED BY <1>9 DEF p

LEMMA Nway2Plan ==
    Plan(Nway2, "rtnl")
<1> DEFINE p == Nway2
<1>1. Len(p) = 4
  BY Nway2Is
<1>2. /\ p[1].i = "lock" /\ p[2].i = "read" /\ p[3].i = "write" /\ p[4].i = "unlock"
  BY Nway2Ops
<1>3. /\ p[3] = Write({"RECONNECT"}, {})
  BY Nway2Is
<1> HIDE DEF p
<1>4. \A k \in 1 .. 4 : p[k].i \in Kinds("rtnl")
  BY <1>2 DEF Kinds, Asks
<1>5. \A k \in 1 .. 4 : p[k].i = "write" => p[k].on \cap Toggles = {} /\ p[k].off \cap Toggles = {}
  <2>1. /\ p[3].on = {"RECONNECT"} /\ p[3].off = {}
    BY <1>3, OpOf
  <2>2. p[3].on \cap Toggles = {} /\ p[3].off \cap Toggles = {}
    BY <2>1 DEF Toggles, States1x
  <2> QED BY <1>2, <2>2
<1>6. \A k \in 1 .. 4 : p[k].i \notin {"toggle", "answer", "answer_or_not"} \cup Asks
  BY <1>2 DEF Asks
<1>7. \A k \in 1 .. 4 : p[k].i # "until_set"
  BY <1>2
<1>8. \A k \in 1 .. 4 : ~CallsNext(p, k)
  <2>1. \A j \in 1 .. 4 : p[j].i # "rpc_call"
    BY <1>2
  <2> QED BY <1>1, <2>1 DEF CallsNext
<1>9. Plan(p, "rtnl")
  BY <1>1, <1>4, <1>5, <1>6, <1>7, <1>8 DEF Plan, Asks
<1> QED BY <1>9 DEF p

LEMMA Temp2Plan ==
    Plan(Temp2, "user")
<1> DEFINE p == Temp2
<1>1. Len(p) = 6
  BY Temp2Is
<1>2. /\ p[1].i = "lock" /\ p[2].i = "read" /\ p[3].i = "toggle"
      /\ p[4].i = "answer_or_not" /\ p[5].i = "try" /\ p[6].i = "unlock"
  BY Temp2Ops
<1>3. /\ p[3] = Toggle("TEMP") /\ p[4] = AnswerOrNot("TEMP")
  BY Temp2Is
<1> HIDE DEF p
<1>4. \A k \in 1 .. 6 : p[k].i \in Kinds("user")
  BY <1>2 DEF Kinds, Asks
<1>5. \A k \in 1 .. 6 : p[k].i # "write"
  BY <1>2
<1>6. \A k \in 1 .. 6 :
        /\ p[k].i \in {"toggle"} \cup Asks => p[k].bit \in BitsOf("user")
        /\ p[k].i = "answer" => p[k] = Answer(p[k].bit)
        /\ p[k].i = "answer_or_not" => p[k] = AnswerOrNot(p[k].bit)
        /\ p[k].i \in Asks => k > 1 /\ p[k - 1].i = "toggle" /\ p[k - 1].bit = p[k].bit
        /\ p[k].i = "toggle" => k < 6 /\ p[k + 1].i \in Asks /\ p[k + 1].bit = p[k].bit
  <2>1. p[3].bit = "TEMP" /\ p[4].bit = "TEMP"
    BY <1>3, OpOf
  <2>2. \A k \in 1 .. 6 :
        /\ p[k].i = "toggle" => k = 3
        /\ p[k].i \in Asks => k = 4
        /\ p[k].i # "answer"
    BY <1>2 DEF Asks
  <2>3. "TEMP" \in BitsOf("user")
    BY DEF BitsOf
  <2>4. 4 > 1 /\ p[4 - 1].i = "toggle" /\ p[4 - 1].bit = p[4].bit
    BY <1>2, <2>1
  <2>5. p[4] = AnswerOrNot(p[4].bit) /\ "answer_or_not" \in Asks
    BY <1>3, <2>1 DEF Asks
  <2>6. p[3 + 1].i \in Asks /\ p[3 + 1].bit = p[3].bit
    BY <1>2, <2>1, <2>5
  <2> QED BY <2>1, <2>2, <2>3, <2>4, <2>5, <2>6 DEF Asks
<1>7. \A k \in 1 .. 6 : p[k].i # "until_set"
  BY <1>2
<1>8. \A k \in 1 .. 6 : ~CallsNext(p, k)
  <2>1. \A j \in 1 .. 6 : p[j].i # "rpc_call"
    BY <1>2
  <2> QED BY <1>1, <2>1 DEF CallsNext
<1>9. Plan(p, "user")
  BY <1>1, <1>4, <1>5, <1>6, <1>7, <1>8 DEF Plan, Asks
<1> QED BY <1>9 DEF p

LEMMA Cable2Plan ==
    Plan(Cable2, "user")
<1> DEFINE p == Cable2
<1>1. Len(p) = 3
  BY Cable2Is
<1>2. /\ p[1].i = "lock" /\ p[2].i = "try" /\ p[3].i = "unlock"
  BY Cable2Ops
<1> HIDE DEF p
<1>3. \A k \in 1 .. 3 : p[k].i \in Kinds("user")
  BY <1>2 DEF Kinds, Asks
<1>4. \A k \in 1 .. 3 : p[k].i # "write"
  BY <1>2
<1>5. \A k \in 1 .. 3 : p[k].i \notin {"toggle", "answer", "answer_or_not"} \cup Asks
  BY <1>2 DEF Asks
<1>6. \A k \in 1 .. 3 : p[k].i # "until_set"
  BY <1>2
<1>7. \A k \in 1 .. 3 : ~CallsNext(p, k)
  <2>1. \A j \in 1 .. 3 : p[j].i # "rpc_call"
    BY <1>2
  <2> QED BY <1>1, <2>1 DEF CallsNext
<1>8. Plan(p, "user")
  BY <1>1, <1>3, <1>4, <1>5, <1>6, <1>7 DEF Plan, Asks
<1> QED BY <1>8 DEF p

LEMMA Request2Plan ==
    Plan(Request2, "user")
<1> DEFINE p == Request2
<1>1. Len(p) = 6
  BY Request2Is
<1>2. /\ p[1].i = "lock" /\ p[2].i = "upload" /\ p[3].i = "read" /\ p[4].i = "toggle"
      /\ p[5].i = "answer" /\ p[6].i = "unlock"
  BY Request2Ops
<1>3. /\ p[4] = Toggle("REQUEST") /\ p[5] = Answer("REQUEST")
  BY Request2Is
<1> HIDE DEF p
<1>4. \A k \in 1 .. 6 : p[k].i \in Kinds("user")
  BY <1>2 DEF Kinds, Asks
<1>5. \A k \in 1 .. 6 : p[k].i # "write"
  BY <1>2
<1>6. \A k \in 1 .. 6 :
        /\ p[k].i \in {"toggle"} \cup Asks => p[k].bit \in BitsOf("user")
        /\ p[k].i = "answer" => p[k] = Answer(p[k].bit)
        /\ p[k].i = "answer_or_not" => p[k] = AnswerOrNot(p[k].bit)
        /\ p[k].i \in Asks => k > 1 /\ p[k - 1].i = "toggle" /\ p[k - 1].bit = p[k].bit
        /\ p[k].i = "toggle" => k < 6 /\ p[k + 1].i \in Asks /\ p[k + 1].bit = p[k].bit
  <2>1. p[4].bit = "REQUEST" /\ p[5].bit = "REQUEST"
    BY <1>3, OpOf
  <2>2. \A k \in 1 .. 6 :
        /\ p[k].i = "toggle" => k = 4
        /\ p[k].i \in Asks => k = 5
        /\ p[k].i # "answer_or_not"
    BY <1>2 DEF Asks
  <2>3. "REQUEST" \in BitsOf("user")
    BY DEF BitsOf
  <2>4. 5 > 1 /\ p[5 - 1].i = "toggle" /\ p[5 - 1].bit = p[5].bit
    BY <1>2, <2>1
  <2>5. p[5] = Answer(p[5].bit) /\ "answer" \in Asks
    BY <1>3, <2>1 DEF Asks
  <2>6. p[4 + 1].i \in Asks /\ p[4 + 1].bit = p[4].bit
    BY <1>2, <2>1, <2>5
  <2> QED BY <2>1, <2>2, <2>3, <2>4, <2>5, <2>6 DEF Asks
<1>7. \A k \in 1 .. 6 : p[k].i # "until_set"
  BY <1>2
<1>8. \A k \in 1 .. 6 : ~CallsNext(p, k)
  <2>1. \A j \in 1 .. 6 : p[j].i # "rpc_call"
    BY <1>2
  <2> QED BY <1>1, <2>1 DEF CallsNext
<1>9. Plan(p, "user")
  BY <1>1, <1>4, <1>5, <1>6, <1>7, <1>8 DEF Plan, Asks
<1> QED BY <1>9 DEF p

\* Thread t is at the m-th instruction of p. Around a toggle it holds the lock or, as
\* rtnl in hw_init, is alone; a reset is that of the probe, or of an open.
Stands(t, p, m) ==
    /\ IsProgram(p) /\ m \in 1 .. Len(p) /\ todo[t] = Rest(p, m) /\ Plan(p, t)
    /\ p[m].i \in {"toggle"} \cup Asks => mutex = t \/ (t = "rtnl" /\ todo["service"] = <<>>)
    /\ p[m].i = "reset" =>
         /\ t = "rtnl"
         /\ \/ life = "absent"
            \/ mutex = "rtnl" /\ Down /\ m = 2 /\ (p = Open1 \/ \E c : p = Open2(c))

LEMMA Init1Stands ==
    ASSUME NEW m,
           Runs("rtnl", Init1, m, {}, {}), life = "absent"
    PROVE  Stands("rtnl", Init1, m)
<1> DEFINE p == Init1
<1>1. IsProgram(p) /\ Len(p) = 6
  BY Init1Is
<1>2. Plan(p, "rtnl")
  BY Init1Plan
<1>3. /\ p[1].i = "reset" /\ p[2].i = "ops" /\ p[3].i = "try" /\ p[4].i = "try"
      /\ p[5].i = "rpc_wait" /\ p[6].i = "become"
  BY Init1Ops
<1> HIDE DEF p
<1>4. m \in 1 .. 6
  BY <1>1 DEF Runs, p
<1>5. todo["rtnl"] = Rest(p, m) /\ (mutex = "rtnl" <=> m \in {})
  BY DEF Runs, p
<1>6. p[m].i \notin {"toggle"} \cup Asks
  BY <1>3, <1>4 DEF Asks
<1>7. p[m].i = "reset" => m = 1
  BY <1>3, <1>4
<1>8. Stands("rtnl", p, m)
  BY <1>1, <1>2, <1>4, <1>5, <1>6, <1>7 DEF Stands
<1> QED BY <1>8 DEF p

LEMMA Init2Stands ==
    ASSUME NEW m,
           Runs("rtnl", Init2, m, {}, {}), life = "absent"
    PROVE  Stands("rtnl", Init2, m)
<1> DEFINE p == Init2
<1>1. IsProgram(p) /\ Len(p) = 5
  BY Init2Is
<1>2. Plan(p, "rtnl")
  BY Init2Plan
<1>3. /\ p[1].i = "reset" /\ p[2].i = "ops" /\ p[3].i = "try" /\ p[4].i = "try"
      /\ p[5].i = "become"
  BY Init2Ops
<1> HIDE DEF p
<1>4. m \in 1 .. 5
  BY <1>1 DEF Runs, p
<1>5. todo["rtnl"] = Rest(p, m) /\ (mutex = "rtnl" <=> m \in {})
  BY DEF Runs, p
<1>6. p[m].i \notin {"toggle"} \cup Asks
  BY <1>3, <1>4 DEF Asks
<1>7. p[m].i = "reset" => m = 1
  BY <1>3, <1>4
<1>8. Stands("rtnl", p, m)
  BY <1>1, <1>2, <1>4, <1>5, <1>6, <1>7 DEF Stands
<1> QED BY <1>8 DEF p

LEMMA Open1Stands ==
    ASSUME NEW m,
           Runs("rtnl", Open1, m, 2 .. 7, {4, 5, 9, 11}), Down
    PROVE  Stands("rtnl", Open1, m)
<1> DEFINE p == Open1
<1>1. IsProgram(p) /\ Len(p) = 15
  BY Open1Is
<1>2. Plan(p, "rtnl")
  BY Open1Plan
<1>3. /\ p[1].i = "lock" /\ p[2].i = "reset" /\ p[3].i = "read" /\ p[4].i = "try"
      /\ p[5].i = "write" /\ p[6].i = "return" /\ p[7].i = "unlock_check"
      /\ p[8].i = "read" /\ p[9].i = "write" /\ p[10].i = "read" /\ p[11].i = "write"
      /\ p[12].i = "no_link" /\ p[13].i = "account" /\ p[14].i = "return"
      /\ p[15].i = "become"
  BY Open1Ops
<1> HIDE DEF p
<1>4. m \in 1 .. 15
  BY <1>1 DEF Runs, p
<1>5. todo["rtnl"] = Rest(p, m) /\ (mutex = "rtnl" <=> m \in 2 .. 7)
  BY DEF Runs, p
<1>6. p[m].i \notin {"toggle"} \cup Asks
  BY <1>3, <1>4 DEF Asks
<1>7. p[m].i = "reset" => m = 2
  BY <1>3, <1>4
<1>8. p = Open1
  BY DEF p
<1>9. Stands("rtnl", p, m)
  BY <1>1, <1>2, <1>4, <1>5, <1>6, <1>7, <1>8 DEF Stands
<1> QED BY <1>9 DEF p

LEMMA Open2Stands ==
    ASSUME NEW c, NEW m,
           Runs("rtnl", Open2(c), m, (2 .. 6) \cup (16 .. 18), {4, 8, 11, 17}), todo["service"] = <<>>, Down
    PROVE  Stands("rtnl", Open2(c), m)
<1> DEFINE p == Open2(c)
<1>1. IsProgram(p) /\ Len(p) = 19
  BY Open2Is
<1>2. Plan(p, "rtnl")
  BY Open2Plan
<1>3. /\ p[1].i = "lock" /\ p[2].i = "reset" /\ p[3].i = "read" /\ p[4].i = "write"
      /\ p[5].i = "return" /\ p[6].i = "unlock_check" /\ p[7].i = "read"
      /\ p[8].i = "write" /\ p[9].i = "no_link" /\ p[10].i = "read" /\ p[11].i = "toggle"
      /\ p[12].i = "answer" /\ p[13].i = "account" /\ p[14].i = "return"
      /\ p[15].i = "lock" /\ p[16].i = "read" /\ p[17].i = "write" /\ p[18].i = "unlock"
      /\ p[19].i = "become"
  BY Open2Ops
<1> HIDE DEF p
<1>4. m \in 1 .. 19
  BY <1>1 DEF Runs, p
<1>5. todo["rtnl"] = Rest(p, m) /\ (mutex = "rtnl" <=> m \in (2 .. 6) \cup (16 .. 18))
  BY DEF Runs, p
<1>6. \A k \in 1 .. 19 :
        /\ p[k].i = "toggle" => k = 11
        /\ p[k].i = "answer" => k = 12
        /\ p[k].i # "answer_or_not"
        /\ p[k].i = "reset" => k = 2
  BY <1>3
<1>7. /\ p[m].i \in {"toggle"} \cup Asks => m \in {11, 12}
      /\ p[m].i = "reset" => m = 2
  <2>1. p[m].i \in {"toggle"} \cup Asks => m \in {11, 12}
    BY <1>4, <1>6 DEF Asks
  <2>2. p[m].i = "reset" => m = 2
    BY <1>4, <1>6
  <2> QED BY <2>1, <2>2
<1>8. p = Open2(c)
  BY DEF p
<1>9. Stands("rtnl", p, m)
  BY <1>1, <1>2, <1>4, <1>5, <1>6, <1>7, <1>8 DEF Stands
<1> QED BY <1>9 DEF p

LEMMA Drop1Stands ==
    ASSUME NEW m,
           Runs("rtnl", Drop1, m, 4 .. 8, {5, 7})
    PROVE  Stands("rtnl", Drop1, m)
<1> DEFINE p == Drop1
<1>1. IsProgram(p) /\ Len(p) = 9
  BY Drop1Is
<1>2. Plan(p, "rtnl")
  BY Drop1Plan
<1>3. /\ p[1].i = "become" /\ p[2].i = "become" /\ p[3].i = "lock" /\ p[4].i = "read"
      /\ p[5].i = "write" /\ p[6].i = "read" /\ p[7].i = "write" /\ p[8].i = "unlock"
      /\ p[9].i = "become"
  BY Drop1Ops
<1> HIDE DEF p
<1>4. m \in 1 .. 9
  BY <1>1 DEF Runs, p
<1>5. todo["rtnl"] = Rest(p, m) /\ (mutex = "rtnl" <=> m \in 4 .. 8)
  BY DEF Runs, p
<1>6. p[m].i \notin {"toggle"} \cup Asks
  BY <1>3, <1>4 DEF Asks
<1>7. p[m].i # "reset"
  BY <1>3, <1>4
<1>8. Stands("rtnl", p, m)
  BY <1>1, <1>2, <1>4, <1>5, <1>6, <1>7 DEF Stands
<1> QED BY <1>8 DEF p

LEMMA Drop2Stands ==
    ASSUME NEW m,
           Runs("rtnl", Drop2, m, 4 .. 6, {5})
    PROVE  Stands("rtnl", Drop2, m)
<1> DEFINE p == Drop2
<1>1. IsProgram(p) /\ Len(p) = 7
  BY Drop2Is
<1>2. Plan(p, "rtnl")
  BY Drop2Plan
<1>3. /\ p[1].i = "become" /\ p[2].i = "become" /\ p[3].i = "lock" /\ p[4].i = "read"
      /\ p[5].i = "write" /\ p[6].i = "unlock" /\ p[7].i = "become"
  BY Drop2Ops
<1> HIDE DEF p
<1>4. m \in 1 .. 7
  BY <1>1 DEF Runs, p
<1>5. todo["rtnl"] = Rest(p, m) /\ (mutex = "rtnl" <=> m \in 4 .. 6)
  BY DEF Runs, p
<1>6. p[m].i \notin {"toggle"} \cup Asks
  BY <1>3, <1>4 DEF Asks
<1>7. p[m].i # "reset"
  BY <1>3, <1>4
<1>8. Stands("rtnl", p, m)
  BY <1>1, <1>2, <1>4, <1>5, <1>6, <1>7 DEF Stands
<1> QED BY <1>8 DEF p

LEMMA Arm1Stands ==
    ASSUME NEW m,
           Runs("rtnl", Arm1, m, 4 .. 8, {5, 7, 14, 16})
    PROVE  Stands("rtnl", Arm1, m)
<1> DEFINE p == Arm1
<1>1. IsProgram(p) /\ Len(p) = 17
  BY Arm1Is
<1>2. Plan(p, "rtnl")
  BY Arm1Plan
<1>3. /\ p[1].i = "become" /\ p[2].i = "become" /\ p[3].i = "lock" /\ p[4].i = "read"
      /\ p[5].i = "write" /\ p[6].i = "read" /\ p[7].i = "write" /\ p[8].i = "unlock"
      /\ p[9].i = "rpc_wait" /\ p[10].i = "rpc_call" /\ p[11].i = "rpc_wait"
      /\ p[12].i = "rpc_call" /\ p[13].i = "read" /\ p[14].i = "write" /\ p[15].i = "read"
      /\ p[16].i = "write" /\ p[17].i = "become"
  BY Arm1Ops
<1> HIDE DEF p
<1>4. m \in 1 .. 17
  BY <1>1 DEF Runs, p
<1>5. todo["rtnl"] = Rest(p, m) /\ (mutex = "rtnl" <=> m \in 4 .. 8)
  BY DEF Runs, p
<1>6. p[m].i \notin {"toggle"} \cup Asks
  BY <1>3, <1>4 DEF Asks
<1>7. p[m].i # "reset"
  BY <1>3, <1>4
<1>8. Stands("rtnl", p, m)
  BY <1>1, <1>2, <1>4, <1>5, <1>6, <1>7 DEF Stands
<1> QED BY <1>8 DEF p

LEMMA Arm2Stands ==
    ASSUME NEW m,
           Runs("rtnl", Arm2, m, 4 .. 6, {5, 9, 10, 11, 15, 16, 17})
    PROVE  Stands("rtnl", Arm2, m)
<1> DEFINE p == Arm2
<1>1. IsProgram(p) /\ Len(p) = 19
  BY Arm2Is
<1>2. Plan(p, "rtnl")
  BY Arm2Plan
<1>3. /\ p[1].i = "become" /\ p[2].i = "become" /\ p[3].i = "lock" /\ p[4].i = "read"
      /\ p[5].i = "write" /\ p[6].i = "unlock" /\ p[7].i = "rpc_wait" /\ p[8].i = "read"
      /\ p[9].i = "write" /\ p[10].i = "rpc_call" /\ p[11].i = "write"
      /\ p[12].i = "until_set" /\ p[13].i = "rpc_wait" /\ p[14].i = "read"
      /\ p[15].i = "write" /\ p[16].i = "rpc_call" /\ p[17].i = "write"
      /\ p[18].i = "until_set" /\ p[19].i = "become"
  BY Arm2Ops
<1> HIDE DEF p
<1>4. m \in 1 .. 19
  BY <1>1 DEF Runs, p
<1>5. todo["rtnl"] = Rest(p, m) /\ (mutex = "rtnl" <=> m \in 4 .. 6)
  BY DEF Runs, p
<1>6. p[m].i \notin {"toggle"} \cup Asks
  BY <1>3, <1>4 DEF Asks
<1>7. p[m].i # "reset"
  BY <1>3, <1>4
<1>8. Stands("rtnl", p, m)
  BY <1>1, <1>2, <1>4, <1>5, <1>6, <1>7 DEF Stands
<1> QED BY <1>8 DEF p

LEMMA Stats1Stands ==
    ASSUME NEW t \in {"rtnl", "service"}, NEW m,
           Runs(t, Stats1, m, {2, 3}, {})
    PROVE  Stands(t, Stats1, m)
<1> DEFINE p == Stats1
<1>1. IsProgram(p) /\ Len(p) = 3
  BY Stats1Is
<1>2. Plan(p, t)
  BY Stats1Plan
<1>3. /\ p[1].i = "lock" /\ p[2].i = "account" /\ p[3].i = "unlock"
  BY Stats1Ops
<1> HIDE DEF p
<1>4. m \in 1 .. 3
  BY <1>1 DEF Runs, p
<1>5. todo[t] = Rest(p, m) /\ (mutex = t <=> m \in {2, 3})
  BY DEF Runs, p
<1>6. p[m].i \notin {"toggle"} \cup Asks
  BY <1>3, <1>4 DEF Asks
<1>7. p[m].i # "reset"
  BY <1>3, <1>4
<1>8. Stands(t, p, m)
  BY <1>1, <1>2, <1>4, <1>5, <1>6, <1>7 DEF Stands
<1> QED BY <1>8 DEF p

LEMMA Stats2Stands ==
    ASSUME NEW t \in {"rtnl", "service"}, NEW m,
           Runs(t, Stats2, m, 2 .. 6, {3})
    PROVE  Stands(t, Stats2, m)
<1> DEFINE p == Stats2
<1>1. IsProgram(p) /\ Len(p) = 6
  BY Stats2Is
<1>2. Plan(p, t)
  BY Stats2Plan
<1>3. /\ p[1].i = "lock" /\ p[2].i = "read" /\ p[3].i = "toggle" /\ p[4].i = "answer"
      /\ p[5].i = "account" /\ p[6].i = "unlock"
  BY Stats2Ops
<1> HIDE DEF p
<1>4. m \in 1 .. 6
  BY <1>1 DEF Runs, p
<1>5. todo[t] = Rest(p, m) /\ (mutex = t <=> m \in 2 .. 6)
  BY DEF Runs, p
<1>6. p[m].i \in {"toggle"} \cup Asks => m \in {3, 4}
  BY <1>3, <1>4 DEF Asks
<1>7. p[m].i # "reset"
  BY <1>3, <1>4
<1>8. Stands(t, p, m)
  BY <1>1, <1>2, <1>4, <1>5, <1>6, <1>7 DEF Stands
<1> QED BY <1>8 DEF p

LEMMA GetEee2Stands ==
    ASSUME NEW m,
           Runs("rtnl", GetEee2, m, 2 .. 4, {})
    PROVE  Stands("rtnl", GetEee2, m)
<1> DEFINE p == GetEee2
<1>1. IsProgram(p) /\ Len(p) = 4
  BY GetEee2Is
<1>2. Plan(p, "rtnl")
  BY GetEee2Plan
<1>3. /\ p[1].i = "lock" /\ p[2].i = "try" /\ p[3].i = "try" /\ p[4].i = "unlock"
  BY GetEee2Ops
<1> HIDE DEF p
<1>4. m \in 1 .. 4
  BY <1>1 DEF Runs, p
<1>5. todo["rtnl"] = Rest(p, m) /\ (mutex = "rtnl" <=> m \in 2 .. 4)
  BY DEF Runs, p
<1>6. p[m].i \notin {"toggle"} \cup Asks
  BY <1>3, <1>4 DEF Asks
<1>7. p[m].i # "reset"
  BY <1>3, <1>4
<1>8. Stands("rtnl", p, m)
  BY <1>1, <1>2, <1>4, <1>5, <1>6, <1>7 DEF Stands
<1> QED BY <1>8 DEF p

LEMMA SetEee2Stands ==
    ASSUME NEW on \in BOOLEAN, NEW c, NEW m,
           Runs("rtnl", SetEee2(on, c), m, (2 .. 4) \cup (7 .. 9), {8})
    PROVE  Stands("rtnl", SetEee2(on, c), m)
<1> DEFINE p == SetEee2(on, c)
<1>1. IsProgram(p) /\ Len(p) = 9
  BY SetEee2Is
<1>2. Plan(p, "rtnl")
  BY SetEee2Plan
<1>3. /\ p[1].i = "lock" /\ p[2].i = "try" /\ p[3].i = "try" /\ p[4].i = "unlock_check"
      /\ p[5].i = "cfg" /\ p[6].i = "lock" /\ p[7].i = "read" /\ p[8].i = "write"
      /\ p[9].i = "unlock"
  BY SetEee2Ops
<1> HIDE DEF p
<1>4. m \in 1 .. 9
  BY <1>1 DEF Runs, p
<1>5. todo["rtnl"] = Rest(p, m) /\ (mutex = "rtnl" <=> m \in (2 .. 4) \cup (7 .. 9))
  BY DEF Runs, p
<1>6. p[m].i \notin {"toggle"} \cup Asks
  BY <1>3, <1>4 DEF Asks
<1>7. p[m].i # "reset"
  BY <1>3, <1>4
<1>8. Stands("rtnl", p, m)
  BY <1>1, <1>2, <1>4, <1>5, <1>6, <1>7 DEF Stands
<1> QED BY <1>8 DEF p

LEMMA Pause2Stands ==
    ASSUME NEW c, NEW m,
           Runs("rtnl", Pause2(c), m, 2 .. 4, {3})
    PROVE  Stands("rtnl", Pause2(c), m)
<1> DEFINE p == Pause2(c)
<1>1. IsProgram(p) /\ Len(p) = 4
  BY Pause2Is
<1>2. Plan(p, "rtnl")
  BY Pause2Plan
<1>3. /\ p[1].i = "lock" /\ p[2].i = "read" /\ p[3].i = "write" /\ p[4].i = "unlock"
  BY Pause2Ops
<1> HIDE DEF p
<1>4. m \in 1 .. 4
  BY <1>1 DEF Runs, p
<1>5. todo["rtnl"] = Rest(p, m) /\ (mutex = "rtnl" <=> m \in 2 .. 4)
  BY DEF Runs, p
<1>6. p[m].i \notin {"toggle"} \cup Asks
  BY <1>3, <1>4 DEF Asks
<1>7. p[m].i # "reset"
  BY <1>3, <1>4
<1>8. Stands("rtnl", p, m)
  BY <1>1, <1>2, <1>4, <1>5, <1>6, <1>7 DEF Stands
<1> QED BY <1>8 DEF p

LEMMA Loop2Stands ==
    ASSUME NEW c, NEW m,
           Runs("rtnl", Loop2(c), m, 2 .. 4, {3})
    PROVE  Stands("rtnl", Loop2(c), m)
<1> DEFINE p == Loop2(c)
<1>1. IsProgram(p) /\ Len(p) = 5
  BY Loop2Is
<1>2. Plan(p, "rtnl")
  BY Loop2Plan
<1>3. /\ p[1].i = "lock" /\ p[2].i = "read" /\ p[3].i = "write" /\ p[4].i = "unlock"
      /\ p[5].i = "cfg"
  BY Loop2Ops
<1> HIDE DEF p
<1>4. m \in 1 .. 5
  BY <1>1 DEF Runs, p
<1>5. todo["rtnl"] = Rest(p, m) /\ (mutex = "rtnl" <=> m \in 2 .. 4)
  BY DEF Runs, p
<1>6. p[m].i \notin {"toggle"} \cup Asks
  BY <1>3, <1>4 DEF Asks
<1>7. p[m].i # "reset"
  BY <1>3, <1>4
<1>8. Stands("rtnl", p, m)
  BY <1>1, <1>2, <1>4, <1>5, <1>6, <1>7 DEF Stands
<1> QED BY <1>8 DEF p

LEMMA Nway2Stands ==
    ASSUME NEW m,
           Runs("rtnl", Nway2, m, 2 .. 4, {3})
    PROVE  Stands("rtnl", Nway2, m)
<1> DEFINE p == Nway2
<1>1. IsProgram(p) /\ Len(p) = 4
  BY Nway2Is
<1>2. Plan(p, "rtnl")
  BY Nway2Plan
<1>3. /\ p[1].i = "lock" /\ p[2].i = "read" /\ p[3].i = "write" /\ p[4].i = "unlock"
  BY Nway2Ops
<1> HIDE DEF p
<1>4. m \in 1 .. 4
  BY <1>1 DEF Runs, p
<1>5. todo["rtnl"] = Rest(p, m) /\ (mutex = "rtnl" <=> m \in 2 .. 4)
  BY DEF Runs, p
<1>6. p[m].i \notin {"toggle"} \cup Asks
  BY <1>3, <1>4 DEF Asks
<1>7. p[m].i # "reset"
  BY <1>3, <1>4
<1>8. Stands("rtnl", p, m)
  BY <1>1, <1>2, <1>4, <1>5, <1>6, <1>7 DEF Stands
<1> QED BY <1>8 DEF p

LEMMA Temp2Stands ==
    ASSUME NEW m,
           Runs("user", Temp2, m, 2 .. 6, {3})
    PROVE  Stands("user", Temp2, m)
<1> DEFINE p == Temp2
<1>1. IsProgram(p) /\ Len(p) = 6
  BY Temp2Is
<1>2. Plan(p, "user")
  BY Temp2Plan
<1>3. /\ p[1].i = "lock" /\ p[2].i = "read" /\ p[3].i = "toggle"
      /\ p[4].i = "answer_or_not" /\ p[5].i = "try" /\ p[6].i = "unlock"
  BY Temp2Ops
<1> HIDE DEF p
<1>4. m \in 1 .. 6
  BY <1>1 DEF Runs, p
<1>5. todo["user"] = Rest(p, m) /\ (mutex = "user" <=> m \in 2 .. 6)
  BY DEF Runs, p
<1>6. p[m].i \in {"toggle"} \cup Asks => m \in {3, 4}
  BY <1>3, <1>4 DEF Asks
<1>7. p[m].i # "reset"
  BY <1>3, <1>4
<1>8. Stands("user", p, m)
  BY <1>1, <1>2, <1>4, <1>5, <1>6, <1>7 DEF Stands
<1> QED BY <1>8 DEF p

LEMMA Cable2Stands ==
    ASSUME NEW m,
           Runs("user", Cable2, m, 2 .. 3, {})
    PROVE  Stands("user", Cable2, m)
<1> DEFINE p == Cable2
<1>1. IsProgram(p) /\ Len(p) = 3
  BY Cable2Is
<1>2. Plan(p, "user")
  BY Cable2Plan
<1>3. /\ p[1].i = "lock" /\ p[2].i = "try" /\ p[3].i = "unlock"
  BY Cable2Ops
<1> HIDE DEF p
<1>4. m \in 1 .. 3
  BY <1>1 DEF Runs, p
<1>5. todo["user"] = Rest(p, m) /\ (mutex = "user" <=> m \in 2 .. 3)
  BY DEF Runs, p
<1>6. p[m].i \notin {"toggle"} \cup Asks
  BY <1>3, <1>4 DEF Asks
<1>7. p[m].i # "reset"
  BY <1>3, <1>4
<1>8. Stands("user", p, m)
  BY <1>1, <1>2, <1>4, <1>5, <1>6, <1>7 DEF Stands
<1> QED BY <1>8 DEF p

LEMMA Request2Stands ==
    ASSUME NEW m,
           Runs("user", Request2, m, 2 .. 6, {4})
    PROVE  Stands("user", Request2, m)
<1> DEFINE p == Request2
<1>1. IsProgram(p) /\ Len(p) = 6
  BY Request2Is
<1>2. Plan(p, "user")
  BY Request2Plan
<1>3. /\ p[1].i = "lock" /\ p[2].i = "upload" /\ p[3].i = "read" /\ p[4].i = "toggle"
      /\ p[5].i = "answer" /\ p[6].i = "unlock"
  BY Request2Ops
<1> HIDE DEF p
<1>4. m \in 1 .. 6
  BY <1>1 DEF Runs, p
<1>5. todo["user"] = Rest(p, m) /\ (mutex = "user" <=> m \in 2 .. 6)
  BY DEF Runs, p
<1>6. p[m].i \in {"toggle"} \cup Asks => m \in {4, 5}
  BY <1>3, <1>4 DEF Asks
<1>7. p[m].i # "reset"
  BY <1>3, <1>4
<1>8. Stands("user", p, m)
  BY <1>1, <1>2, <1>4, <1>5, <1>6, <1>7 DEF Stands
<1> QED BY <1>8 DEF p

\* Whoever is in a call is at a place of such a program.
LEMMA RtnlStands ==
    ASSUME RtnlInv, ServiceInv, todo["rtnl"] # <<>>
    PROVE  \E p, m : Stands("rtnl", p, m)
<1>1. Down => todo["service"] = <<>>
  BY DEF Down, ServiceInv
<1>2. CASE Initing
  BY <1>2, Init1Stands, Init2Stands DEF Initing
<1>3. ASSUME NEW m, Opening1(m) PROVE \E p : Stands("rtnl", p, m)
  BY <1>3, Open1Stands DEF Opening1
<1>4. ASSUME NEW m, Opening2(m) PROVE \E p : Stands("rtnl", p, m)
  <2>1. PICK c : c = cfg
    OBVIOUS
  <2>2. Runs("rtnl", Open2(c), m, (2 .. 6) \cup (16 .. 18), {4, 8, 11, 17})
    BY <1>4, <2>1 DEF Opening2
  <2>3. todo["service"] = <<>> /\ Down
    BY <1>1, <1>4 DEF Opening2
  <2> QED BY <2>2, <2>3, Open2Stands
<1>5. ASSUME NEW m, Closing1(m) PROVE \E p : Stands("rtnl", p, m)
  BY <1>5, Drop1Stands, Arm1Stands DEF Closing1
<1>6. ASSUME NEW m, Closing2(m) PROVE \E p : Stands("rtnl", p, m)
  BY <1>6, Drop2Stands, Arm2Stands DEF Closing2
<1>7. ASSUME NEW m, Asking(m) PROVE \E p : Stands("rtnl", p, m)
  <2>1. CASE Runs("rtnl", Stats1, m, {2, 3}, {})
    BY <2>1, Stats1Stands
  <2>2. CASE Runs("rtnl", Stats2, m, 2 .. 6, {3})
    BY <2>2, Stats2Stands
  <2>3. CASE Runs("rtnl", GetEee2, m, 2 .. 4, {})
    BY <2>3, GetEee2Stands
  <2>4. CASE Runs("rtnl", Nway2, m, 2 .. 4, {3})
    BY <2>4, Nway2Stands
  <2> QED BY <1>7, <2>1, <2>2, <2>3, <2>4 DEF Asking
<1>8. ASSUME NEW m, SettingEee(m) PROVE \E p : Stands("rtnl", p, m)
  <2>1. PICK c : c = cfg
    OBVIOUS
  <2>2. PICK on \in BOOLEAN : Runs("rtnl", SetEee2(on, c), m, (2 .. 4) \cup (7 .. 9), {8})
    BY <1>8, <2>1 DEF SettingEee
  <2> QED BY <2>2, SetEee2Stands
<1>9. ASSUME NEW m, SettingPause(m) PROVE \E p : Stands("rtnl", p, m)
  <2>1. PICK c : c = cfg
    OBVIOUS
  <2>2. Runs("rtnl", Pause2(c), m, 2 .. 4, {3})
    BY <1>9, <2>1 DEF SettingPause
  <2> QED BY <2>2, Pause2Stands
<1>10. ASSUME NEW m, SettingLoop(m) PROVE \E p : Stands("rtnl", p, m)
  <2>1. PICK c : c = Toggled(cfg, "LOOPBACK")
    OBVIOUS
  <2>2. Runs("rtnl", Loop2(c), m, 2 .. 4, {3})
    BY <1>10, <2>1 DEF SettingLoop
  <2> QED BY <2>2, Loop2Stands
<1>11. ~AtRest
  BY DEF AtRest
<1> QED BY <1>2, <1>3, <1>4, <1>5, <1>6, <1>7, <1>8, <1>9, <1>10, <1>11 DEF RtnlInv

LEMMA StandsIs ==
    ASSUME SetInv, NEW t \in Threads, todo[t] # <<>>
    PROVE  \E p, m : Stands(t, p, m)
<1>1. RtnlInv /\ ServiceInv /\ UserInv
  BY DEF SetInv
<1>2. CASE t = "rtnl"
  BY <1>1, <1>2, RtnlStands
<1>3. CASE t = "service"
  <2>1. ASSUME NEW m, Runs("service", Stats1, m, {2, 3}, {}) PROVE \E p : Stands("service", p, m)
    BY <2>1, Stats1Stands
  <2>2. ASSUME NEW m, Runs("service", Stats2, m, 2 .. 6, {3}) PROVE \E p : Stands("service", p, m)
    BY <2>2, Stats2Stands
  <2> QED BY <1>1, <1>3, <2>1, <2>2 DEF ServiceInv
<1>4. CASE t = "user"
  BY <1>1, <1>4, Temp2Stands, Cable2Stands, Request2Stands DEF UserInv
<1> QED BY <1>2, <1>3, <1>4 DEF Threads

\* A call begins with a lock, a reset or a change of life, or does nothing.
Starts(q) == q = <<>> \/ Head(q).i \in {"lock", "reset", "become"}

\* What the start of a call changes.
LEMMA CallsBegin ==
    ASSUME Calls
    PROVE  \E t \in Threads : \E q :
             /\ Begin(t, q) /\ Starts(q)
             /\ mbps' # mbps => t = "service" /\ life = "open" /\ mbps' \in BOOLEAN
<1> USE DEF Threads, Same
<1>1. ASSUME NEW p, p[1].i \in {"lock", "reset", "become"} PROVE Starts(p)
  BY <1>1 DEF Starts
<1>2. Starts(<<>>)
  BY DEF Starts
<1>3. CASE Probe
  <2>1. PICK q : Begin("rtnl", q) /\ (q = Init1 \/ q = Init2)
    BY <1>3, Init1Code, Init2Code DEF Probe
  <2>2. Init1[1].i = "reset" /\ Init2[1].i = "reset"
    BY Init1Ops, Init2Ops
  <2>3. Starts(q)
    BY <1>1, <2>1, <2>2
  <2> QED BY <1>3, <2>1, <2>3 DEF Probe
<1>4. CASE Open
  <2>1. PICK c, q : Begin("rtnl", q) /\ (q = Open1 \/ q = Open2(c))
    BY <1>4, Open1Code, Open2Code DEF Open
  <2>2. Open1[1].i = "lock" /\ Open2(c)[1].i = "lock"
    BY Open1Ops, Open2Ops
  <2>3. Starts(q)
    BY <1>1, <2>1, <2>2
  <2> QED BY <1>4, <2>1, <2>3 DEF Open
<1>5. CASE Close
  <2>1. PICK q : Begin("rtnl", q) /\ q \in {Drop1, Drop2, Arm1, Arm2}
    BY <1>5, Drop1Code, Drop2Code, Arm1Code, Arm2Code DEF Close
  <2>2. /\ Drop1[1].i = "become" /\ Drop2[1].i = "become"
        /\ Arm1[1].i = "become" /\ Arm2[1].i = "become"
    BY Drop1Ops, Drop2Ops, Arm1Ops, Arm2Ops
  <2>3. Starts(q)
    BY <1>1, <2>1, <2>2
  <2> QED BY <1>5, <2>1, <2>3 DEF Close
<1>6. ASSUME NEW t \in {"rtnl", "service"}, Begin(t, Locked(UpdateStats))
      PROVE  \E q : Begin(t, q) /\ Starts(q)
  <2>1. Locked(UpdateStats) \in {Stats1, Stats2}
    BY Stats1Code, Stats2Code
  <2>2. Stats1[1].i = "lock" /\ Stats2[1].i = "lock"
    BY Stats1Ops, Stats2Ops
  <2>3. Starts(Locked(UpdateStats))
    BY <1>1, <2>1, <2>2
  <2> QED BY <1>6, <2>3
<1>7. CASE EthtoolStats
  BY <1>6, <1>7 DEF EthtoolStats
<1>8. CASE GetEee
  <2>1. GetEee2[1].i = "lock"
    BY GetEee2Ops
  <2>2. Begin("rtnl", GetEee2)
    BY <1>8, GetEee2Code DEF GetEee
  <2> QED BY <1>1, <1>8, <2>1, <2>2 DEF GetEee
<1>9. CASE SetEee
  <2>1. PICK on \in BOOLEAN : \E c : Begin("rtnl", SetEee2(on, c))
    BY <1>9, SetEee2Code DEF SetEee
  <2>2. PICK c : Begin("rtnl", SetEee2(on, c))
    BY <2>1
  <2>3. SetEee2(on, c)[1].i = "lock"
    BY SetEee2Ops
  <2> QED BY <1>1, <1>9, <2>2, <2>3 DEF SetEee
<1>10. CASE SetPauseparam
  <2>1. PICK c : Begin("rtnl", Pause2(c))
    BY <1>10, Pause2Code DEF SetPauseparam
  <2>2. Pause2(c)[1].i = "lock"
    BY Pause2Ops
  <2> QED BY <1>1, <1>10, <2>1, <2>2 DEF SetPauseparam
<1>11. CASE SetPrivFlags
  <2>1. PICK c : Begin("rtnl", Loop2(c))
    BY <1>11, Loop2Code DEF SetPrivFlags
  <2>2. Loop2(c)[1].i = "lock"
    BY Loop2Ops
  <2> QED BY <1>1, <1>11, <2>1, <2>2 DEF SetPrivFlags
<1>12. CASE NwayReset
  <2>1. Nway2[1].i = "lock"
    BY Nway2Ops
  <2>2. Begin("rtnl", Nway2)
    BY <1>12, Nway2Code DEF NwayReset
  <2> QED BY <1>1, <1>12, <2>1, <2>2 DEF NwayReset
<1>13. CASE SetWol
  BY <1>2, <1>13 DEF SetWol
<1>14. CASE ServiceTask
  <2>1. Begin("service", Locked(UpdateStats)) /\ life = "open"
    BY <1>14 DEF ServiceTask
  <2>2. mbps' \in BOOLEAN
    BY <1>14 DEF ServiceTask
  <2> QED BY <1>6, <2>1, <2>2
<1>15. CASE HwmonTemp \/ HwmonCable \/ PtpRequest
  <2>1. /\ Begin("user", Temp2) \/ Begin("user", Cable2) \/ Begin("user", Request2)
        /\ mbps' = mbps
    BY <1>15, Temp2Code, Cable2Code, Request2Code DEF HwmonTemp, HwmonCable, PtpRequest, User
  <2>2. Temp2[1].i = "lock" /\ Cable2[1].i = "lock" /\ Request2[1].i = "lock"
    BY Temp2Ops, Cable2Ops, Request2Ops
  <2>3. Starts(Temp2) /\ Starts(Cable2) /\ Starts(Request2)
    BY <1>1, <2>2
  <2> QED BY <2>1, <2>3
<1> QED BY <1>3, <1>4, <1>5, <1>7, <1>8, <1>9, <1>10, <1>11, <1>12, <1>13, <1>14, <1>15 DEF Calls

-----------------------------------------------------------------------------
\* How far the counter a is ahead of b.
Gap(a, b) == (a - b) % CntMod

\* The packets counted, and the ones still to count, are no more than there were.
Sound == curr + Gap(mbox, last) + Gap(cnt, mbox) <= total

\* Between a reset, which sets the counters back, and the statistics taken anew: the
\* link is down before they are taken, and if they cannot be, the error says so.
Rebasing1(m) ==
    /\ todo["rtnl"] = Rest(Open1, m)
    /\ m = 7 => ~err["rtnl"]
    /\ m >= 13 => m = 13 /\ ~mbps

Rebasing2(m, c) ==
    /\ todo["rtnl"] = Rest(Open2(c), m)
    /\ m = 6 => ~err["rtnl"]
    /\ m >= 10 => ~mbps
    /\ m = 14 => err["rtnl"]

Rebasing ==
    /\ Down /\ cnt = mbox /\ curr <= total
    /\ \E m \in 3 .. 14 : Rebasing1(m) \/ \E c : Rebasing2(m, c)

\* The ranges of the counters.
StatTypes ==
    /\ cnt \in 0 .. CntMod - 1 /\ mbox \in 0 .. CntMod - 1 /\ last \in 0 .. CntMod - 1
    /\ curr \in Nat /\ total \in Nat /\ mbps \in BOOLEAN /\ junk \in BOOLEAN

\* As long as no statistics were taken from a bad mailbox, the counters are sound or
\* are about to be set anew; before the probe nothing was counted.
StatInv ==
    /\ StatTypes
    /\ junk \/ Sound \/ Rebasing
    /\ life = "absent" => cnt = 0 /\ mbox = 0 /\ last = 0 /\ curr = 0

\* What % is for a number less than one modulus away from 0.
LEMMA ModIs ==
    ASSUME NEW M \in Nat \ {0}, NEW x \in Int, -M < x, x < M
    PROVE  x % M = IF x >= 0 THEN x ELSE x + M
  OBVIOUS

LEMMA GapIs ==
    ASSUME NEW a \in 0 .. CntMod - 1, NEW b \in 0 .. CntMod - 1
    PROVE  Gap(a, b) = IF a >= b THEN a - b ELSE a - b + CntMod
<1>1. CntMod \in Nat \ {0}
  BY CallAssumption
<1>2. a - b \in Int /\ -CntMod < a - b /\ a - b < CntMod
  BY <1>1
<1>3. (a - b) % CntMod = IF a - b >= 0 THEN a - b ELSE a - b + CntMod
  BY <1>1, <1>2, ModIs
<1> QED BY <1>1, <1>3 DEF Gap

\* A gap is no more than two that bridge it.
LEMMA GapSum ==
    ASSUME NEW a \in 0 .. CntMod - 1, NEW b \in 0 .. CntMod - 1, NEW c \in 0 .. CntMod - 1
    PROVE  /\ Gap(a, b) \in Nat /\ Gap(a, a) = 0
           /\ Gap(a, c) <= Gap(a, b) + Gap(b, c)
<1>1. CntMod \in Nat
  BY CallAssumption
<1> QED BY <1>1, GapIs

\* Another packet widens a gap by one at most.
LEMMA GapNext ==
    ASSUME NEW a \in 0 .. CntMod - 1, NEW b \in 0 .. CntMod - 1
    PROVE  /\ (a + 1) % CntMod \in 0 .. CntMod - 1
           /\ Gap((a + 1) % CntMod, b) <= Gap(a, b) + 1
<1>1. CntMod \in Nat \ {0}
  BY CallAssumption
<1>2. PICK d : d = (a + 1) % CntMod
  OBVIOUS
<1>3. d = IF a + 1 < CntMod THEN a + 1 ELSE 0
  <2>1. CASE a + 1 < CntMod
    BY <1>1, <1>2, <2>1, ModIs
  <2>2. CASE a + 1 = CntMod
    BY <1>1, <1>2, <2>2
  <2> QED BY <1>1, <2>1, <2>2
<1>4. d \in 0 .. CntMod - 1
  BY <1>1, <1>3
<1>5. Gap(d, b) = IF d >= b THEN d - b ELSE d - b + CntMod
  BY <1>4, GapIs
<1>6. Gap(a, b) = IF a >= b THEN a - b ELSE a - b + CntMod
  BY GapIs
<1>7. Gap(d, b) <= Gap(a, b) + 1
  BY <1>1, <1>3, <1>5, <1>6
<1> QED BY <1>2, <1>4, <1>7

\* What executing an instruction does to the statistics.
Counts(t, w) ==
    /\ w.i \notin {"account", "no_link", "reset", "return"} => UNCHANGED statVars
    /\ w.i = "no_link" => UNCHANGED <<cnt, mbox, last, curr, total, junk>> /\ mbps' = FALSE
    /\ w.i = "return" =>
         /\ UNCHANGED <<mbps, cnt, mbox, last, curr, total>>
         /\ junk' = (junk \/ (err[t] /\ w.stale))
    /\ w.i = "account" =>
         /\ UNCHANGED <<mbps, cnt, mbox, total>>
         /\ junk' \in {junk, TRUE}
         /\ junk' \/ (last' = mbox /\ curr' = IF mbps THEN curr + Gap(mbox, last) ELSE curr)
         /\ junk' => last' = last /\ curr' = curr
    /\ w.i = "reset" =>
         /\ UNCHANGED <<mbps, last, curr, total>>
         /\ \/ UNCHANGED <<cnt, mbox, junk, todo, err>>
            \/ UNCHANGED <<cnt, mbox>> /\ junk' = TRUE
            \/ cnt' = 0 /\ mbox' = 0 /\ junk' = junk /\ todo' = [todo EXCEPT ![t] = Tail(@)]

LEMMA StepCounts ==
    ASSUME NEW t \in Threads, StatTypes, Step(t)
    PROVE  Counts(t, Head(todo[t]))
<1> USE DEF Counts, At, Idle, statVars
<1>1. CASE DoLock(t) \/ DoUnlock(t) \/ DoRead(t) \/ DoWrite(t) \/ DoToggle(t)
  BY <1>1 DEF DoLock, DoUnlock, DoRead, DoWrite, DoToggle, PutControl
<1>2. CASE DoReturn(t)
  BY <1>2 DEF DoReturn
<1>3. CASE DoAnswer(t) \/ DoTry(t) \/ DoUpload(t) \/ DoRpcCall(t)
  BY <1>3 DEF DoAnswer, DoTry, DoUpload, DoRpcCall
<1>4. CASE DoRpcWait(t) \/ DoCfg(t) \/ DoBecome(t) \/ DoOps(t)
  BY <1>4 DEF DoRpcWait, DoCfg, DoBecome, DoOps
<1>5. CASE DoAccount(t)
  <2>1. junk \in BOOLEAN
    BY DEF StatTypes
  <2>2. junk' \in {junk, TRUE} /\ (junk' = TRUE \/ junk' = FALSE)
    BY <1>5, <2>1 DEF DoAccount
  <2> QED BY <1>5, <2>2 DEF DoAccount, Gap
<1>6. CASE DoNoLink(t)
  BY <1>6 DEF DoNoLink
<1>7. CASE BeginReset(t)
  BY <1>7 DEF BeginReset
<1>8. CASE EndReset(t)
  BY <1>8 DEF EndReset, Continue
<1> QED BY <1>1, <1>2, <1>3, <1>4, <1>5, <1>6, <1>7, <1>8 DEF Step, ThreadStep

\* An instruction keeps the ranges, invents no packet and repairs no bad statistics.
LEMMA CountsTypes ==
    ASSUME StatTypes, NEW t \in Threads, NEW w, Counts(t, w)
    PROVE  StatTypes' /\ total' = total /\ (junk => junk')
<1> USE DEF StatTypes
<1>1. CntMod \in Nat \ {0} /\ 0 \in 0 .. CntMod - 1
  BY CallAssumption
<1>2. CASE w.i \notin {"account", "no_link", "reset", "return"}
  BY <1>2 DEF Counts, statVars
<1>3. CASE w.i = "no_link"
  <2>1. UNCHANGED <<cnt, mbox, last, curr, total, junk>>
    BY <1>3 DEF Counts
  <2>2. mbps' = FALSE
    BY <1>3 DEF Counts
  <2>3. mbps' \in BOOLEAN
    BY <2>2
  <2> QED BY <2>1, <2>3
<1>4. CASE w.i = "return"
  BY <1>4 DEF Counts
<1>5. CASE w.i = "account"
  <2>1. Gap(mbox, last) \in Nat
    BY GapSum
  <2>2. curr' \in Nat
    <3>1. CASE junk'
      BY <1>5, <3>1 DEF Counts
    <3>2. CASE ~junk'
      BY <1>5, <2>1, <3>2 DEF Counts
    <3> QED BY <3>1, <3>2
  <2>3. last' \in 0 .. CntMod - 1
    <3>1. CASE junk'
      BY <1>5, <3>1 DEF Counts
    <3>2. CASE ~junk'
      BY <1>5, <3>2 DEF Counts
    <3> QED BY <3>1, <3>2
  <2>4. UNCHANGED <<mbps, cnt, mbox, total>> /\ junk' \in {junk, TRUE}
    BY <1>5 DEF Counts
  <2> QED BY <2>2, <2>3, <2>4
<1>6. CASE w.i = "reset"
  <2>1. UNCHANGED <<mbps, last, curr, total>>
    BY <1>6 DEF Counts
  <2>2. \/ UNCHANGED <<cnt, mbox, junk>>
        \/ UNCHANGED <<cnt, mbox>> /\ junk' = TRUE
        \/ cnt' = 0 /\ mbox' = 0 /\ junk' = junk
    BY <1>6 DEF Counts
  <2> QED BY <1>1, <2>1, <2>2
<1> QED BY <1>2, <1>3, <1>4, <1>5, <1>6

\* Only a reset makes sound statistics unsound.
LEMMA CountsSound ==
    ASSUME StatTypes, Sound, NEW t, NEW w, Counts(t, w), w.i # "reset"
    PROVE  junk' \/ Sound'
<1> SUFFICES ASSUME ~junk' PROVE Sound'
  OBVIOUS
<1>1. CASE w.i # "account"
  <2>1. UNCHANGED <<cnt, mbox, last, curr, total>>
    BY <1>1 DEF Counts, statVars
  <2> QED BY <2>1 DEF Sound, Gap
<1>2. CASE w.i = "account"
  <2>1. /\ UNCHANGED <<cnt, mbox, total>> /\ last' = mbox
        /\ curr' = IF mbps THEN curr + Gap(mbox, last) ELSE curr
    BY <1>2 DEF Counts
  <2>2. /\ Gap(mbox, last) \in Nat /\ Gap(mbox, mbox) = 0 /\ Gap(cnt, mbox) \in Nat
        /\ curr \in Nat /\ total \in Nat
    BY GapSum DEF StatTypes
  <2>3. Sound' <=> curr' + Gap(mbox, mbox) + Gap(cnt, mbox) <= total
    BY <2>1 DEF Sound, Gap
  <2>4. curr' + Gap(cnt, mbox) <= total
    <3>1. CASE mbps
      BY <2>1, <2>2, <3>1 DEF Sound
    <3>2. CASE ~mbps
      BY <2>1, <2>2, <3>2 DEF Sound
    <3> QED BY <3>1, <3>2
  <2>5. curr' \in Nat
    BY <2>1, <2>2
  <2> QED BY <2>2, <2>3, <2>4, <2>5
<1> QED BY <1>1, <1>2

\* A step of rtnl between a reset and the statistics taken anew.
LEMMA RebasingGoes ==
    ASSUME CallTypes, NEW p, IsProgram(p), NEW m \in 1 .. Len(p),
           todo["rtnl"] = Rest(p, m), Step("rtnl")
    PROVE  \E n \in Int : /\ Follows(p, m, n) /\ todo'["rtnl"] = Rest(p, n)
                          /\ p[m].i = "return" => ~err'["rtnl"]
                          /\ p[m].i = "unlock_check" /\ n # m + 1 => err["rtnl"]
                          /\ p[m].i \in Failing /\ n > m + 1 /\ n <= Len(p) => err'["rtnl"]
<1>1. Goes("rtnl")
  BY StepGoes DEF CallTypes, Threads
<1>2. PICK n \in Int : /\ Move(p, m, n, err["rtnl"], err'["rtnl"])
                       /\ todo' = [todo EXCEPT !["rtnl"] = Rest(p, n)]
                       /\ err' \in [Threads -> BOOLEAN]
  BY <1>1, Moves DEF CallTypes, Threads
<1>3. todo'["rtnl"] = Rest(p, n)
  BY <1>2 DEF CallTypes, Threads
<1>4. m \in Nat /\ Len(p) \in Nat
  BY DEF IsProgram
<1>5. n \in Nat
  BY <1>2, <1>4 DEF Move, ErrorGoes
<1>6. err["rtnl"] \in BOOLEAN /\ err'["rtnl"] \in BOOLEAN
  BY <1>2 DEF CallTypes, Threads
<1>7. ASSUME NEW e \in BOOLEAN, NEW e2 \in BOOLEAN, Move(p, m, n, e, e2)
      PROVE  /\ Follows(p, m, n)
             /\ p[m].i = "return" => ~e2
             /\ p[m].i = "unlock_check" /\ n # m + 1 => e
             /\ p[m].i \in Failing /\ n > m + 1 /\ n <= Len(p) => e2
  <2>1. /\ Follows(p, m, n)
        /\ p[m].i = "return" => ~e2
        /\ p[m].i = "unlock_check" /\ n # m + 1 => e
    BY <1>4, <1>5, <1>7, MoveFollows
  <2>2. ASSUME p[m].i \in Failing, n > m + 1, n <= Len(p) PROVE e2
    BY <1>4, <1>5, <1>7, <2>2 DEF Move, Failing
  <2> QED BY <2>1, <2>2
<1>8. /\ Follows(p, m, n)
      /\ p[m].i = "return" => ~err'["rtnl"]
      /\ p[m].i = "unlock_check" /\ n # m + 1 => err["rtnl"]
      /\ p[m].i \in Failing /\ n > m + 1 /\ n <= Len(p) => err'["rtnl"]
  BY <1>2, <1>6, <1>7
<1> QED BY <1>3, <1>8

LEMMA Rebasing1Step ==
    ASSUME CallTypes, StatTypes, Down, cnt = mbox, curr <= total, NEW m \in 3 .. 14,
           Rebasing1(m), Step("rtnl"), ~junk'
    PROVE  life' = life /\ (Sound' \/ Rebasing')
<1> DEFINE p == Open1
<1>1. IsProgram(p) /\ Len(p) = 15
  BY Open1Is
<1>2. /\ p[3].i = "read" /\ p[4].i = "try" /\ p[5].i = "write" /\ p[6].i = "return"
      /\ p[7].i = "unlock_check" /\ p[8].i = "read" /\ p[9].i = "write"
      /\ p[10].i = "read" /\ p[11].i = "write" /\ p[12].i = "no_link" /\ p[13].i = "account"
  BY Open1Ops
<1>3. p[6].stale = FALSE
  BY Open1Is, OpOf
<1> HIDE DEF p
<1>4. todo["rtnl"] = Rest(p, m) /\ m \in 3 .. 13
  BY DEF Rebasing1, p
<1>5. m \in 1 .. Len(p) /\ Head(todo["rtnl"]) = p[m]
  <2>1. m \in 1 .. Len(p)
    BY <1>1, <1>4
  <2> QED BY <1>1, <1>4, <2>1, RestSteps
<1>6. Counts("rtnl", p[m]) /\ Executes("rtnl", p[m])
  BY <1>5, StepCounts, StepExecutes DEF Threads
<1>7. PICK n \in Int : /\ Follows(p, m, n) /\ todo'["rtnl"] = Rest(p, n)
                       /\ p[m].i = "return" => ~err'["rtnl"]
                       /\ p[m].i = "unlock_check" /\ n # m + 1 => err["rtnl"]
  BY <1>1, <1>4, <1>5, RebasingGoes
<1>8. n = m + 1 \/ (m = 4 /\ n = 6) \/ (m = 7 /\ n = 16)
  BY <1>4, <1>7, Open1Move DEF p
<1>9. n = m + 1 \/ (m = 4 /\ n = 6)
  BY <1>2, <1>7, <1>8 DEF Rebasing1
<1>10. life' = life
  BY <1>2, <1>4, <1>6 DEF Executes
<1>11. CASE m = 13
  <2>1. UNCHANGED <<cnt, mbox, total>> /\ last' = mbox /\ curr' = curr
    <3>1. p[m].i = "account" /\ ~mbps
      BY <1>2, <1>11 DEF Rebasing1
    <3>2. UNCHANGED <<mbps, cnt, mbox, total>>
      BY <1>6, <3>1 DEF Counts
    <3>3. last' = mbox /\ curr' = IF mbps THEN curr + Gap(mbox, last) ELSE curr
      BY <1>6, <3>1 DEF Counts
    <3> QED BY <3>1, <3>2, <3>3
  <2>2. Sound' <=> curr + Gap(mbox, mbox) + Gap(mbox, mbox) <= total
    BY <2>1 DEF Sound, Gap
  <2>3. Gap(mbox, mbox) = 0
    BY GapSum DEF StatTypes
  <2> QED BY <1>10, <2>2, <2>3 DEF StatTypes
<1>12. CASE m # 13
  <2>1. UNCHANGED <<cnt, mbox, curr, total>>
    BY <1>2, <1>4, <1>6, <1>12 DEF Counts, statVars
  <2>2. n \in 3 .. 13 /\ (n = 7 => m = 6) /\ (n = 13 => m = 12)
    BY <1>4, <1>9, <1>12
  <2>3. n = 7 => ~err'["rtnl"]
    BY <1>2, <1>7, <2>2
  <2>4. n = 13 => ~mbps'
    BY <1>2, <1>6, <2>2 DEF Counts
  <2>5. Rebasing1(n)'
    BY <1>7, <2>2, <2>3, <2>4 DEF Rebasing1, p
  <2>6. Down' /\ cnt' = mbox' /\ curr' <= total'
    BY <1>10, <2>1 DEF Down
  <2>7. n \in 3 .. 14
    BY <2>2
  <2> QED BY <1>10, <2>5, <2>6, <2>7 DEF Rebasing
<1> QED BY <1>11, <1>12

LEMMA Rebasing2Step ==
    ASSUME CallTypes, StatTypes, Down, cnt = mbox, curr <= total, NEW m \in 3 .. 14, NEW c,
           Rebasing2(m, c), Step("rtnl"), ~junk'
    PROVE  life' = life /\ (Sound' \/ Rebasing')
<1> DEFINE p == Open2(c)
<1>1. IsProgram(p) /\ Len(p) = 19
  BY Open2Is
<1>2. /\ p[3].i = "read" /\ p[4].i = "write" /\ p[5].i = "return" /\ p[6].i = "unlock_check"
      /\ p[7].i = "read" /\ p[8].i = "write" /\ p[9].i = "no_link" /\ p[10].i = "read"
      /\ p[11].i = "toggle" /\ p[12].i = "answer" /\ p[13].i = "account" /\ p[14].i = "return"
  BY Open2Ops
<1>3. p[14].stale = TRUE
  <2>1. p[14] = Return(TRUE)
    BY Open2Is
  <2> QED BY <2>1, OpOf
<1> HIDE DEF p
<1>4. todo["rtnl"] = Rest(p, m)
  BY DEF Rebasing2, p
<1>5. m \in 1 .. Len(p) /\ Head(todo["rtnl"]) = p[m]
  <2>1. m \in 1 .. Len(p)
    BY <1>1, <1>4
  <2> QED BY <1>1, <1>4, <2>1, RestSteps
<1>6. Counts("rtnl", p[m]) /\ Executes("rtnl", p[m])
  BY <1>5, StepCounts, StepExecutes DEF Threads
<1>7. PICK n \in Int : /\ Follows(p, m, n) /\ todo'["rtnl"] = Rest(p, n)
                       /\ p[m].i = "return" => ~err'["rtnl"]
                       /\ p[m].i = "unlock_check" /\ n # m + 1 => err["rtnl"]
                       /\ p[m].i \in Failing /\ n > m + 1 /\ n <= Len(p) => err'["rtnl"]
  BY <1>1, <1>4, <1>5, RebasingGoes
<1>8. n = m + 1 \/ (m = 12 /\ n = 14) \/ (m = 6 /\ n = 20)
  <2>1. m \in 1 .. 19 /\ m # 2
    OBVIOUS
  <2> QED BY <1>7, <2>1, Open2Move DEF p
<1>9. n = m + 1 \/ (m = 12 /\ n = 14)
  BY <1>2, <1>7, <1>8 DEF Rebasing2
<1>10. life' = life
  BY <1>2, <1>6 DEF Executes
<1>11. CASE m = 13
  <2>1. UNCHANGED <<cnt, mbox, total>> /\ last' = mbox /\ curr' = curr
    <3>1. p[m].i = "account" /\ ~mbps
      BY <1>2, <1>11 DEF Rebasing2
    <3>2. UNCHANGED <<mbps, cnt, mbox, total>>
      BY <1>6, <3>1 DEF Counts
    <3>3. last' = mbox /\ curr' = IF mbps THEN curr + Gap(mbox, last) ELSE curr
      BY <1>6, <3>1 DEF Counts
    <3> QED BY <3>1, <3>2, <3>3
  <2>2. Sound' <=> curr + Gap(mbox, mbox) + Gap(mbox, mbox) <= total
    BY <2>1 DEF Sound, Gap
  <2>3. Gap(mbox, mbox) = 0
    BY GapSum DEF StatTypes
  <2> QED BY <1>10, <2>2, <2>3 DEF StatTypes
<1>12. CASE m = 14
  BY <1>2, <1>3, <1>6, <1>12 DEF Counts, Rebasing2
<1>13. CASE m \notin {13, 14}
  <2>1. UNCHANGED <<cnt, mbox, curr, total>>
    BY <1>2, <1>6, <1>13 DEF Counts, statVars
  <2>2. n \in 3 .. 14 /\ (n = 6 => m = 5) /\ (n >= 10 => m >= 9) /\ (n = 14 => m = 12)
    BY <1>9, <1>13
  <2>3. n = 6 => ~err'["rtnl"]
    BY <1>2, <1>7, <2>2
  <2>4. n >= 10 => ~mbps'
    <3>1. CASE m = 9
      BY <1>2, <1>6, <3>1 DEF Counts
    <3>2. CASE m >= 10
      <4>1. mbps' = mbps
        BY <1>2, <1>6, <1>13, <3>2 DEF Counts, statVars
      <4> QED BY <3>2, <4>1 DEF Rebasing2
    <3> QED BY <2>2, <3>1, <3>2
  <2>5. n = 14 => err'["rtnl"]
    BY <1>1, <1>2, <1>7, <2>2 DEF Failing
  <2>6. Rebasing2(n, c)'
    BY <1>7, <2>3, <2>4, <2>5 DEF Rebasing2, p
  <2>7. Down' /\ cnt' = mbox' /\ curr' <= total'
    BY <1>10, <2>1 DEF Down
  <2> QED BY <1>10, <2>2, <2>6, <2>7 DEF Rebasing
<1> QED BY <1>11, <1>12, <1>13

LEMMA AbsentKinds ==
    ASSUME RtnlInv, life = "absent", todo["rtnl"] # <<>>
    PROVE  Head(todo["rtnl"]).i \notin {"account", "no_link", "return"}
<1>1. Initing
  BY DEF RtnlInv, AtRest, Opening1, Opening2, Closing1, Closing2, Leaving, Asking, SettingEee,
         SettingPause, SettingLoop, Down, Up
<1>2. ASSUME NEW p, IsProgram(p), NEW m, Runs("rtnl", p, m, {}, {})
      PROVE  m \in 1 .. Len(p) /\ Head(todo["rtnl"]) = p[m]
  BY <1>2, RestSteps DEF Runs
<1>3. ASSUME NEW m, Runs("rtnl", Init1, m, {}, {})
      PROVE  Head(todo["rtnl"]).i \notin {"account", "no_link", "return"}
  <2>1. m \in 1 .. 6 /\ Head(todo["rtnl"]) = Init1[m]
    BY <1>2, <1>3, Init1Is
  <2> QED BY <2>1, Init1Ops
<1>4. ASSUME NEW m, Runs("rtnl", Init2, m, {}, {})
      PROVE  Head(todo["rtnl"]).i \notin {"account", "no_link", "return"}
  <2>1. m \in 1 .. 5 /\ Head(todo["rtnl"]) = Init2[m]
    BY <1>2, <1>4, Init2Is
  <2> QED BY <2>1, Init2Ops
<1> QED BY <1>1, <1>3, <1>4 DEF Initing

\* A reset starts the counters anew: at the probe nothing was counted, and an open
\* takes the statistics again.
LEMMA ResetStat ==
    ASSUME StatInv, Sound, ~junk', NEW p, NEW m, Stands("rtnl", p, m), p[m].i = "reset",
           Counts("rtnl", p[m]), todo["rtnl"] # <<>>, life' = life, CallTypes
    PROVE  Sound' \/ Rebasing'
<1>1. /\ UNCHANGED <<mbps, last, curr, total>>
      /\ \/ UNCHANGED <<cnt, mbox>>
         \/ cnt' = 0 /\ mbox' = 0 /\ todo' = [todo EXCEPT !["rtnl"] = Tail(@)]
  BY DEF Counts
<1>2. CASE UNCHANGED <<cnt, mbox>>
  BY <1>1, <1>2 DEF Sound, Gap
<1>3. CASE cnt' = 0 /\ mbox' = 0 /\ todo' = [todo EXCEPT !["rtnl"] = Tail(@)] /\ life = "absent"
  <2>1. last' = 0 /\ curr' = 0 /\ total' = total
    BY <1>1, <1>3 DEF StatInv
  <2>2. Sound' <=> 0 + Gap(0, 0) + Gap(0, 0) <= total
    BY <1>3, <2>1 DEF Sound, Gap
  <2>3. Gap(0, 0) = 0 /\ total \in Nat
    <3>1. 0 \in 0 .. CntMod - 1
      BY CallAssumption
    <3> QED BY <3>1, GapSum DEF StatInv, StatTypes
  <2> QED BY <2>2, <2>3
<1>4. CASE cnt' = 0 /\ mbox' = 0 /\ todo' = [todo EXCEPT !["rtnl"] = Tail(@)] /\ life # "absent"
  <2>1. IsProgram(p) /\ m \in 1 .. Len(p) /\ todo["rtnl"] = Rest(p, m)
    BY DEF Stands
  <2>2. Down /\ m = 2 /\ (p = Open1 \/ \E c : p = Open2(c))
    BY <1>4 DEF Stands
  <2>3. todo'["rtnl"] = Rest(p, 3)
    <3>1. todo'["rtnl"] = Tail(Rest(p, m))
      BY <1>4, <2>1 DEF CallTypes, Threads
    <3>2. Tail(Rest(p, 2)) = Rest(p, 2 + 1)
      BY <2>1, <2>2, RestSteps
    <3> QED BY <2>2, <3>1, <3>2
  <2>4. curr' <= total'
    <3>1. Gap(mbox, last) \in Nat /\ Gap(cnt, mbox) \in Nat
      BY GapSum DEF StatInv, StatTypes
    <3> QED BY <1>1, <3>1 DEF Sound, StatInv, StatTypes
  <2>5. Down'
    BY <2>2 DEF Down
  <2>6. \E k \in 3 .. 14 : Rebasing1(k)' \/ \E c : Rebasing2(k, c)'
    <3>1. p = Open1 => Rebasing1(3)'
      BY <2>3 DEF Rebasing1
    <3>2. \A c : p = Open2(c) => Rebasing2(3, c)'
      BY <2>3 DEF Rebasing2
    <3> QED BY <2>2, <3>1, <3>2
  <2> QED BY <1>4, <2>4, <2>5, <2>6 DEF Rebasing
<1> QED BY <1>1, <1>2, <1>3, <1>4

LEMMA StatStep ==
    ASSUME SetInv, StatInv, NEW t \in Threads, Step(t)
    PROVE  StatInv'
<1>1. CallTypes /\ RtnlInv /\ ServiceInv /\ UserInv /\ StatTypes
  BY DEF SetInv, StatInv
<1>2. todo[t] # <<>>
  BY <1>1, StepGoes DEF CallTypes, Goes
<1>3. PICK p, m : Stands(t, p, m)
  BY <1>2, StandsIs
<1>4. Head(todo[t]) = p[m] /\ p[m].i \in Kinds(t)
  BY <1>3, RestSteps DEF Stands, Plan
<1>5. Counts(t, p[m]) /\ Executes(t, p[m])
  BY <1>1, <1>4, StepCounts, StepExecutes
<1>6. StatTypes' /\ total' = total /\ (junk => junk')
  BY <1>1, <1>5, CountsTypes
<1>7. /\ t = "rtnl" => Meanwhile
      /\ t # "rtnl" => Elsewhere
  BY <1>1, RtnlStep, ServiceStep, UserStep DEF Threads
<1>8. life' = "absent" => life = "absent"
  BY <1>7 DEF Meanwhile, Elsewhere, Threads
<1>9. life = "absent" => t = "rtnl"
  BY <1>1, <1>2 DEF ServiceInv, UserInv, Threads
<1>10. ASSUME life' = "absent" PROVE cnt' = 0 /\ mbox' = 0 /\ last' = 0 /\ curr' = 0
  <2>1. cnt = 0 /\ mbox = 0 /\ last = 0 /\ curr = 0
    BY <1>8, <1>10 DEF StatInv
  <2>2. p[m].i \notin {"account", "no_link", "return"}
    BY <1>1, <1>2, <1>4, <1>8, <1>9, <1>10, AbsentKinds
  <2>3. CASE p[m].i = "reset"
    BY <1>5, <2>1, <2>3 DEF Counts
  <2>4. CASE p[m].i # "reset"
    BY <1>5, <2>1, <2>2, <2>4 DEF Counts, statVars
  <2> QED BY <2>3, <2>4
<1>11. ASSUME ~junk' PROVE Sound' \/ Rebasing'
  <2>1. CASE Sound /\ p[m].i # "reset"
    BY <1>1, <1>5, <1>11, <2>1, CountsSound
  <2>2. CASE Sound /\ p[m].i = "reset"
    <3>1. t = "rtnl" /\ life' = life
      BY <1>3, <1>5, <2>2 DEF Stands, Executes
    <3> QED BY <1>1, <1>2, <1>3, <1>5, <1>11, <2>2, <3>1, ResetStat
  <2>3. CASE Rebasing /\ t = "rtnl"
    <3>1. Down /\ cnt = mbox /\ curr <= total
      BY <2>3 DEF Rebasing
    <3>2. PICK k \in 3 .. 14 : Rebasing1(k) \/ \E c : Rebasing2(k, c)
      BY <2>3 DEF Rebasing
    <3>3. CASE Rebasing1(k)
      BY <1>1, <1>11, <2>3, <3>1, <3>3, Rebasing1Step
    <3>4. ASSUME NEW c, Rebasing2(k, c) PROVE Sound' \/ Rebasing'
      BY <1>1, <1>11, <2>3, <3>1, <3>4, Rebasing2Step
    <3> QED BY <3>2, <3>3, <3>4
  <2>4. CASE Rebasing /\ t = "service"
    BY <1>1, <1>2, <2>4 DEF Rebasing, Down, ServiceInv
  <2>5. CASE Rebasing /\ t = "user"
    <3>1. UNCHANGED statVars
      BY <1>4, <1>5, <2>5 DEF Kinds, Asks, Counts
    <3>2. todo'["rtnl"] = todo["rtnl"] /\ err'["rtnl"] = err["rtnl"] /\ life' = life
      BY <1>7, <2>5 DEF Elsewhere
    <3> QED BY <2>5, <3>1, <3>2 DEF Rebasing, Rebasing1, Rebasing2, Down, statVars
  <2>6. Sound \/ Rebasing
    BY <1>6, <1>11 DEF StatInv
  <2> QED BY <2>1, <2>2, <2>3, <2>4, <2>5, <2>6 DEF Threads
<1> QED BY <1>6, <1>10, <1>11 DEF StatInv

\* While the counters wait to be set anew the device is not open and an open runs.
LEMMA RebasingIs == Rebasing => life # "open" /\ todo["rtnl"] # <<>>
<1> SUFFICES ASSUME Rebasing PROVE life # "open" /\ todo["rtnl"] # <<>>
  OBVIOUS
<1>1. PICK k \in 3 .. 14 : Rebasing1(k) \/ \E c : Rebasing2(k, c)
  BY DEF Rebasing
<1>2. CASE Rebasing1(k)
  <2>1. k \in 1 .. Len(Open1) /\ IsProgram(Open1)
    <3>1. k \in 1 .. 15
      BY <1>1
    <3> QED BY <3>1, Open1Is
  <2>2. Rest(Open1, k) # <<>>
    BY <2>1, RestSteps
  <2> QED BY <1>2, <2>2 DEF Rebasing, Rebasing1, Down
<1>3. ASSUME NEW c, Rebasing2(k, c) PROVE life # "open" /\ todo["rtnl"] # <<>>
  <2>1. k \in 1 .. Len(Open2(c)) /\ IsProgram(Open2(c))
    <3>1. k \in 1 .. 19
      BY <1>1
    <3> QED BY <3>1, Open2Is
  <2>2. Rest(Open2(c), k) # <<>>
    BY <2>1, RestSteps
  <2> QED BY <1>3, <2>2 DEF Rebasing, Rebasing2, Down
<1> QED BY <1>1, <1>2, <1>3

\* The other steps: a call begins, the firmware serves the mailbox, a packet comes.
LEMMA StatCalls ==
    ASSUME CallTypes, StatInv, Calls
    PROVE  StatInv'
<1>1. PICK t \in Threads :
        /\ \E q : Begin(t, q)
        /\ mbps' # mbps => t = "service" /\ life = "open" /\ mbps' \in BOOLEAN
  BY CallsBegin
<1>2. UNCHANGED <<cnt, mbox, last, curr, total, junk, life>>
  BY <1>1 DEF Begin
<1>3. StatTypes'
  <2>1. mbps' \in BOOLEAN
    <3>1. mbps \in BOOLEAN
      BY DEF StatInv, StatTypes
    <3> QED BY <1>1, <3>1
  <2> QED BY <1>2, <2>1 DEF StatInv, StatTypes
<1>4. Sound => Sound'
  BY <1>2 DEF Sound, Gap
<1>5. ASSUME Rebasing PROVE Rebasing'
  <2>1. life # "open" /\ todo["rtnl"] # <<>>
    BY <1>5, RebasingIs
  <2>2. t # "rtnl"
    BY <1>1, <2>1 DEF Begin, Idle
  <2>3. todo'["rtnl"] = todo["rtnl"]
    BY <1>1, <2>2 DEF Begin, CallTypes, Threads
  <2>4. err'["rtnl"] = err["rtnl"]
    BY <1>1, <2>2 DEF Begin, CallTypes, Threads
  <2>5. mbps' = mbps
    BY <1>1, <2>1
  <2> QED BY <1>2, <1>5, <2>3, <2>4, <2>5 DEF Rebasing, Rebasing1, Rebasing2, Down
<1> QED BY <1>2, <1>3, <1>4, <1>5 DEF StatInv

LEMMA StatFirmware ==
    ASSUME StatInv, Firmware \/ ResetRuns \/ UNCHANGED vars
    PROVE  StatInv'
<1> USE DEF statVars
<1>1. StatTypes /\ CntMod \in Nat \ {0}
  BY CallAssumption DEF StatInv
<1>2. ASSUME UNCHANGED <<statVars, todo, err, life>> PROVE StatInv'
  <2>1. StatTypes'
    BY <1>1, <1>2 DEF StatTypes
  <2>2. (Sound => Sound') /\ (Rebasing => Rebasing')
    BY <1>2 DEF Sound, Gap, Rebasing, Rebasing1, Rebasing2, Down
  <2> QED BY <1>2, <2>1, <2>2 DEF StatInv
<1>3. ASSUME NEW b, ServeMode(b) \/ DropMode(b) PROVE StatInv'
  BY <1>2, <1>3 DEF ServeMode, DropMode
<1>4. CASE ServeRpc \/ DeviceStep \/ ResetRuns
  BY <1>2, <1>4 DEF ServeRpc, DeviceStep, ResetRuns
<1>5. CASE UNCHANGED vars
  BY <1>2, <1>5 DEF vars
<1>6. ASSUME NEW b, ServeToggle(b) PROVE StatInv'
  <2>1. /\ UNCHANGED <<mbps, cnt, last, curr, total, junk, todo, err, life>>
        /\ mbox' \in {mbox, cnt}
    BY <1>6 DEF ServeToggle
  <2>2. CASE mbox' = mbox
    BY <1>2, <2>1, <2>2
  <2>3. CASE mbox' = cnt
    <3>1. StatTypes'
      BY <1>1, <2>1, <2>3 DEF StatTypes
    <3>2. Sound => Sound'
      <4>1. /\ Gap(cnt, last) <= Gap(cnt, mbox) + Gap(mbox, last) /\ Gap(cnt, cnt) = 0
            /\ Gap(cnt, last) \in Nat /\ Gap(cnt, mbox) \in Nat /\ Gap(mbox, last) \in Nat
        BY <1>1, GapSum DEF StatTypes
      <4>2. Sound' <=> curr + Gap(cnt, last) + Gap(cnt, cnt) <= total
        BY <2>1, <2>3 DEF Sound, Gap
      <4> QED BY <1>1, <4>1, <4>2 DEF Sound, StatTypes
    <3>3. Rebasing => Rebasing'
      BY <2>1, <2>3 DEF Rebasing, Rebasing1, Rebasing2, Down
    <3>4. life' = "absent" => cnt' = 0 /\ mbox' = 0 /\ last' = 0 /\ curr' = 0
      BY <2>1, <2>3 DEF StatInv
    <3> QED BY <2>1, <3>1, <3>2, <3>3, <3>4 DEF StatInv
  <2> QED BY <2>1, <2>2, <2>3
<1>7. CASE Packet
  <2>1. /\ UNCHANGED <<mbps, last, curr, junk, life>> /\ life = "open"
        /\ cnt' = (cnt + 1) % CntMod /\ total' = total + 1 /\ mbox' \in {mbox, cnt'}
    BY <1>7 DEF Packet
  <2>2. cnt' \in 0 .. CntMod - 1 /\ Gap(cnt', mbox) <= Gap(cnt, mbox) + 1
    BY <1>1, <2>1, GapNext DEF StatTypes
  <2>3. StatTypes'
    BY <1>1, <2>1, <2>2 DEF StatTypes
  <2>4. ~Rebasing
    BY <2>1, RebasingIs
  <2>5. ASSUME Sound PROVE Sound'
    <3>1. /\ Gap(cnt, mbox) \in Nat /\ Gap(mbox, last) \in Nat
      BY <1>1, GapSum DEF StatTypes
    <3>2. /\ Gap(cnt', mbox) \in Nat /\ Gap(cnt', last) \in Nat /\ Gap(cnt', cnt') = 0
          /\ Gap(cnt', last) <= Gap(cnt', mbox) + Gap(mbox, last)
      BY <1>1, <2>2, GapSum DEF StatTypes
    <3>3. Sound' <=> curr + Gap(mbox', last) + Gap(cnt', mbox') <= total + 1
      BY <2>1 DEF Sound, Gap
    <3> QED BY <1>1, <2>1, <2>2, <2>5, <3>1, <3>2, <3>3 DEF Sound, StatTypes
  <2> QED BY <2>1, <2>3, <2>4, <2>5 DEF StatInv
<1> QED BY <1>3, <1>4, <1>5, <1>6, <1>7 DEF Firmware

LEMMA StatInit == CallInit => StatInv
<1> SUFFICES ASSUME CallInit PROVE StatInv
  OBVIOUS
<1>1. CntMod \in Nat \ {0}
  BY CallAssumption
<1>2. /\ cnt = 0 /\ mbox = 0 /\ last = 0 /\ curr = 0 /\ total = 0
      /\ junk = FALSE /\ mbps = FALSE
  BY DEF CallInit
<1>3. StatTypes
  <2>1. mbps \in BOOLEAN /\ junk \in BOOLEAN
    BY <1>2
  <2>2. 0 \in 0 .. CntMod - 1 /\ 0 \in Nat
    BY <1>1
  <2> QED BY <1>2, <2>1, <2>2 DEF StatTypes
<1>4. Sound
  <2>1. Gap(0, 0) = 0
    BY <1>1, GapSum
  <2> QED BY <1>2, <2>1 DEF Sound
<1> QED BY <1>2, <1>3, <1>4 DEF StatInv

LEMMA StatNext == SetInv /\ StatInv /\ [CallNext]_vars => StatInv'
<1> SUFFICES ASSUME SetInv, StatInv, [CallNext]_vars PROVE StatInv'
  OBVIOUS
<1>1. CASE Calls
  BY <1>1, StatCalls DEF SetInv
<1>2. CASE \E t \in Threads : DoLock(t) \/ ThreadStep(t)
  BY <1>2, StatStep DEF Step
<1>3. CASE ResetRuns \/ Firmware \/ UNCHANGED vars
  BY <1>3, StatFirmware
<1> QED BY <1>1, <1>2, <1>3 DEF CallNext

LEMMA StatHolds == StatInv => StatsHonest
<1> SUFFICES ASSUME StatInv, ~junk PROVE curr <= total
  BY DEF StatsHonest
<1>1. CASE Sound
  <2>1. Gap(cnt, mbox) \in Nat /\ Gap(mbox, last) \in Nat
    BY GapSum DEF StatInv, StatTypes
  <2> QED BY <1>1, <2>1 DEF Sound, StatInv, StatTypes
<1>2. CASE Rebasing
  BY <1>2 DEF Rebasing
<1> QED BY <1>1, <1>2 DEF StatInv

\* The statistics never count a packet that was not there
\* (hw_atl_utils_update_stats, aq_fw2x_update_stats, hw_init): the counters of the
\* device wrap, the mailbox lags behind them, and a reset sets both back; hw_init
\* clears the link status and takes the statistics anew before the next difference is
\* added, whatever fails or is called meanwhile, unless a mailbox was invalid.
THEOREM StatisticsTheorem == CallSpec => []StatsHonest
<1>1. CallInit => SetInv /\ StatInv
  BY SetInvInit, StatInit
<1>2. SetInv /\ StatInv /\ [CallNext]_vars => SetInv' /\ StatInv'
  BY SetInvNext, StatNext
<1>3. StatInv => StatsHonest
  BY StatHolds
<1> QED BY <1>1, <1>2, <1>3, PTL DEF CallSpec

-----------------------------------------------------------------------------
\* Thread t waits for the firmware to answer the toggle b.
Waits(t, b) == todo[t] # <<>> /\ Head(todo[t]).i \in Asks /\ Head(todo[t]).bit = b

Agree(b) == b \in state2 <=> b \in ctrl2

\* A thread that waits knows the bit as it was written. Unless an earlier one was given
\* up, a request the firmware has not served shows as a difference between the two
\* registers, and there is none when nobody waits.
Ans(b) ==
    /\ \A t \in Threads : Waits(t, b) => (b \in reg[t] <=> b \in ctrl2)
    /\ b \notin late =>
         /\ \A t \in Threads : Waits(t, b) /\ ~fresh[t] => ~Agree(b)
         /\ (\A t \in Threads : ~Waits(t, b)) => Agree(b)

AnsInv ==
    /\ fresh = [t \in Threads |-> fresh[t]]
    /\ ~raced => \A b \in Toggles : Ans(b)

\* A step takes a thread to another instruction of its program.
LEMMA StandsGoes ==
    ASSUME CallTypes, NEW t \in Threads, NEW p, NEW m, Stands(t, p, m), Step(t)
    PROVE  \E n \in 1 .. Len(p) + 1 : /\ Follows(p, m, n) /\ todo'[t] = Rest(p, n)
                                      /\ \A u \in Threads \ {t} : todo'[u] = todo[u]
<1>1. IsProgram(p) /\ m \in 1 .. Len(p) /\ todo[t] = Rest(p, m) /\ Len(p) \in Nat
  BY DEF Stands, IsProgram
<1>2. Goes(t)
  BY StepGoes DEF CallTypes
<1>3. PICK n \in Int : /\ Move(p, m, n, err[t], err'[t])
                       /\ todo' = [todo EXCEPT ![t] = Rest(p, n)]
                       /\ err' \in [Threads -> BOOLEAN]
  BY <1>1, <1>2, Moves DEF CallTypes
<1>4. n \in 1 .. Len(p) + 1
  BY <1>1, <1>3 DEF Move, ErrorGoes
<1>5. err[t] \in BOOLEAN /\ err'[t] \in BOOLEAN
  BY <1>3 DEF CallTypes
<1>6. ASSUME NEW e \in BOOLEAN, NEW e2 \in BOOLEAN, Move(p, m, n, e, e2)
      PROVE  Follows(p, m, n)
  <2>1. m \in Nat /\ n \in Nat
    BY <1>1, <1>4
  <2> QED BY <1>6, <2>1, MoveFollows
<1>7. Follows(p, m, n)
  BY <1>3, <1>5, <1>6
<1>8. todo'[t] = Rest(p, n) /\ \A u \in Threads \ {t} : todo'[u] = todo[u]
  BY <1>3 DEF CallTypes
<1> QED BY <1>4, <1>7, <1>8

LEMMA StandsHead ==
    ASSUME NEW t, NEW p, NEW m, Stands(t, p, m)
    PROVE  todo[t] # <<>> /\ Head(todo[t]) = p[m]
  BY RestSteps DEF Stands

\* Only a toggle is followed by a wait, and that for its bit.
LEMMA WaitsAfter ==
    ASSUME NEW t, NEW p, IsProgram(p), Plan(p, t), NEW m \in 1 .. Len(p),
           NEW n \in 1 .. Len(p) + 1, Follows(p, m, n)
    PROVE  /\ n <= Len(p) /\ p[n].i \in Asks =>
                n = m + 1 /\ p[m].i = "toggle" /\ p[m].bit = p[n].bit
           /\ p[m].i = "toggle" =>
                n <= Len(p) /\ p[n].i \in Asks /\ p[n].bit = p[m].bit
<1>1. Len(p) \in Nat
  BY DEF IsProgram
<1>2. ASSUME n <= Len(p), p[n].i \in Asks
      PROVE  n = m + 1 /\ p[m].i = "toggle" /\ p[m].bit = p[n].bit
  <2>1. n \in 1 .. Len(p)
    BY <1>1, <1>2
  <2>2. n > 1 /\ p[n - 1].i = "toggle" /\ p[n - 1].bit = p[n].bit
    BY <1>2, <2>1 DEF Plan
  <2>3. n = m + 1
    <3>1. p[n].i \notin Stops
      BY <1>2 DEF Stops, Asks
    <3>2. n = m + 1 \/ (n = m /\ p[m].i \in {"reset", "rpc_wait"})
      BY <1>1, <1>2, <3>1 DEF Follows, ErrorGoes, Stops
    <3> QED BY <1>2, <3>2 DEF Asks
  <2>4. n - 1 = m
    BY <1>1, <2>3
  <2> QED BY <2>2, <2>3, <2>4
<1>3. ASSUME p[m].i = "toggle"
      PROVE  n <= Len(p) /\ p[n].i \in Asks /\ p[n].bit = p[m].bit
  <2>1. n = m + 1
    BY <1>3 DEF Follows, Failing
  <2>2. m < Len(p) /\ p[m + 1].i \in Asks /\ p[m + 1].bit = p[m].bit
    BY <1>3 DEF Plan
  <2> QED BY <1>1, <2>1, <2>2
<1> QED BY <1>2, <1>3

\* No two threads ask for the same bit at a time.
LEMMA AsksAlone ==
    ASSUME SetInv, NEW t \in Threads, NEW p, NEW m, Stands(t, p, m),
           p[m].i \in {"toggle"} \cup Asks, NEW u \in Threads \ {t}, NEW b, Waits(u, b)
    PROVE  b # p[m].bit
<1>1. PICK q, k : Stands(u, q, k)
  BY StandsIs DEF Waits
<1>2. q[k].i \in Asks /\ q[k].bit = b
  BY <1>1, StandsHead DEF Waits
<1>3. b \in BitsOf(u) /\ (mutex = u \/ (u = "rtnl" /\ todo["service"] = <<>>))
  BY <1>1, <1>2 DEF Stands, Plan
<1>4. p[m].bit \in BitsOf(t) /\ (mutex = t \/ (t = "rtnl" /\ todo["service"] = <<>>))
  BY DEF Stands, Plan
<1>5. todo[t] # <<>> /\ todo[u] # <<>>
  BY StandsHead DEF Waits
<1> QED BY <1>3, <1>4, <1>5 DEF BitsOf, Threads

\* Nobody waits at a reset.
LEMMA ResetsAlone ==
    ASSUME SetInv, NEW t \in Threads, NEW p, NEW m, Stands(t, p, m), p[m].i = "reset",
           NEW u \in Threads, NEW b
    PROVE  ~Waits(u, b)
<1> SUFFICES ASSUME Waits(u, b) PROVE FALSE
  OBVIOUS
<1>1. t = "rtnl" /\ (life = "absent" \/ mutex = "rtnl")
  BY DEF Stands
<1>2. u # t
  BY StandsHead DEF Waits, Asks
<1>3. PICK q, k : Stands(u, q, k)
  BY StandsIs DEF Waits
<1>4. q[k].i \in Asks
  BY <1>3, StandsHead DEF Waits
<1>5. mutex = u
  BY <1>1, <1>2, <1>3, <1>4 DEF Stands
<1>6. life = "absent" => todo["service"] = <<>> /\ todo["user"] = <<>>
  BY DEF SetInv, ServiceInv, UserInv
<1> QED BY <1>1, <1>2, <1>5, <1>6 DEF Threads, Waits

\* What executing an instruction does to the answers.
Serves(t, w) ==
    /\ w.i # "reset" => state2' = state2
    /\ fresh' = fresh \/ \E x \in BOOLEAN : fresh' = [fresh EXCEPT ![t] = x]
    /\ w.i \notin Asks \cup {"until_set", "rpc_wait", "reset"} => late' = late
    /\ w.i = "rpc_wait" => late' \in {late, late \ {"RPC"}, late \cup {"RPC"}}
    /\ w.i \in Asks \cup {"until_set"} =>
         \/ /\ late' = late \ {w.bit}
            /\ w.i \in Asks => (w.bit \in state2) = (w.bit \in reg[t])
         \/ late' = late \cup ({w.bit} \cap Toggles)
    /\ w.i = "reset" =>
         \/ UNCHANGED <<state2, late, ctrl2, raced>>
         \/ state2' = ctrl2' \cap Toggles /\ late' = {}

\* And this is what each of them does.
LEMMA StepServes ==
    ASSUME NEW t \in Threads, Step(t)
    PROVE  Serves(t, Head(todo[t]))
<1> USE DEF Serves, At, Idle, Asks, regVars, histVars
<1>1. CASE DoLock(t) \/ DoRead(t) \/ DoTry(t) \/ DoAccount(t) \/ DoNoLink(t) \/ DoCfg(t)
  BY <1>1 DEF DoLock, DoRead, DoTry, DoAccount, DoNoLink, DoCfg
<1>2. CASE DoUnlock(t) \/ DoReturn(t) \/ DoBecome(t) \/ DoOps(t)
  BY <1>2 DEF DoUnlock, DoReturn, DoBecome, DoOps, Forget
<1>3. CASE DoWrite(t) \/ DoToggle(t)
  BY <1>3 DEF DoWrite, DoToggle, PutControl
<1>4. CASE DoAnswer(t)
  BY <1>4 DEF DoAnswer, Answered
<1>5. CASE DoUpload(t) \/ DoRpcCall(t)
  BY <1>5 DEF DoUpload, DoRpcCall, RpcCallOk, PutMessage
<1>6. CASE DoRpcWait(t)
  BY <1>6 DEF DoRpcWait, RpcCallOk, PutMessage
<1>7. CASE BeginReset(t)
  BY <1>7 DEF BeginReset
<1>8. CASE EndReset(t)
  BY <1>8 DEF EndReset
<1> QED BY <1>1, <1>2, <1>3, <1>4, <1>5, <1>6, <1>7, <1>8 DEF Step, ThreadStep

\* A step of a thread keeps this: a toggle opens a difference, an answer closes it.
LEMMA AnsStep ==
    ASSUME SetInv, AnsInv, NEW t \in Threads, Step(t)
    PROVE  AnsInv'
<1>1. CallTypes
  BY DEF SetInv
<1>2. PICK p, m : Stands(t, p, m)
  <2>1. todo[t] # <<>>
    BY <1>1, StepGoes DEF CallTypes, Goes
  <2> QED BY <2>1, StandsIs
<1>3. IsProgram(p) /\ m \in 1 .. Len(p) /\ Plan(p, t) /\ p[m].i \in Kinds(t) /\ Len(p) \in Nat
  BY <1>2 DEF Stands, Plan, IsProgram
<1>4. Head(todo[t]) = p[m] /\ todo[t] # <<>>
  BY <1>2, StandsHead
<1>5. Serves(t, p[m]) /\ Executes(t, p[m])
  BY <1>4, StepServes, StepExecutes
<1>6. PICK n \in 1 .. Len(p) + 1 : /\ Follows(p, m, n) /\ todo'[t] = Rest(p, n)
                                   /\ \A u \in Threads \ {t} : todo'[u] = todo[u]
  BY <1>1, <1>2, StandsGoes
<1>7. \A b : Waits(t, b) <=> p[m].i \in Asks /\ p[m].bit = b
  BY <1>4 DEF Waits
<1>8. \A b : Waits(t, b)' <=> p[m].i = "toggle" /\ p[m].bit = b
  <2>1. CASE n <= Len(p)
    <3>1. n \in 1 .. Len(p)
      BY <1>3, <2>1
    <3>2. todo'[t] # <<>> /\ Head(todo'[t]) = p[n]
      BY <1>3, <1>6, <3>1, RestSteps
    <3>3. /\ p[n].i \in Asks => p[m].i = "toggle" /\ p[m].bit = p[n].bit
          /\ p[m].i = "toggle" => p[n].i \in Asks /\ p[n].bit = p[m].bit
      BY <1>3, <1>6, <2>1, WaitsAfter
    <3> QED BY <3>2, <3>3 DEF Waits
  <2>2. CASE n = Len(p) + 1
    <3>1. todo'[t] = <<>>
      BY <1>3, <1>6, <2>2, RestEnds
    <3>2. p[m].i # "toggle"
      BY <1>3, <1>6, <2>2, WaitsAfter
    <3> QED BY <3>1, <3>2 DEF Waits
  <2> QED BY <1>3, <2>1, <2>2
<1>9. \A u \in Threads \ {t} : fresh'[u] = fresh[u] /\ reg'[u] = reg[u]
  BY <1>1, <1>5 DEF Serves, Executes, AnsInv, CallTypes
<1>10. \A u \in Threads \ {t} : \A b : Waits(u, b)' <=> Waits(u, b)
  BY <1>6 DEF Waits
<1>11. fresh' = [v \in Threads |-> fresh'[v]]
  BY <1>5 DEF Serves, AnsInv
<1>12. ASSUME ~raced', NEW b \in Toggles PROVE Ans(b)'
  <2>1. CASE p[m].i = "reset" /\ state2' = ctrl2' \cap Toggles
    <3>1. \A u \in Threads : \A d : ~Waits(u, d)
      BY <1>2, <2>1, ResetsAlone
    <3>2. ~Waits(t, b)'
      BY <1>8, <2>1
    <3>3. \A u \in Threads : ~Waits(u, b)'
      BY <1>10, <3>1, <3>2
    <3>4. Agree(b)'
      BY <1>12, <2>1 DEF Agree
    <3> QED BY <3>3, <3>4 DEF Ans
  <2>2. CASE ~(p[m].i = "reset" /\ state2' = ctrl2' \cap Toggles)
    <3>1. ~raced /\ (p[m].i \in {"write", "toggle"} => reg[t] = ctrl2)
      <4>1. p[m].i = "reset" => raced' = raced
        BY <1>5, <2>2 DEF Serves
      <4>2. p[m].i \in {"write", "toggle"} => ~raced /\ reg[t] = ctrl2
        BY <1>5, <1>12 DEF Executes
      <4>3. p[m].i \in {"upload", "rpc_call", "rpc_wait"} => ~raced
        BY <1>5, <1>12 DEF Executes
      <4>4. p[m].i \notin {"write", "toggle", "reset", "upload", "rpc_call", "rpc_wait"} => ~raced
        BY <1>5, <1>12 DEF Executes
      <4> QED BY <1>12, <4>1, <4>2, <4>3, <4>4
    <3>2. Ans(b)
      BY <1>12, <3>1 DEF AnsInv
    <3>3. state2' = state2
      BY <1>5, <2>2 DEF Serves
    <3>4. CASE p[m].i = "toggle" /\ p[m].bit = b
      <4>1. \A u \in Threads \ {t} : ~Waits(u, b)
        BY <1>2, <3>4, AsksAlone
      <4>2. \A u \in Threads : ~Waits(u, b)
        BY <1>7, <3>4, <4>1 DEF Asks
      <4>3. ctrl2' = Toggled(ctrl2, b) /\ reg' = [reg EXCEPT ![t] = ctrl2'] /\ late' = late
        BY <1>5, <3>1, <3>4 DEF Executes, Serves, Asks, Forgets, Stops
      <4>4. reg'[t] = ctrl2'
        BY <1>1, <4>3 DEF CallTypes
      <4>5. b \notin late => ~Agree(b)'
        <5>1. b \notin late => Agree(b)
          BY <3>2, <4>2 DEF Ans
        <5>2. b \in ctrl2' <=> b \notin ctrl2
          BY <4>3 DEF Toggled
        <5> QED BY <3>3, <5>1, <5>2 DEF Agree
      <4>6. Waits(t, b)'
        BY <1>8, <3>4
      <4>7. \A u \in Threads : Waits(u, b)' => u = t
        BY <1>10, <4>1
      <4> QED BY <4>3, <4>4, <4>5, <4>6, <4>7 DEF Ans
    <3>5. CASE p[m].i \in Asks /\ p[m].bit = b
      <4>1. \A u \in Threads \ {t} : ~Waits(u, b)
        BY <1>2, <3>5, AsksAlone
      <4>2. \A u \in Threads : ~Waits(u, b)'
        BY <1>8, <1>10, <3>5, <4>1 DEF Asks
      <4>3. ctrl2' = ctrl2
        BY <1>5, <3>5 DEF Executes, Asks
      <4>4. b \in reg[t] <=> b \in ctrl2
        BY <1>7, <3>2, <3>5 DEF Ans
      <4>5. b \notin late' => Agree(b)
        <5>1. \/ late' = late \ {b} /\ (b \in state2) = (b \in reg[t])
              \/ late' = late \cup ({b} \cap Toggles)
          BY <1>5, <3>5 DEF Serves
        <5>2. ((b \in state2) = (b \in reg[t])) => (b \in state2 <=> b \in reg[t])
          OBVIOUS
        <5> QED BY <1>12, <4>4, <5>1, <5>2 DEF Agree
      <4> QED BY <3>3, <4>2, <4>3, <4>5 DEF Ans, Agree
    <3>6. CASE ~(p[m].i \in {"toggle"} \cup Asks /\ p[m].bit = b)
      <4>1. ~Waits(t, b) /\ ~Waits(t, b)'
        BY <1>7, <1>8, <3>6
      <4>2. b \in ctrl2' <=> b \in ctrl2
        <5>1. CASE p[m].i = "write"
          <6>1. ctrl2' = (ctrl2 \ p[m].off) \cup p[m].on
            BY <1>5, <3>1, <5>1 DEF Executes
          <6>2. b \notin p[m].off /\ b \notin p[m].on
            BY <1>3, <1>12, <5>1 DEF Plan
          <6> QED BY <6>1, <6>2
        <5>2. CASE p[m].i = "toggle"
          <6>1. ctrl2' = Toggled(ctrl2, p[m].bit) /\ p[m].bit # b
            BY <1>5, <3>1, <3>6, <5>2 DEF Executes
          <6> QED BY <6>1 DEF Toggled
        <5>3. CASE p[m].i = "reset"
          BY <1>5, <2>2, <5>3 DEF Serves
        <5>4. CASE p[m].i \notin {"write", "toggle", "reset"}
          BY <1>5, <5>4 DEF Executes
        <5> QED BY <5>1, <5>2, <5>3, <5>4
      <4>3. b \in late' <=> b \in late
        <5>1. CASE p[m].i \in Asks
          BY <1>5, <3>6, <5>1 DEF Serves
        <5>2. CASE p[m].i = "until_set"
          <6>1. p[m].bit \notin Toggles
            BY <1>3, <5>2 DEF Plan, Toggles
          <6> QED BY <1>5, <1>12, <5>2, <6>1 DEF Serves
        <5>3. CASE p[m].i = "rpc_wait"
          <6>1. b # "RPC"
            BY <1>12 DEF Toggles
          <6> QED BY <1>5, <5>3, <6>1 DEF Serves
        <5>4. CASE p[m].i = "reset"
          BY <1>5, <2>2, <5>4 DEF Serves
        <5>5. CASE p[m].i \notin Asks \cup {"until_set", "rpc_wait", "reset"}
          BY <1>5, <5>5 DEF Serves
        <5> QED BY <5>1, <5>2, <5>3, <5>4, <5>5
      <4>4. Agree(b)' <=> Agree(b)
        BY <3>3, <4>2 DEF Agree
      <4>5. \A u \in Threads : Waits(u, b)' <=> Waits(u, b)
        BY <1>10, <4>1
      <4>6. \A u \in Threads : Waits(u, b) => fresh'[u] = fresh[u] /\ reg'[u] = reg[u]
        BY <1>9, <4>1
      <4> QED BY <3>2, <4>2, <4>3, <4>4, <4>5, <4>6 DEF Ans
    <3> QED BY <3>4, <3>5, <3>6
  <2> QED BY <2>1, <2>2
<1> QED BY <1>11, <1>12 DEF AnsInv

\* So do the other steps: a call begins, the firmware serves one.
LEMMA AnsCalls ==
    ASSUME CallTypes, AnsInv, Calls
    PROVE  AnsInv'
<1>1. PICK t \in Threads : \E q : Begin(t, q) /\ Starts(q)
  BY CallsBegin
<1>2. PICK q : Begin(t, q) /\ Starts(q)
  BY <1>1
<1>3. UNCHANGED <<ctrl2, state2, reg, fresh, late, raced>>
  BY <1>2 DEF Begin, regVars, histVars
<1>4. todo[t] = <<>> /\ todo'[t] = q /\ \A u \in Threads \ {t} : todo'[u] = todo[u]
  BY <1>2 DEF Begin, Idle, CallTypes
<1>5. \A b : \A u \in Threads : Waits(u, b)' <=> Waits(u, b)
  BY <1>2, <1>4 DEF Waits, Starts, Asks
<1>6. \A b : Ans(b) => Ans(b)'
  BY <1>3, <1>5 DEF Ans, Agree
<1> QED BY <1>3, <1>6 DEF AnsInv

\* Whoever waits for an answer has its instruction before it.
LEMMA WaitsIs ==
    ASSUME SetInv, NEW t \in Threads, NEW b, Waits(t, b)
    PROVE  \E k \in DOMAIN todo[t] : todo[t][k] \in {Answer(b), AnswerOrNot(b)}
<1>1. PICK p, m : Stands(t, p, m)
  BY StandsIs DEF Waits
<1>2. IsProgram(p) /\ m \in 1 .. Len(p) /\ Plan(p, t) /\ todo[t] = Rest(p, m)
  BY <1>1 DEF Stands
<1>3. p[m].i \in Asks /\ p[m].bit = b
  BY <1>1, StandsHead DEF Waits
<1>4. p[m] \in {Answer(b), AnswerOrNot(b)}
  BY <1>2, <1>3 DEF Plan, Asks
<1>5. 1 \in DOMAIN todo[t] /\ todo[t][1] = p[m]
  <2>1. PICK S : p \in Seq(S)
    BY <1>2 DEF IsProgram
  <2>2. /\ Rest(p, m) \in Seq(S) /\ Len(Rest(p, m)) = Len(p) - m + 1
        /\ \A k \in 1 .. Len(p) - m + 1 : Rest(p, m)[k] = p[k + m - 1]
    BY <1>2, <2>1, RestIs
  <2>3. 1 \in 1 .. Len(p) - m + 1 /\ 1 + m - 1 = m
    BY <1>2, <2>1
  <2> QED BY <1>2, <2>2, <2>3
<1> QED BY <1>4, <1>5

LEMMA AnsFirmware ==
    ASSUME SetInv, AnsInv, Firmware \/ ResetRuns \/ UNCHANGED vars
    PROVE  AnsInv'
<1> USE DEF regVars, histVars
<1>1. ASSUME NEW b0 \in Toggles, ServeToggle(b0) PROVE AnsInv'
  <2>1. /\ UNCHANGED <<ctrl2, reg, todo, late, raced>>
        /\ state2' = Toggled(state2, b0) /\ ((b0 \in ctrl2) # (b0 \in state2))
    BY <1>1 DEF ServeToggle
  <2>2. \A u \in Threads : \A b : Waits(u, b)' <=> Waits(u, b)
    BY <2>1 DEF Waits
  <2>3. fresh' = [t \in Threads |-> fresh[t] \/ (~Idle(t) /\ \E k \in DOMAIN todo[t] :
                                     todo[t][k] \in {Answer(b0), AnswerOrNot(b0)})]
    BY <1>1 DEF ServeToggle
  <2>4. \A u \in Threads : (fresh[u] \/ Waits(u, b0)) => fresh'[u]
    <3>1. \A u \in Threads : Waits(u, b0) => ~Idle(u) /\ \E k \in DOMAIN todo[u] :
                                     todo[u][k] \in {Answer(b0), AnswerOrNot(b0)}
      BY WaitsIs DEF Waits, Idle
    <3> QED BY <2>3, <3>1
  <2>5. fresh' = [t \in Threads |-> fresh'[t]]
    BY <2>3
  <2>6. ASSUME NEW b \in Toggles, Ans(b) PROVE Ans(b)'
    <3>1. CASE b = b0
      <4>1. Agree(b)'
        BY <2>1, <3>1 DEF Agree, Toggled
      <4>2. \A u \in Threads : Waits(u, b)' => fresh'[u]
        BY <2>2, <2>4, <3>1
      <4>3. \A u \in Threads : Waits(u, b)' => (b \in reg'[u] <=> b \in ctrl2')
        BY <2>1, <2>2, <2>6 DEF Ans
      <4> QED BY <4>1, <4>2, <4>3 DEF Ans
    <3>2. CASE b # b0
      <4>1. Agree(b)' <=> Agree(b)
        BY <2>1, <3>2 DEF Agree, Toggled
      <4>2. \A u \in Threads : ~fresh'[u] => ~fresh[u]
        BY <2>4
      <4> QED BY <2>1, <2>2, <2>6, <4>1, <4>2 DEF Ans
    <3> QED BY <3>1, <3>2
  <2> QED BY <2>1, <2>5, <2>6 DEF AnsInv
<1>2. ASSUME UNCHANGED <<ctrl2, reg, todo, late, raced, fresh>>,
             \A b \in Toggles : b \in state2' <=> b \in state2
      PROVE  AnsInv'
  <2>1. \A b : \A u \in Threads : Waits(u, b)' <=> Waits(u, b)
    BY <1>2 DEF Waits
  <2>2. \A b \in Toggles : Ans(b) => Ans(b)'
    BY <1>2, <2>1 DEF Ans, Agree
  <2> QED BY <1>2, <2>2 DEF AnsInv
<1>3. ASSUME NEW b \in {"PROXY", "WOL"}, ServeMode(b) \/ DropMode(b) PROVE AnsInv'
  <2>1. UNCHANGED <<ctrl2, reg, todo, late, raced, fresh>>
    BY <1>3 DEF ServeMode, DropMode
  <2>2. state2' \in {state2 \cup {b}, state2 \ {b}} /\ b \notin Toggles
    BY <1>3 DEF ServeMode, DropMode, Toggles
  <2> QED BY <1>2, <2>1, <2>2
<1>4. CASE ServeRpc \/ Packet \/ DeviceStep \/ ResetRuns
  BY <1>2, <1>4 DEF ServeRpc, Packet, DeviceStep, ResetRuns
<1>5. CASE UNCHANGED vars
  BY <1>2, <1>5 DEF vars
<1> QED BY <1>1, <1>3, <1>4, <1>5 DEF Firmware

LEMMA AnsInit == CallInit => AnsInv
<1> SUFFICES ASSUME CallInit PROVE AnsInv
  OBVIOUS
<1>1. /\ todo = [t \in Threads |-> <<>>] /\ fresh = [t \in Threads |-> FALSE]
      /\ ctrl2 = {} /\ state2 = {}
  BY DEF CallInit
<1>2. \A b : \A u \in Threads : ~Waits(u, b)
  BY <1>1 DEF Waits
<1> QED BY <1>1, <1>2 DEF AnsInv, Ans, Agree

LEMMA AnsNext == SetInv /\ AnsInv /\ [CallNext]_vars => AnsInv'
<1> SUFFICES ASSUME SetInv, AnsInv, [CallNext]_vars PROVE AnsInv'
  OBVIOUS
<1>1. CASE Calls
  BY <1>1, AnsCalls DEF SetInv
<1>2. CASE \E t \in Threads : DoLock(t) \/ ThreadStep(t)
  BY <1>2, AnsStep DEF Step
<1>3. CASE ResetRuns \/ Firmware \/ UNCHANGED vars
  BY <1>3, AnsFirmware
<1> QED BY <1>1, <1>2, <1>3 DEF CallNext

\* Only its own step takes a thread past an instruction.
LEMMA AnswersStep ==
    ASSUME SetInv, [CallNext]_vars, NEW t \in Threads, todo[t] # <<>>,
           Head(todo[t]).i \in Asks, todo'[t] = Tail(todo[t])
    PROVE  Step(t)
<1>1. CallTypes
  BY DEF SetInv
<1>2. todo'[t] # todo[t]
  <2>1. PICK p, m : Stands(t, p, m)
    BY StandsIs
  <2>2. IsProgram(p) /\ m \in 1 .. Len(p) /\ todo[t] = Rest(p, m)
    BY <2>1 DEF Stands
  <2>3. PICK S : p \in Seq(S)
    BY <2>2 DEF IsProgram
  <2>4. Rest(p, m) \in Seq(S) /\ Len(Rest(p, m)) = Len(p) - m + 1
    BY <2>2, <2>3, RestIs
  <2>5. Len(Tail(Rest(p, m))) = Len(Rest(p, m)) - 1
    BY <2>2, <2>3, <2>4
  <2> QED BY <2>2, <2>3, <2>4, <2>5
<1>3. CASE Calls
  <2>1. PICK u \in Threads : \E q : Begin(u, q)
    BY <1>3, CallsBegin
  <2>2. u # t
    BY <2>1 DEF Begin, Idle
  <2> QED BY <1>1, <1>2, <2>1, <2>2 DEF Begin, CallTypes
<1>4. ASSUME NEW u \in Threads, DoLock(u) \/ ThreadStep(u) PROVE Step(t)
  <2>1. Step(u)
    BY <1>4 DEF Step
  <2>2. u # t => todo'[t] = todo[t]
    BY <1>1, <2>1, StepGoes DEF Goes, FailTo, CallTypes
  <2> QED BY <1>2, <2>1, <2>2
<1>5. CASE ResetRuns \/ Firmware \/ UNCHANGED vars
  <2>1. todo' = todo
    BY <1>5 DEF Firmware, ServeToggle, ServeMode, DropMode, ServeRpc, Packet, DeviceStep, ResetRuns,
                vars
  <2> QED BY <1>2, <2>1
<1> QED BY <1>3, <1>4, <1>5 DEF CallNext

LEMMA AnsHolds ==
    ASSUME SetInv, AnsInv, [CallNext]_vars, NEW t \in Threads,
           At(t, "answer") \/ At(t, "answer_or_not"), todo'[t] = Tail(todo[t])
    PROVE  fresh[t] \/ raced \/ Head(todo[t]).bit \in late \cup late'
<1> DEFINE b == Head(todo[t]).bit
<1>1. todo[t] # <<>> /\ Head(todo[t]).i \in Asks
  BY DEF At, Idle, Asks
<1>2. Step(t)
  BY <1>1, AnswersStep
<1>3. Serves(t, Head(todo[t]))
  BY <1>2, StepServes
<1>4. b \in Toggles
  <2>1. PICK p, m : Stands(t, p, m)
    BY <1>1, StandsIs
  <2>2. Head(todo[t]) = p[m]
    BY <2>1, StandsHead
  <2>3. p[m].bit \in BitsOf(t)
    BY <1>1, <2>1, <2>2 DEF Stands, Plan
  <2> QED BY <2>2, <2>3 DEF BitsOf, Toggles
<1>5. Waits(t, b)
  BY <1>1 DEF Waits
<1> SUFFICES ASSUME ~raced, b \notin late, b \notin late' PROVE fresh[t]
  OBVIOUS
<1>6. Ans(b)
  BY <1>4 DEF AnsInv
<1> HIDE DEF b
<1>7. (b \in state2) = (b \in reg[t])
  BY <1>1, <1>3, <1>4 DEF Serves, b
<1>8. b \in state2 <=> b \in reg[t]
  BY <1>7
<1> QED BY <1>5, <1>6, <1>8 DEF Ans, Agree

\* A request that is reported as answered has been served by the firmware since it was
\* made, unless an earlier one of its kind was given up or another thread raced
\* (aq_fw2x_update_stats, aq_fw2x_get_temp, aq_fw2x_send_fw_request).
THEOREM AnswerTheorem == CallSpec => AnswerIsFresh
<1> DEFINE A == \A t \in Threads :
          (At(t, "answer") \/ At(t, "answer_or_not")) /\ ~err'[t] /\ todo'[t] = Tail(todo[t])
          => \/ fresh[t] \/ raced
             \/ Head(todo[t]).bit \in late \cup late'
<1>1. CallInit => SetInv /\ AnsInv
  BY SetInvInit, AnsInit
<1>2. SetInv /\ AnsInv /\ [CallNext]_vars => SetInv' /\ AnsInv'
  BY SetInvNext, AnsNext
<1>3. SetInv /\ AnsInv /\ [CallNext]_vars => A
  BY AnsHolds
<1> HIDE DEF A
<1>4. CallSpec => [][A]_vars
  BY <1>1, <1>2, <1>3, PTL DEF CallSpec
<1>5. [][A]_vars => AnswerIsFresh
  BY DEF A, AnswerIsFresh
<1> QED BY <1>4, <1>5

-----------------------------------------------------------------------------
\* What is left of a program announces a request, or makes a remote call without
\* waiting for another.
Sends(q) ==
    /\ q # <<>> /\ Head(q).i \in {"read", "toggle", "answer"}
    /\ \E k \in DOMAIN q : q[k] = Answer("REQUEST")

Ready(q) ==
    \E j \in Nat \ {0} :
       /\ j \in DOMAIN q /\ q[j].i = "rpc_call"
       /\ \A i \in 1 .. j - 1 : q[i].i \in {"read", "write"}

\* A request that is announced, and a remote call the firmware has not served, have
\* their message in the area, and no remote call is made before the last one is served.
ReqInv ==
    /\ Sends(todo["user"]) /\ ~raced => mail = "request"
    /\ Ready(todo["rtnl"]) => st.tid = ctl
    /\ ~raced /\ "RPC" \notin late /\ st.tid # ctl => mail = rpc

\* The instructions of the rest of a program.
LEMMA RestHas ==
    ASSUME NEW p, IsProgram(p), NEW n \in 1 .. Len(p) + 1
    PROVE  /\ DOMAIN Rest(p, n) = 1 .. Len(p) - n + 1
           /\ \A k \in 1 .. Len(p) - n + 1 : Rest(p, n)[k] = p[k + n - 1]
<1>1. PICK S : p \in Seq(S)
  BY DEF IsProgram
<1>2. /\ Rest(p, n) \in Seq(S) /\ Len(Rest(p, n)) = Len(p) - n + 1
      /\ \A k \in 1 .. Len(p) - n + 1 : Rest(p, n)[k] = p[k + n - 1]
  BY <1>1, RestIs
<1> QED BY <1>1, <1>2

\* When the rest of a program is one or the other.
LEMMA ReadyIs ==
    ASSUME NEW p, IsProgram(p), NEW n \in 1 .. Len(p) + 1
    PROVE  Ready(Rest(p, n)) <=> n <= Len(p) /\ CallsNext(p, n)
<1> DEFINE q == Rest(p, n)
<1>1. DOMAIN q = 1 .. Len(p) - n + 1 /\ \A k \in 1 .. Len(p) - n + 1 : q[k] = p[k + n - 1]
  BY RestHas
<1>2. Len(p) \in Nat
  BY DEF IsProgram
<1> HIDE DEF q
<1>3. ASSUME Ready(q) PROVE n <= Len(p) /\ CallsNext(p, n)
  <2>1. PICK j \in Nat \ {0} : /\ j \in DOMAIN q /\ q[j].i = "rpc_call"
                               /\ \A i \in 1 .. j - 1 : q[i].i \in {"read", "write"}
    BY <1>3 DEF Ready
  <2>2. j \in 1 .. Len(p) - n + 1
    BY <1>1, <2>1
  <2>3. j + n - 1 \in n .. Len(p) /\ n <= Len(p)
    BY <1>2, <2>2
  <2>4. p[j + n - 1].i = "rpc_call"
    BY <1>1, <2>1, <2>2
  <2>5. ASSUME NEW i \in n .. (j + n - 1) - 1 PROVE p[i].i \in {"read", "write"}
    <3>1. i - n + 1 \in 1 .. j - 1 /\ i - n + 1 \in 1 .. Len(p) - n + 1 /\ (i - n + 1) + n - 1 = i
      BY <1>2, <2>2
    <3>2. q[i - n + 1] = p[i]
      BY <1>1, <3>1
    <3> QED BY <2>1, <3>1, <3>2
  <2> QED BY <2>3, <2>4, <2>5 DEF CallsNext
<1>4. ASSUME n <= Len(p), CallsNext(p, n) PROVE Ready(q)
  <2>1. PICK j \in n .. Len(p) : /\ p[j].i = "rpc_call"
                                 /\ \A i \in n .. j - 1 : p[i].i \in {"read", "write"}
    BY <1>4 DEF CallsNext
  <2>2. j - n + 1 \in 1 .. Len(p) - n + 1 /\ (j - n + 1) + n - 1 = j
    BY <1>2, <2>1
  <2>3. q[j - n + 1] = p[j] /\ j - n + 1 \in DOMAIN q /\ j - n + 1 \in Nat \ {0}
    BY <1>1, <2>2
  <2>4. ASSUME NEW i \in 1 .. (j - n + 1) - 1 PROVE q[i].i \in {"read", "write"}
    <3>1. i \in 1 .. Len(p) - n + 1 /\ i + n - 1 \in n .. j - 1
      BY <1>2, <2>1, <2>2
    <3> QED BY <1>1, <2>1, <3>1
  <2> QED BY <2>1, <2>3, <2>4 DEF Ready
<1> QED BY <1>3, <1>4 DEF q

LEMMA SendsIs ==
    /\ \A n \in 1 .. 7 : Sends(Rest(Request2, n)) <=> n \in 3 .. 5
    /\ \A n \in 1 .. 7 : ~Sends(Rest(Temp2, n))
    /\ \A n \in 1 .. 4 : ~Sends(Rest(Cable2, n))
<1>1. ASSUME NEW p, IsProgram(p), NEW n \in 1 .. Len(p) + 1, Sends(Rest(p, n))
      PROVE  /\ n <= Len(p) /\ p[n].i \in {"read", "toggle", "answer"}
             /\ \E k \in 1 .. Len(p) : p[k] = Answer("REQUEST")
  <2>1. Len(p) \in Nat
    BY <1>1 DEF IsProgram
  <2>2. /\ DOMAIN Rest(p, n) = 1 .. Len(p) - n + 1
        /\ \A k \in 1 .. Len(p) - n + 1 : Rest(p, n)[k] = p[k + n - 1]
    BY <1>1, RestHas
  <2>3. PICK k \in DOMAIN Rest(p, n) : Rest(p, n)[k] = Answer("REQUEST")
    BY <1>1 DEF Sends
  <2>4. k \in 1 .. Len(p) - n + 1 /\ k + n - 1 \in 1 .. Len(p) /\ n \in 1 .. Len(p)
    BY <2>1, <2>2, <2>3
  <2>5. p[k + n - 1] = Answer("REQUEST")
    BY <2>2, <2>3, <2>4
  <2>6. Head(Rest(p, n)) = p[n]
    BY <1>1, <2>4, RestSteps
  <2> QED BY <1>1, <2>4, <2>5, <2>6 DEF Sends
<1>2. ASSUME NEW n \in 1 .. 7, Sends(Rest(Request2, n)) PROVE n \in 3 .. 5
  <2>1. IsProgram(Request2) /\ Len(Request2) = 6
    BY Request2Is
  <2>2. n \in 1 .. Len(Request2) + 1
    BY <2>1
  <2>3. n <= 6 /\ Request2[n].i \in {"read", "toggle", "answer"}
    BY <1>1, <1>2, <2>1, <2>2
  <2> QED BY <2>3, Request2Ops
<1>3. ASSUME NEW n \in 3 .. 5 PROVE Sends(Rest(Request2, n))
  <2>1. n \in 1 .. Len(Request2) /\ n \in 1 .. Len(Request2) + 1 /\ IsProgram(Request2)
    BY Request2Is
  <2>2. Rest(Request2, n) # <<>> /\ Head(Rest(Request2, n)) = Request2[n]
    BY <2>1, RestSteps
  <2>3. 6 - n \in 1 .. 6 - n + 1 /\ (6 - n) + n - 1 = 5
    OBVIOUS
  <2>4. 6 - n \in DOMAIN Rest(Request2, n) /\ Rest(Request2, n)[6 - n] = Request2[5]
    <3>1. Len(Request2) = 6
      BY Request2Is
    <3>2. /\ DOMAIN Rest(Request2, n) = 1 .. 6 - n + 1
          /\ \A k \in 1 .. 6 - n + 1 : Rest(Request2, n)[k] = Request2[k + n - 1]
      BY <2>1, <3>1, RestHas
    <3> QED BY <2>3, <3>2
  <2>5. Request2[n].i \in {"read", "toggle", "answer"}
    BY Request2Ops
  <2> QED BY <2>2, <2>4, <2>5, Request2Is DEF Sends
<1>4. Answer("REQUEST").i = "answer"
  BY OpOf
<1>5. ASSUME NEW n \in 1 .. 7 PROVE ~Sends(Rest(Temp2, n))
  <2>1. IsProgram(Temp2) /\ Len(Temp2) = 6
    BY Temp2Is
  <2>2. \A k \in 1 .. 6 : Temp2[k] # Answer("REQUEST")
    BY <1>4, Temp2Ops
  <2>3. n \in 1 .. Len(Temp2) + 1
    BY <2>1
  <2> QED BY <1>1, <2>1, <2>2, <2>3
<1>6. ASSUME NEW n \in 1 .. 4 PROVE ~Sends(Rest(Cable2, n))
  <2>1. IsProgram(Cable2) /\ Len(Cable2) = 3
    BY Cable2Is
  <2>2. \A k \in 1 .. 3 : Cable2[k] # Answer("REQUEST")
    BY <1>4, Cable2Ops
  <2>3. n \in 1 .. Len(Cable2) + 1
    BY <2>1
  <2> QED BY <1>1, <2>1, <2>2, <2>3
<1> QED BY <1>2, <1>3, <1>5, <1>6

\* A thread that announces a request has the lock.
LEMMA SendsLocked ==
    ASSUME SetInv, Sends(todo["user"])
    PROVE  mutex = "user" /\ life # "absent" /\ AreaBusy("rtnl")
<1>1. todo["user"] # <<>>
  BY DEF Sends
<1>2. life # "absent"
  BY <1>1 DEF SetInv, UserInv
<1>3. PICK m \in 1 .. 6 : \/ Runs("user", Temp2, m, 2 .. 6, {3})
                          \/ Runs("user", Cable2, m, 2 .. 3, {})
                          \/ Runs("user", Request2, m, 2 .. 6, {4})
  BY <1>1 DEF SetInv, UserInv
<1>4. ~Runs("user", Temp2, m, 2 .. 6, {3})
  <2>1. ~Sends(Rest(Temp2, m))
    BY SendsIs
  <2> QED BY <2>1 DEF Runs
<1>5. ~Runs("user", Cable2, m, 2 .. 3, {})
  <2> SUFFICES ASSUME Runs("user", Cable2, m, 2 .. 3, {}) PROVE FALSE
    OBVIOUS
  <2>1. m \in 1 .. 4
    BY Cable2Is DEF Runs
  <2> QED BY <2>1, SendsIs DEF Runs
<1>6. mutex = "user"
  <2>1. m \in 3 .. 5
    BY <1>3, <1>4, <1>5, SendsIs DEF Runs
  <2> QED BY <1>3, <1>4, <1>5, <2>1 DEF Runs
<1>7. AreaBusy("rtnl")
  BY DEF Sends, AreaBusy, At, Idle, Threads
<1> QED BY <1>2, <1>6, <1>7

\* What executing an instruction does to the area and to the remote calls.
Sent(t, w) ==
    /\ w.i # "reset" /\ raced => raced'
    /\ w.i \notin {"upload", "rpc_call", "rpc_wait", "reset"} => UNCHANGED <<mail, rpc, ctl, st>>
    /\ w.i = "upload" =>
         /\ UNCHANGED <<rpc, ctl, st, late>>
         /\ \/ mail' = w.msg /\ (AreaBusy(t) => raced')
            \/ mail' = mail /\ FailTo(t, Stops)
    /\ w.i = "rpc_call" =>
         /\ UNCHANGED <<st, late>>
         /\ \/ mail' = rpc' /\ (AreaBusy(t) => raced')
            \/ UNCHANGED <<mail, ctl>> /\ FailTo(t, Stops)
    /\ w.i = "rpc_wait" =>
         /\ UNCHANGED st
         /\ \/ mail' = rpc /\ UNCHANGED <<rpc, todo, late>> /\ (AreaBusy(t) => raced')
            \/ /\ UNCHANGED <<mail, ctl>>
               /\ st.tid = ctl \/ (FailTo(t, Stops) /\ "RPC" \in late')
    /\ w.i = "reset" =>
         /\ UNCHANGED <<mail, rpc, ctl>>
         /\ UNCHANGED <<st, late, raced>> \/ st'.tid = ctl
         /\ FwUp => UNCHANGED <<st, state2>>

LEMMA StepSent ==
    ASSUME NEW t \in Threads, Step(t)
    PROVE  Sent(t, Head(todo[t]))
<1> USE DEF Sent, At, Idle, rpcVars, histVars
<1>1. CASE DoLock(t) \/ DoRead(t) \/ DoTry(t) \/ DoAccount(t) \/ DoNoLink(t) \/ DoCfg(t)
  BY <1>1 DEF DoLock, DoRead, DoTry, DoAccount, DoNoLink, DoCfg
<1>2. CASE DoUnlock(t) \/ DoReturn(t) \/ DoBecome(t) \/ DoOps(t)
  BY <1>2 DEF DoUnlock, DoReturn, DoBecome, DoOps
<1>3. CASE DoWrite(t) \/ DoToggle(t)
  BY <1>3 DEF DoWrite, DoToggle, PutControl
<1>4. CASE DoAnswer(t)
  BY <1>4 DEF DoAnswer
<1>5. Fail(t) => FailTo(t, Stops)
  BY DEF Fail, Stops
<1>6. ASSUME NEW x, PutMessage(t, x)
      PROVE  mail' = x /\ late' = late /\ (raced => raced') /\ (AreaBusy(t) => raced')
  BY <1>6 DEF PutMessage
<1>7. CASE DoUpload(t)
  <2>1. /\ Head(todo[t]).i = "upload"
        /\ PutMessage(t, Head(todo[t]).msg) \/ (Fail(t) /\ UNCHANGED <<mail, histVars>>)
        /\ UNCHANGED <<rpc, ctl, st>>
    BY <1>7 DEF DoUpload
  <2> QED BY <1>5, <1>6, <2>1
<1>8. CASE DoRpcCall(t)
  <2>1. /\ Head(todo[t]).i = "rpc_call"
        /\ PutMessage(t, rpc') \/ (Fail(t) /\ UNCHANGED <<mail, ctl, histVars>>)
        /\ UNCHANGED st
    BY <1>8 DEF DoRpcCall, RpcCallOk
  <2> QED BY <1>5, <1>6, <2>1
<1>9. CASE DoRpcWait(t)
  <2>1. /\ Head(todo[t]).i = "rpc_wait" /\ UNCHANGED st
        /\ \/ PutMessage(t, rpc) /\ UNCHANGED <<todo, rpc>>
           \/ /\ UNCHANGED <<mail, ctl, raced>>
              /\ st.tid = ctl \/ (Fail(t) /\ "RPC" \in late')
    BY <1>9 DEF DoRpcWait, RpcCallOk
  <2> QED BY <1>5, <1>6, <2>1
<1>10. CASE BeginReset(t)
  BY <1>10 DEF BeginReset, regVars
<1>11. CASE EndReset(t)
  BY <1>11 DEF EndReset, BootReturns, FwUp
<1> QED BY <1>1, <1>2, <1>3, <1>4, <1>7, <1>8, <1>9, <1>10, <1>11 DEF Step, ThreadStep

\* An error leaves a program at the end of a function, or at its own end.
LEMMA FailHead ==
    ASSUME CallTypes, NEW t \in Threads, NEW p, IsProgram(p), NEW m \in 1 .. Len(p),
           todo[t] = Rest(p, m), FailTo(t, Stops)
    PROVE  todo'[t] = <<>> \/ Head(todo'[t]).i \in Stops
<1>1. PICK n \in Int : ErrorGoes(p, m, n, Stops) /\ todo' = [todo EXCEPT ![t] = Rest(p, n)]
  BY FailMoves
<1>2. todo'[t] = Rest(p, n) /\ Len(p) \in Nat
  BY <1>1 DEF CallTypes, IsProgram
<1>3. CASE n <= Len(p)
  <2>1. n \in 1 .. Len(p) /\ p[n].i \in Stops
    BY <1>1, <1>2, <1>3 DEF ErrorGoes
  <2> QED BY <1>2, <2>1, RestSteps
<1>4. CASE n = Len(p) + 1
  BY <1>2, <1>4, RestEnds
<1> QED BY <1>1, <1>2, <1>3, <1>4 DEF ErrorGoes

\* A request is announced only with its message in the area.
LEMMA SendsStep ==
    ASSUME SetInv, ReqInv, Step("user"), Sends(todo'["user"]), ~raced'
    PROVE  mail' = "request"
<1>1. CallTypes /\ UserInv
  BY DEF SetInv
<1>2. todo["user"] # <<>>
  BY <1>1, StepGoes DEF CallTypes, Goes, Threads
<1>3. PICK m \in 1 .. 6 : \/ Runs("user", Temp2, m, 2 .. 6, {3})
                          \/ Runs("user", Cable2, m, 2 .. 3, {})
                          \/ Runs("user", Request2, m, 2 .. 6, {4})
  BY <1>1, <1>2 DEF UserInv
<1>4. ASSUME NEW p, Stands("user", p, m)
      PROVE  \E n \in 1 .. Len(p) + 1 : Follows(p, m, n) /\ todo'["user"] = Rest(p, n)
  BY <1>1, <1>4, StandsGoes DEF Threads
<1>5. CASE Runs("user", Temp2, m, 2 .. 6, {3})
  <2>1. PICK n \in 1 .. Len(Temp2) + 1 : todo'["user"] = Rest(Temp2, n)
    BY <1>4, <1>5, Temp2Stands
  <2>2. n \in 1 .. 7
    BY Temp2Is
  <2> QED BY <2>1, <2>2, SendsIs
<1>6. CASE Runs("user", Cable2, m, 2 .. 3, {})
  <2>1. PICK n \in 1 .. Len(Cable2) + 1 : todo'["user"] = Rest(Cable2, n)
    BY <1>4, <1>6, Cable2Stands
  <2>2. n \in 1 .. 4
    BY Cable2Is
  <2> QED BY <2>1, <2>2, SendsIs
<1>7. CASE Runs("user", Request2, m, 2 .. 6, {4})
  <2>1. Stands("user", Request2, m)
    BY <1>7, Request2Stands
  <2>2. PICK n \in 1 .. Len(Request2) + 1 :
          Follows(Request2, m, n) /\ todo'["user"] = Rest(Request2, n)
    BY <1>4, <2>1
  <2>3. n \in 1 .. 7
    BY Request2Is
  <2>4. n \in 3 .. 5
    BY <2>2, <2>3, SendsIs
  <2>5. n = m + 1 \/ (m \in {2, 5} /\ n = 6)
    BY <2>2, <2>4, Request2Move
  <2>6. m \in 2 .. 4
    BY <2>4, <2>5
  <2>7. Head(todo["user"]) = Request2[m]
    BY <2>1, StandsHead
  <2>8. Sent("user", Request2[m])
    BY <2>7, StepSent DEF Threads
  <2>9. CASE m = 2
    <3>1. Request2[m].i = "upload" /\ Request2[m].msg = "request"
      BY <2>9, Request2Is, OpOf
    <3>2. ~FailTo("user", Stops)
      <4>1. todo'["user"] # <<>> /\ Head(todo'["user"]).i \notin Stops
        BY DEF Sends, Stops
      <4>2. IsProgram(Request2) /\ m \in 1 .. Len(Request2) /\ todo["user"] = Rest(Request2, m)
        BY <2>1 DEF Stands
      <4> QED BY <1>1, <4>1, <4>2, FailHead DEF Threads
    <3> QED BY <2>8, <3>1, <3>2 DEF Sent
  <2>10. CASE m \in 3 .. 4
    <3>1. Request2[m].i \in {"read", "toggle"}
      BY <2>10, Request2Ops
    <3>2. mail' = mail /\ ~raced
      BY <2>8, <3>1 DEF Sent
    <3>3. Sends(Rest(Request2, m))
      BY <2>10, SendsIs
    <3> QED BY <2>1, <3>2, <3>3 DEF ReqInv, Stands
  <2> QED BY <2>6, <2>9, <2>10
<1> QED BY <1>3, <1>5, <1>6, <1>7

LEMMA ReqStep ==
    ASSUME SetInv, ReqInv, NEW t \in Threads, Step(t)
    PROVE  ReqInv'
<1>1. CallTypes
  BY DEF SetInv
<1>2. PICK p, m : Stands(t, p, m)
  <2>1. todo[t] # <<>>
    BY <1>1, StepGoes DEF CallTypes, Goes
  <2> QED BY <2>1, StandsIs
<1>3. /\ IsProgram(p) /\ m \in 1 .. Len(p) /\ Plan(p, t) /\ p[m].i \in Kinds(t)
      /\ Len(p) \in Nat /\ todo[t] = Rest(p, m)
  BY <1>2 DEF Stands, Plan, IsProgram
<1>4. Head(todo[t]) = p[m] /\ todo[t] # <<>>
  BY <1>2, StandsHead
<1>5. Sent(t, p[m]) /\ Serves(t, p[m])
  BY <1>4, StepServes, StepSent
<1>6. PICK n \in 1 .. Len(p) + 1 : /\ Follows(p, m, n) /\ todo'[t] = Rest(p, n)
                                   /\ \A u \in Threads \ {t} : todo'[u] = todo[u]
  BY <1>1, <1>2, StandsGoes
<1>7. /\ t # "rtnl" => p[m].i \notin {"rpc_call", "rpc_wait", "reset"}
      /\ t # "user" => p[m].i # "upload"
  <2>1. CASE t = "rtnl"
    BY <1>3, <2>1 DEF Kinds, Asks
  <2>2. CASE t = "service"
    BY <1>3, <2>2 DEF Kinds, Asks
  <2>3. CASE t = "user"
    BY <1>3, <2>3 DEF Kinds, Asks
  <2> QED BY <2>1, <2>2, <2>3 DEF Threads
<1>8. ASSUME Sends(todo'["user"]), ~raced' PROVE mail' = "request"
  <2>1. CASE t = "user"
    BY <1>8, <2>1, SendsStep
  <2>2. CASE t # "user"
    <3>1. Sends(todo["user"])
      BY <1>6, <1>8, <2>2 DEF Threads
    <3>2. mutex = "user" /\ life # "absent" /\ AreaBusy("rtnl")
      BY <3>1, SendsLocked
    <3>3. p[m].i # "reset"
      BY <1>2, <3>2 DEF Stands
    <3>4. ~raced
      BY <1>5, <1>8, <3>3 DEF Sent
    <3>5. mail = "request"
      BY <3>1, <3>4 DEF ReqInv
    <3>6. p[m].i \in {"rpc_call", "rpc_wait"} => AreaBusy(t)
      BY <1>7, <3>2
    <3>7. mail' = mail
      <4>1. CASE p[m].i \in {"rpc_call", "rpc_wait"}
        BY <1>5, <1>8, <3>6, <4>1 DEF Sent
      <4>2. CASE p[m].i \notin {"rpc_call", "rpc_wait"}
        BY <1>5, <1>7, <2>2, <3>3, <4>2 DEF Sent
      <4> QED BY <4>1, <4>2
    <3> QED BY <3>5, <3>7
  <2> QED BY <2>1, <2>2
<1>9. ASSUME Ready(todo'["rtnl"]) PROVE st'.tid = ctl'
  <2>1. CASE t # "rtnl"
    <3>1. UNCHANGED <<ctl, st>>
      BY <1>5, <1>7, <2>1 DEF Sent
    <3>2. Ready(todo["rtnl"])
      BY <1>6, <1>9, <2>1 DEF Threads
    <3> QED BY <3>1, <3>2 DEF ReqInv
  <2>2. CASE t = "rtnl"
    <3>1. n <= Len(p) /\ CallsNext(p, n)
      BY <1>3, <1>6, <1>9, <2>2, ReadyIs
    <3>2. n \in 1 .. Len(p) /\ n > 1 /\ p[n - 1].i \in {"rpc_wait", "read", "write"}
      BY <1>3, <3>1 DEF Plan
    <3>3. p[n].i \in {"rpc_call", "read", "write"}
      <4>1. PICK j \in n .. Len(p) : /\ p[j].i = "rpc_call"
                                     /\ \A i \in n .. j - 1 : p[i].i \in {"read", "write"}
        BY <3>1 DEF CallsNext
      <4>2. j = n \/ n \in n .. j - 1
        BY <1>3, <4>1
      <4> QED BY <4>1, <4>2
    <3>4. todo'[t] # <<>> /\ Head(todo'[t]) = p[n]
      BY <1>3, <1>6, <3>2, RestSteps
    <3>5. n = m + 1
      <4>1. n = m + 1 \/ (n = m /\ p[m].i \in {"reset", "rpc_wait"})
        BY <1>3, <1>6, <3>2, <3>3 DEF Follows, ErrorGoes, Stops
      <4> QED BY <3>3, <4>1
    <3>6. p[m].i \in {"rpc_wait", "read", "write"}
      <4>1. n - 1 = m
        BY <1>3, <3>5
      <4> QED BY <3>2, <4>1
    <3>7. CASE p[m].i \in {"read", "write"}
      <4>1. CallsNext(p, m)
        <5>1. PICK j \in n .. Len(p) : /\ p[j].i = "rpc_call"
                                       /\ \A i \in n .. j - 1 : p[i].i \in {"read", "write"}
          BY <3>1 DEF CallsNext
        <5>2. j \in m .. Len(p) /\ \A i \in m .. j - 1 : i = m \/ i \in n .. j - 1
          BY <1>3, <3>5, <5>1
        <5> QED BY <3>7, <5>1, <5>2 DEF CallsNext
      <4>2. Ready(todo["rtnl"])
        <5>1. m \in 1 .. Len(p) + 1 /\ m <= Len(p)
          BY <1>3
        <5> QED BY <1>3, <2>2, <4>1, <5>1, ReadyIs
      <4>3. UNCHANGED <<ctl, st>>
        BY <1>5, <3>7 DEF Sent
      <4> QED BY <4>2, <4>3 DEF ReqInv
    <3>8. CASE p[m].i = "rpc_wait"
      <4>1. todo' # todo
        BY <1>4, <3>3, <3>4, <3>8
      <4>2. ~FailTo(t, Stops)
        <5>1. Head(todo'[t]).i \notin Stops
          BY <3>3, <3>4 DEF Stops
        <5> QED BY <1>1, <1>3, <3>4, <5>1, FailHead
      <4>3. UNCHANGED <<ctl, st>> /\ st.tid = ctl
        BY <1>5, <3>8, <4>1, <4>2 DEF Sent
      <4> QED BY <4>3
    <3> QED BY <3>6, <3>7, <3>8
  <2> QED BY <2>1, <2>2
<1>10. ASSUME ~raced', "RPC" \notin late', st'.tid # ctl' PROVE mail' = rpc'
  <2>1. CASE p[m].i = "reset"
    <3>1. UNCHANGED <<mail, rpc, ctl, st, late, raced>>
      BY <1>5, <1>10, <2>1 DEF Sent
    <3> QED BY <1>10, <3>1 DEF ReqInv
  <2>2. CASE p[m].i = "rpc_call"
    <3>1. CallsNext(p, m)
      <4>1. m \in m .. Len(p) /\ \A i \in m .. m - 1 : FALSE
        BY <1>3
      <4> QED BY <2>2, <4>1 DEF CallsNext
    <3>2. st.tid = ctl
      <4>1. m \in 1 .. Len(p) + 1 /\ m <= Len(p) /\ t = "rtnl"
        BY <1>3, <1>7, <2>2
      <4>2. Ready(todo["rtnl"])
        BY <1>3, <3>1, <4>1, ReadyIs
      <4> QED BY <4>2 DEF ReqInv
    <3> QED BY <1>5, <1>10, <2>2, <3>2 DEF Sent
  <2>3. CASE p[m].i = "rpc_wait"
    BY <1>5, <1>10, <2>3 DEF Sent
  <2>4. CASE p[m].i = "upload"
    <3>1. UNCHANGED <<rpc, ctl, st, late>> /\ ~raced
      BY <1>5, <1>10, <2>4 DEF Sent
    <3>2. mail = rpc /\ st.tid # ctl
      BY <1>10, <3>1 DEF ReqInv
    <3>3. AreaBusy(t)
      BY <1>7, <2>4, <3>2 DEF AreaBusy, Threads
    <3> QED BY <1>5, <1>10, <2>4, <3>1, <3>2, <3>3 DEF Sent
  <2>5. CASE p[m].i \notin {"reset", "rpc_call", "rpc_wait", "upload"}
    <3>1. UNCHANGED <<mail, rpc, ctl, st>> /\ ~raced
      BY <1>5, <1>10, <2>5 DEF Sent
    <3>2. "RPC" \notin late
      <4>1. CASE p[m].i \in Asks \cup {"until_set"}
        <5>1. p[m].bit # "RPC"
          BY <1>3, <4>1 DEF Plan, BitsOf
        <5> QED BY <1>5, <1>10, <4>1, <5>1 DEF Serves
      <4>2. CASE p[m].i \notin Asks \cup {"until_set"}
        BY <1>5, <1>10, <2>5, <4>2 DEF Serves
      <4> QED BY <4>1, <4>2
    <3> QED BY <1>10, <3>1, <3>2 DEF ReqInv
  <2> QED BY <2>1, <2>2, <2>3, <2>4, <2>5
<1> QED BY <1>8, <1>9, <1>10 DEF ReqInv

\* The other steps: a call begins, or the firmware serves one.
LEMMA ReqCalls ==
    ASSUME CallTypes, ReqInv, Calls
    PROVE  ReqInv' /\ UNCHANGED <<state2, st>>
<1>1. PICK t \in Threads : \E q : Begin(t, q) /\ Starts(q)
  BY CallsBegin
<1>2. PICK q : Begin(t, q) /\ Starts(q)
  BY <1>1
<1>3. UNCHANGED <<mail, rpc, ctl, st, late, raced, state2>>
  BY <1>2 DEF Begin, rpcVars, regVars, histVars
<1>4. todo'[t] = q /\ \A u \in Threads \ {t} : todo'[u] = todo[u]
  BY <1>2 DEF Begin, CallTypes
<1>5. ~Sends(q)
  BY <1>2 DEF Sends, Starts
<1>6. ~Ready(q)
  <2> SUFFICES ASSUME Ready(q) PROVE FALSE
    OBVIOUS
  <2>1. PICK j \in Nat \ {0} : /\ j \in DOMAIN q /\ q[j].i = "rpc_call"
                               /\ \A i \in 1 .. j - 1 : q[i].i \in {"read", "write"}
    BY DEF Ready
  <2>2. q[1].i \in {"rpc_call", "read", "write"}
    <3>1. j = 1 \/ 1 \in 1 .. j - 1
      OBVIOUS
    <3> QED BY <2>1, <3>1
  <2>3. q # <<>>
    BY <2>1
  <2> QED BY <1>2, <2>2, <2>3 DEF Starts
<1>7. Sends(todo'["user"]) => Sends(todo["user"])
  BY <1>4, <1>5 DEF Threads
<1>8. Ready(todo'["rtnl"]) => Ready(todo["rtnl"])
  BY <1>4, <1>6 DEF Threads
<1> QED BY <1>3, <1>7, <1>8 DEF ReqInv

LEMMA ReqFirmware ==
    ASSUME ReqInv, Firmware \/ ResetRuns \/ UNCHANGED vars
    PROVE  ReqInv'
<1> USE DEF rpcVars, histVars
<1>1. CASE ServeRpc
  <2>1. UNCHANGED <<todo, mail, rpc, ctl, late, raced>> /\ st'.tid = ctl
    BY <1>1 DEF ServeRpc
  <2> QED BY <2>1 DEF ReqInv
<1>2. CASE ~ServeRpc
  <2>1. UNCHANGED <<todo, mail, rpc, ctl, st, late, raced>>
    BY <1>2 DEF Firmware, ServeToggle, ServeMode, DropMode, Packet, DeviceStep, ResetRuns, vars
  <2> QED BY <2>1 DEF ReqInv
<1> QED BY <1>1, <1>2

LEMMA ReqInit == CallInit => ReqInv
<1> SUFFICES ASSUME CallInit PROVE ReqInv
  OBVIOUS
<1>1. todo = [t \in Threads |-> <<>>] /\ st.tid = ctl
  BY DEF CallInit
<1>2. ~Sends(todo["user"])
  BY <1>1 DEF Sends, Threads
<1> QED BY <1>1, <1>2 DEF ReqInv

LEMMA ReqNext == SetInv /\ ReqInv /\ [CallNext]_vars => ReqInv'
<1> SUFFICES ASSUME SetInv, ReqInv, [CallNext]_vars PROVE ReqInv'
  OBVIOUS
<1>1. CASE Calls
  BY <1>1, ReqCalls DEF SetInv
<1>2. CASE \E t \in Threads : DoLock(t) \/ ThreadStep(t)
  BY <1>2, ReqStep DEF Step
<1>3. CASE ResetRuns \/ Firmware \/ UNCHANGED vars
  BY <1>3, ReqFirmware
<1> QED BY <1>1, <1>2, <1>3 DEF CallNext

\* Whoever waits for the answer to a request has announced it.
LEMMA WaitsSends ==
    ASSUME SetInv, NEW t \in Threads, Waits(t, "REQUEST")
    PROVE  Sends(todo["user"])
<1>1. PICK p, m : Stands(t, p, m)
  BY StandsIs DEF Waits
<1>2. p[m].i \in Asks /\ p[m].bit = "REQUEST"
  BY <1>1, StandsHead DEF Waits
<1>3. t = "user"
  <2>1. "REQUEST" \in BitsOf(t)
    BY <1>1, <1>2 DEF Stands, Plan
  <2> QED BY <2>1 DEF BitsOf
<1>4. todo["user"] # <<>> /\ UserInv
  BY <1>3 DEF Waits, SetInv
<1>5. PICK k \in 1 .. 6 : \/ Runs("user", Temp2, k, 2 .. 6, {3})
                          \/ Runs("user", Cable2, k, 2 .. 3, {})
                          \/ Runs("user", Request2, k, 2 .. 6, {4})
  BY <1>4 DEF UserInv
<1>6. ASSUME NEW q, Stands("user", q, k) PROVE q[k].i \in Asks /\ q[k].bit = "REQUEST"
  <2>1. Head(todo["user"]) = q[k]
    BY <1>6, StandsHead
  <2> QED BY <1>3, <2>1 DEF Waits
<1>7. ~Runs("user", Temp2, k, 2 .. 6, {3})
  <2> SUFFICES ASSUME Runs("user", Temp2, k, 2 .. 6, {3}) PROVE FALSE
    OBVIOUS
  <2>1. Stands("user", Temp2, k)
    BY Temp2Stands
  <2>2. Temp2[k].i \in Asks /\ Temp2[k].bit = "REQUEST"
    BY <1>6, <2>1
  <2>3. k = 4
    BY <2>2, Temp2Ops DEF Asks
  <2>4. Temp2[4].bit = "TEMP"
    BY Temp2Is, OpOf
  <2> QED BY <2>2, <2>3, <2>4
<1>8. ~Runs("user", Cable2, k, 2 .. 3, {})
  <2> SUFFICES ASSUME Runs("user", Cable2, k, 2 .. 3, {}) PROVE FALSE
    OBVIOUS
  <2>1. Stands("user", Cable2, k) /\ k \in 1 .. 3
    BY Cable2Stands, Cable2Is DEF Runs
  <2>2. Cable2[k].i \in Asks
    BY <1>6, <2>1
  <2> QED BY <2>1, <2>2, Cable2Ops DEF Asks
<1>9. Stands("user", Request2, k)
  BY <1>5, <1>7, <1>8, Request2Stands
<1>10. k = 5
  <2>1. Request2[k].i \in Asks
    BY <1>6, <1>9
  <2> QED BY <2>1, Request2Ops DEF Asks
<1> QED BY <1>9, <1>10, SendsIs DEF Stands

LEMMA ReqHolds ==
    ASSUME SetInv, AnsInv, ReqInv, [CallNext]_vars, ~raced, late = {}, FwUp
    PROVE  /\ ("REQUEST" \in state2) # ("REQUEST" \in state2') => mail = "request"
           /\ st'.tid # st.tid => mail = rpc
<1> USE DEF regVars, rpcVars, histVars
<1>1. CASE Calls
  <2>1. UNCHANGED <<state2, st>>
    BY <1>1, ReqCalls DEF SetInv
  <2> QED BY <2>1
<1>2. ASSUME NEW t \in Threads, DoLock(t) \/ ThreadStep(t)
      PROVE  state2' = state2 /\ st' = st
  <2>1. Step(t)
    BY <1>2 DEF Step
  <2>2. Sent(t, Head(todo[t])) /\ Serves(t, Head(todo[t]))
    BY <2>1, StepSent, StepServes
  <2>3. CASE Head(todo[t]).i = "reset"
    BY <2>2, <2>3 DEF Sent
  <2>4. CASE Head(todo[t]).i # "reset"
    <3>1. state2' = state2
      BY <2>2, <2>4 DEF Serves
    <3>2. st' = st
      BY <2>2, <2>4 DEF Sent
    <3> QED BY <3>1, <3>2
  <2> QED BY <2>3, <2>4
<1>3. ASSUME NEW b \in Toggles, ServeToggle(b)
      PROVE  /\ ("REQUEST" \in state2) # ("REQUEST" \in state2') => mail = "request"
             /\ st' = st
  <2>1. st' = st /\ state2' = Toggled(state2, b) /\ ((b \in ctrl2) # (b \in state2))
    BY <1>3 DEF ServeToggle
  <2>2. ASSUME b = "REQUEST" PROVE mail = "request"
    <3>1. ~Agree("REQUEST")
      BY <2>1, <2>2 DEF Agree
    <3>2. Ans("REQUEST")
      BY DEF AnsInv, Toggles
    <3>3. PICK t \in Threads : Waits(t, "REQUEST")
      BY <3>1, <3>2 DEF Ans
    <3>4. Sends(todo["user"])
      BY <3>3, WaitsSends
    <3> QED BY <3>4 DEF ReqInv
  <2>3. b # "REQUEST" => ("REQUEST" \in state2' <=> "REQUEST" \in state2)
    BY <2>1 DEF Toggled
  <2> QED BY <2>1, <2>2, <2>3
<1>4. ASSUME NEW b \in {"PROXY", "WOL"}, ServeMode(b) \/ DropMode(b)
      PROVE  ("REQUEST" \in state2' <=> "REQUEST" \in state2) /\ st' = st
  BY <1>4 DEF ServeMode, DropMode
<1>5. CASE ServeRpc
  <2>1. state2' = state2 /\ st.tid # ctl
    BY <1>5 DEF ServeRpc
  <2> QED BY <2>1 DEF ReqInv
<1>6. CASE Packet \/ DeviceStep \/ ResetRuns \/ UNCHANGED vars
  <2>1. state2' = state2 /\ st' = st
    BY <1>6 DEF Packet, DeviceStep, ResetRuns, vars
  <2> QED BY <2>1
<1> QED BY <1>1, <1>2, <1>3, <1>4, <1>5, <1>6 DEF CallNext, Firmware

\* The firmware serves a PTP request or a remote call with the message it was sent
\* with, although both use one area of its memory, unless two threads raced or one was
\* given up (aq_fw2x_send_fw_request, hw_atl_utils_fw_rpc_call, hw_atl_utils_fw_rpc_wait).
THEOREM RequestTheorem == CallSpec => RequestIntact
<1> DEFINE A == ~raced /\ late = {} =>
         /\ ("REQUEST" \in state2) # ("REQUEST" \in state2') /\ FwUp
            => mail = "request"
         /\ st'.tid # st.tid /\ FwUp => mail = rpc
<1>1. CallInit => SetInv /\ AnsInv /\ ReqInv
  BY SetInvInit, AnsInit, ReqInit
<1>2. SetInv /\ AnsInv /\ ReqInv /\ [CallNext]_vars => SetInv' /\ AnsInv' /\ ReqInv'
  BY SetInvNext, AnsNext, ReqNext
<1>3. SetInv /\ AnsInv /\ ReqInv /\ [CallNext]_vars => A
  BY ReqHolds
<1> HIDE DEF A
<1>4. CallSpec => [][A]_vars
  BY <1>1, <1>2, <1>3, PTL DEF CallSpec
<1>5. [][A]_vars => RequestIntact
  BY DEF A, RequestIntact
<1> QED BY <1>4, <1>5
=============================================================================

------------------------------- MODULE FwCall -------------------------------
(***************************************************************************)
(* The calls the driver makes to its firmware, and who makes them.         *)
(*                                                                         *)
(* Firmware 2.x and 3.x take settings as bits of one register, CONTROL2,   *)
(* which every call reads, changes and writes back, and requests as bits   *)
(* of it that are toggled and answered by the same bit of STATE2; 1.x has  *)
(* a control register with a state and a speed, and remote calls.  Three   *)
(* threads call: one under rtnl (open, close, ethtool), the service task,  *)
(* and user space through hwmon and /dev/ptp, which ESXi does not have.    *)
(* fwreq_mutex serialises them, but hw_init (on open) and set_power (on    *)
(* close with wake-on-LAN) run without it.                                 *)
(*                                                                         *)
(* A call is a sequence of instructions, as the code executes them; a      *)
(* thread holds the ones it has still to execute.  A transfer to or from   *)
(* the firmware's memory is one instruction here; FwAccess models it.      *)
(***************************************************************************)
EXTENDS FwBoot, Integers, Sequences, FiniteSetsExt

CONSTANTS
    Scenarios, \* records: the build, the calls made besides open and close, bounds on
               \* the opens, on the calls of user space and on the remote calls the
               \* firmware rejects, the settings asked for before, and the loader
               \* and firmware found
    CntMod,    \* the firmware's counters are kept modulo CntMod
    MaxPkts,   \* bound: packets the device ever counts
    TidMod,    \* the transaction numbers of remote calls
    None       \* no thread

ASSUME CallAssumption ==
    /\ CntMod \in Nat \ {0} /\ MaxPkts \in Nat
    /\ TidMod \in Nat \ {0, 1}

Threads == {"rtnl", "service", "user"}

ASSUME NoneAssumption == None \notin Threads

Toggles == {"STATS", "TEMP", "REQUEST"}
Settings == {"EEE", "PAUSE", "LOOPBACK"}
\* The states, and the other bits, of firmware 1.x's control register.
States1x == {"INIT", "DEINIT", "RESET", "POWER"}
Bits == Toggles \cup Settings \cup {"LINK_DROP", "RECONNECT", "PROXY", "WOL"}
             \cup States1x \cup {"SPEED", "DIRTY_WAKE"}

VARIABLES
    scen,      \* the scenario of this behaviour
    mutex,     \* the thread that holds fwreq_mutex, or None
    todo,      \* the instructions each thread has still to execute
    err,       \* err of the call a thread is in
    reg,       \* the control register as a thread has read it
    ctrl2,     \* CONTROL2 of firmware 2.x and 3.x, MPI_CONTROL of 1.x
    state2,    \* STATE2
    cfg,       \* aq_nic_cfg: the settings (and WOL) the user has asked for
    life,      \* absent, closed, open, closing; armed or dropped: closed without error
    mail,      \* the RPC area of the firmware's memory
    rpc,       \* self->rpc
    ctl,       \* RPC_CONTROL: the number of the last remote call
    st,        \* RPC_STATE: the number of the last one served, and its verdict
    rejects,   \* remote calls rejected so far
    made,      \* the opens and the calls of user space made so far
    mbps,      \* aq_link_status.mbps # 0
    cnt,       \* the device's counter
    mbox,      \* its value in the mailbox
    last,      \* last_stats
    curr,      \* curr_stats
    total,     \* history: the packets counted since the beginning
    fresh,     \* history: the firmware has served what a thread asked for
    late,      \* history: requests that were given up
    raced,     \* history: a write has undone or mixed up another thread's
    junk       \* history: statistics were taken from no valid mailbox

regVars == <<reg, ctrl2, state2>>
rpcVars == <<mail, rpc, ctl, st, rejects>>
statVars == <<mbps, cnt, mbox, last, curr, total, junk>>
histVars == <<fresh, late, raced>>
vars == <<bootVars, scen, made, mutex, todo, err, regVars, cfg, life, rpcVars,
          statVars, histVars>>

----------------------------------------------------------------------------
(* The instructions.                                                       *)

Do(i) == [i |-> i]
Lock == Do("lock")
Unlock == Do("unlock")
\* Unlock, and return if the call failed.
UnlockCheck == Do("unlock_check")
\* The end of a function whose error nobody looks at; stale: an error has left
\* last_stats as they were before the counters were reset.
Return(stale) == [i |-> "return", stale |-> stale]
Read == Do("read")
\* The value read is changed and written back.
Write(on, off) == [i |-> "write", on |-> on, off |-> off]
Toggle(b) == [i |-> "toggle", bit |-> b]
\* Wait for STATE2 to differ from what CONTROL2 was, or for a bit to be set.
Answer(b) == [i |-> "answer", bit |-> b]
AnswerOrNot(b) == [i |-> "answer_or_not", bit |-> b]
UntilSet(b) == [i |-> "until_set", bit |-> b]
\* A transfer or a wait that succeeds or fails and changes nothing else.
Try == Do("try")
Upload(m) == [i |-> "upload", msg |-> m]
RpcWait == Do("rpc_wait")
RpcCall(m) == [i |-> "rpc_call", msg |-> m]
Account == Do("account")
SetCfg(c) == [i |-> "cfg", cfg |-> c]
Become(l) == [i |-> "become", life |-> l]

(* The functions of hw_atl_utils.c, for firmware 1.x.                      *)
hw_atl_utils_mpi_create == <<Try, Try, RpcWait>>
hw_atl_utils_mpi_set_speed(on) == <<Read, Write(on, {"SPEED"})>>
\* The register is read before the wait for a new transaction_id.
hw_atl_utils_mpi_set_state(s) ==
    <<Read>> \o (IF s = "RESET" THEN <<Try>> ELSE <<>>)
    \o <<Write({s} \cup (IF s \in {"DEINIT", "POWER"} THEN {"DIRTY_WAKE"} ELSE {}),
               States1x \cup {"DIRTY_WAKE"})>>
hw_atl_fw1x_deinit ==
    hw_atl_utils_mpi_set_speed({}) \o hw_atl_utils_mpi_set_state("DEINIT")
hw_atl_utils_update_stats == <<Account>>
aq_fw1x_set_wol == <<RpcWait, RpcCall("wol")>>
aq_fw1x_set_power(c) ==
    (IF "WOL" \in c THEN aq_fw1x_set_wol \o <<RpcWait, RpcCall("wakeup")>> ELSE <<>>)
    \o hw_atl_utils_mpi_set_speed({}) \o hw_atl_utils_mpi_set_state("POWER")

(* Those of hw_atl_utils_fw2x.c.                                           *)
aq_fw2x_init == <<Try, Try>>
aq_fw2x_update_stats ==
    <<Read, Toggle("STATS"), Answer("STATS")>> \o hw_atl_utils_update_stats
aq_fw2x_get_temp == <<Read, Toggle("TEMP"), AnswerOrNot("TEMP"), Try>>
aq_fw2x_get_cable_len == <<Try>>
\* A slip: the request is announced before its message is there.
RequestThenUpload ==
    <<Read, Toggle("REQUEST"), Upload("request"), Answer("REQUEST")>>
aq_fw2x_send_fw_request ==
    <<Upload("request"), Read, Toggle("REQUEST"), Answer("REQUEST")>>
aq_fw2x_get_eee_rate == <<Try, Try>>
aq_fw2x_set_eee_rate(on) ==
    <<Read, Write(IF on THEN {"EEE"} ELSE {}, {"EEE"})>>
aq_fw2x_set_flow_control(c) ==
    <<Read, Write(c \cap {"PAUSE"}, {"PAUSE"})>>
aq_fw2x_set_phyloopback(c) ==
    <<Read, Write(c \cap {"LOOPBACK"}, {"LOOPBACK"})>>
aq_fw2x_renegotiate == <<Read, Write({"RECONNECT"}, {})>>
\* A slip: flow control is not set again on INIT.
SetStateNoPause(s, c) ==
    <<Read,
      CASE s = "INIT"   -> Write(c \cap {"EEE"}, {"LINK_DROP", "EEE"})
        [] s = "DEINIT" -> Write({"LINK_DROP"}, {})
        [] OTHER        -> Write({}, {})>>
aq_fw2x_set_state(s, c) ==
    <<Read,
      CASE s = "INIT"   -> Write(c \cap {"EEE", "PAUSE"}, {"LINK_DROP", "EEE", "PAUSE"})
        [] s = "DEINIT" -> Write({"LINK_DROP"}, {})
        [] OTHER        -> Write({}, {})>>
aq_fw2x_set_sleep_proxy ==
    <<RpcWait, Read, Write({}, {"PROXY", "LINK_DROP"}), RpcCall("proxy"),
      Write({"PROXY"}, {}), UntilSet("PROXY")>>
aq_fw2x_set_wol_params ==
    <<RpcWait, Read, Write({}, {"PROXY", "WOL"}), RpcCall("wol"),
      Write({"WOL"}, {}), UntilSet("WOL")>>
\* An error of the first part skips the second.
aq_fw2x_set_power(c) ==
    IF "WOL" \in c THEN aq_fw2x_set_sleep_proxy \o aq_fw2x_set_wol_params ELSE <<>>

(* self->aq_fw_ops, and the callers.                                       *)
Fw1x == major = 1
FwInit == IF Fw1x THEN hw_atl_utils_mpi_create ELSE aq_fw2x_init
SetLinkSpeed == IF Fw1x THEN hw_atl_utils_mpi_set_speed({"SPEED"}) ELSE <<>>
SetState(s, c) ==
    IF Fw1x THEN hw_atl_utils_mpi_set_state(s) ELSE aq_fw2x_set_state(s, c)
UpdateStats == IF Fw1x THEN hw_atl_utils_update_stats ELSE aq_fw2x_update_stats
Deinit == IF Fw1x THEN hw_atl_fw1x_deinit ELSE aq_fw2x_set_state("DEINIT", {})
SetPower(c) == IF Fw1x THEN aq_fw1x_set_power(c) ELSE aq_fw2x_set_power(c)

Locked(prog) == <<Lock>> \o prog \o <<Unlock>>
hw_atl_utils_initfw == <<Do("reset"), Do("ops")>> \o FwInit \o <<Become("closed")>>
\* The result of set_state is not looked at.
hw_reset == <<Do("reset")>> \o SetState("RESET", {}) \o <<Return(FALSE)>>
\* A slip: the link status is not reset before the counters are read.
InitKeepsLink(c) ==
    SetLinkSpeed \o SetState("INIT", c) \o UpdateStats \o <<Return(TRUE)>>
hw_init(c) ==
    SetLinkSpeed \o SetState("INIT", c) \o <<Do("no_link")>> \o UpdateStats \o <<Return(TRUE)>>
aq_nic_setloopback(c) == IF Fw1x THEN <<>> ELSE Locked(aq_fw2x_set_phyloopback(c))
aq_nic_open(c) ==
    <<Lock>> \o hw_reset \o <<UnlockCheck>> \o hw_init(c)
    \o aq_nic_setloopback(c) \o <<Become("open")>>
aq_nic_close(c) ==
    <<Become("closing"), Become("closed")>> \o Locked(Deinit)
    \o (IF "WOL" \in c THEN SetPower(c) \o <<Become("armed")>>
                       ELSE <<Become("dropped")>>)
aq_ethtool_set_eee(on, c) ==
    <<Lock>> \o aq_fw2x_get_eee_rate
    \o <<UnlockCheck, SetCfg(IF on THEN c \cup {"EEE"} ELSE c \ {"EEE"})>>
    \o Locked(aq_fw2x_set_eee_rate(on))

Toggled(c, s) == IF s \in c THEN c \ {s} ELSE c \cup {s}

----------------------------------------------------------------------------
CallInit ==
    /\ BootInit
    /\ scen \in Scenarios
    /\ fast \in scen.fast /\ chain \in scen.chain /\ fw \in scen.fw
    /\ mutex = None
    /\ todo = [t \in Threads |-> <<>>]
    /\ err = [t \in Threads |-> FALSE]
    /\ reg = [t \in Threads |-> {}]
    /\ ctrl2 = {} /\ state2 = {}
    /\ cfg = scen.cfg /\ life = "absent"
    /\ mail = "none" /\ rpc = "none" /\ ctl = 0 /\ st = [tid |-> 0, bad |-> FALSE]
    /\ rejects = 0 /\ made = [opens |-> 0, user |-> 0]
    /\ mbps = FALSE
    /\ cnt = 0 /\ mbox = 0 /\ last = 0 /\ curr = 0 /\ total = 0
    /\ fresh = [t \in Threads |-> FALSE]
    /\ late = {} /\ raced = FALSE /\ junk = FALSE

(* A thread begins a call.  Calls of ethtool, hwmon and /dev/ptp need a    *)
(* probed device, some of them one of the operations firmware 2.x adds.    *)
Idle(t) == todo[t] = <<>>
Made(op) == op \in scen.ops
Linux == scen.build = "linux"
Probed == life # "absent"

Begin(t, prog) ==
    /\ Idle(t)
    /\ todo' = [todo EXCEPT ![t] = prog]
    /\ err' = [err EXCEPT ![t] = FALSE]
    /\ UNCHANGED <<bootVars, scen, mutex, regVars, life, rpcVars,
                   cnt, mbox, last, curr, total, junk, histVars>>
Same == UNCHANGED <<cfg, mbps>>

Probe == ~Probed /\ Begin("rtnl", hw_atl_utils_initfw) /\ Same
Open ==
    /\ Probed /\ life # "open" /\ made.opens < scen.opens
    /\ made' = [made EXCEPT !.opens = @ + 1]
    /\ Begin("rtnl", aq_nic_open(cfg)) /\ Same
Close == life = "open" /\ Begin("rtnl", aq_nic_close(cfg)) /\ Same
EthtoolStats ==
    Made("stats") /\ Probed /\ Begin("rtnl", Locked(UpdateStats)) /\ Same
GetEee ==
    /\ Made("eee") /\ Linux /\ Probed /\ ~Fw1x
    /\ Begin("rtnl", Locked(aq_fw2x_get_eee_rate)) /\ Same
SetEee ==
    /\ Made("eee") /\ Linux /\ Probed /\ ~Fw1x
    /\ \E on \in BOOLEAN : Begin("rtnl", aq_ethtool_set_eee(on, cfg))
    /\ Same
\* The setting is noted before the lock is taken.
SetPauseparam ==
    /\ Made("pause") /\ Probed /\ ~Fw1x
    /\ cfg' = Toggled(cfg, "PAUSE")
    /\ Begin("rtnl", Locked(aq_fw2x_set_flow_control(cfg')))
    /\ UNCHANGED mbps
\* The loopback flag is noted after the call.
SetPrivFlags ==
    /\ Made("loopback") /\ Linux /\ Probed /\ ~Fw1x
    /\ LET c == Toggled(cfg, "LOOPBACK")
       IN  Begin("rtnl", aq_nic_setloopback(c) \o <<SetCfg(c)>>)
    /\ Same
NwayReset ==
    /\ Made("nway") /\ life = "open" /\ ~Fw1x
    /\ Begin("rtnl", Locked(aq_fw2x_renegotiate)) /\ Same
SetWol ==
    /\ Made("wol") /\ Probed
    /\ cfg' = Toggled(cfg, "WOL")
    /\ Begin("rtnl", <<>>)
    /\ UNCHANGED mbps
\* aq_nic_service_task: the link state is read, then the statistics.
ServiceTask ==
    /\ Made("service") /\ life = "open"
    /\ mbps' \in BOOLEAN
    /\ Begin("service", Locked(UpdateStats))
    /\ UNCHANGED cfg
User(op, prog) ==
    /\ Made(op) /\ Linux /\ Probed /\ ~Fw1x /\ made.user < scen.user
    /\ made' = [made EXCEPT !.user = @ + 1]
    /\ Begin("user", Locked(prog)) /\ Same
HwmonTemp == User("temp", aq_fw2x_get_temp)
HwmonCable == User("cable", aq_fw2x_get_cable_len)
PtpRequest == User("request", aq_fw2x_send_fw_request)

Calls ==
    \/ Open \/ HwmonTemp \/ HwmonCable \/ PtpRequest
    \/ /\ \/ Probe \/ Close \/ EthtoolStats \/ GetEee \/ SetEee \/ SetPauseparam
          \/ SetPrivFlags \/ NwayReset \/ SetWol \/ ServiceTask
       /\ UNCHANGED made

----------------------------------------------------------------------------
(* A thread executes its next instruction.                                 *)

At(t, i) == ~Idle(t) /\ Head(todo[t]).i = i
Continue(t) == todo' = [todo EXCEPT ![t] = Tail(@)] /\ UNCHANGED err
\* The end of a function: its local variables are gone.
Forget(t) == reg' = [reg EXCEPT ![t] = {}] /\ fresh' = [fresh EXCEPT ![t] = FALSE]

\* What is left of p from the first instruction in stops on.
From(p, stops) ==
    LET K == {k \in DOMAIN p : p[k].i \in stops}
    IN  IF K = {} THEN <<>> ELSE SubSeq(p, Min(K), Len(p))
FailTo(t, stops) ==
    LET rest == From(Tail(todo[t]), stops) IN
    /\ todo' = [todo EXCEPT ![t] = rest]
    /\ err' = [err EXCEPT ![t] = rest # <<>>]
\* A slip: the error path misses the unlock.
FailPastUnlock(t) == FailTo(t, {"return"})
Fail(t) == FailTo(t, {"unlock", "unlock_check", "return"})

DoLock(t) ==
    /\ At(t, "lock") /\ mutex = None
    /\ mutex' = t
    /\ Continue(t)
    /\ UNCHANGED <<bootVars, scen, made, regVars, cfg, life, rpcVars, statVars, histVars>>

DoUnlock(t) ==
    /\ At(t, "unlock") \/ At(t, "unlock_check")
    /\ mutex' = None
    /\ IF At(t, "unlock_check") /\ err[t] THEN FailTo(t, {})
       ELSE /\ todo' = [todo EXCEPT ![t] = Tail(@)]
            /\ err' = [err EXCEPT ![t] = FALSE]
    /\ Forget(t)
    /\ UNCHANGED <<bootVars, scen, made, ctrl2, state2, cfg, life, rpcVars, statVars, late, raced>>

DoReturn(t) ==
    /\ At(t, "return")
    /\ todo' = [todo EXCEPT ![t] = Tail(@)]
    /\ err' = [err EXCEPT ![t] = FALSE]
    /\ junk' = (junk \/ (err[t] /\ Head(todo[t]).stale))
    /\ Forget(t)
    /\ UNCHANGED <<bootVars, scen, made, mutex, ctrl2, state2, cfg, life, rpcVars,
                   mbps, cnt, mbox, last, curr, total, late, raced>>

DoRead(t) ==
    /\ At(t, "read")
    /\ reg' = [reg EXCEPT ![t] = ctrl2]
    /\ Continue(t)
    /\ UNCHANGED <<bootVars, scen, made, mutex, ctrl2, state2, cfg, life, rpcVars,
                   statVars, histVars>>

PutControl(t, v) ==
    /\ ctrl2' = v
    /\ reg' = [reg EXCEPT ![t] = v]
    /\ raced' = (raced \/ reg[t] # ctrl2)
    /\ Continue(t)
    /\ UNCHANGED <<bootVars, scen, made, mutex, state2, cfg, life, rpcVars, statVars, late>>

DoWrite(t) ==
    /\ At(t, "write")
    /\ LET w == Head(todo[t]) IN PutControl(t, (reg[t] \ w.off) \cup w.on)
    /\ UNCHANGED fresh

DoToggle(t) ==
    /\ At(t, "toggle")
    /\ PutControl(t, Toggled(reg[t], Head(todo[t]).bit))
    /\ fresh' = [fresh EXCEPT ![t] = FALSE]

\* reg[t] now holds the bit as it was written.
\* A slip: the answer is compared with the bit as it was written.
AnsweredAtOnce(t, b) == (b \in state2) # (b \in reg[t])
Answered(t, b) == (b \in state2) = (b \in reg[t])

DoAnswer(t) ==
    /\ At(t, "answer") \/ At(t, "answer_or_not") \/ At(t, "until_set")
    /\ LET b == Head(todo[t]).bit IN
         \/ /\ IF At(t, "until_set") THEN b \in state2 ELSE Answered(t, b)
            /\ late' = late \ {b}
            /\ Continue(t)
         \/ \* the tries are used up
            /\ late' = late \cup ({b} \cap Toggles)
            /\ IF At(t, "answer_or_not") THEN Continue(t) ELSE Fail(t)
    /\ UNCHANGED <<bootVars, scen, made, mutex, regVars, cfg, life, rpcVars, statVars,
                   fresh, raced>>

DoTry(t) ==
    /\ At(t, "try")
    /\ Continue(t) \/ Fail(t)
    /\ UNCHANGED <<bootVars, scen, made, mutex, regVars, cfg, life, rpcVars, statVars, histVars>>

\* Another thread's message is in the RPC area and not consumed yet.
AreaBusy(t) ==
    \/ st.tid # ctl /\ t # "rtnl"
    \/ \E u \in Threads \ {t} :
           /\ At(u, "read") \/ At(u, "toggle") \/ At(u, "answer")
           /\ \E k \in DOMAIN todo[u] : todo[u][k] = Answer("REQUEST")

\* hw_atl_utils_fw_upload_dwords, which tries to get the semaphore once.
PutMessage(t, m) ==
    /\ mail' = m
    /\ raced' = (raced \/ AreaBusy(t))
    /\ UNCHANGED <<fresh, late>>

DoUpload(t) ==
    /\ At(t, "upload")
    /\ \/ PutMessage(t, Head(todo[t]).msg) /\ Continue(t)
       \/ Fail(t) /\ UNCHANGED <<mail, histVars>>
    /\ UNCHANGED <<bootVars, scen, made, mutex, regVars, cfg, life, rpc, ctl, st, rejects,
                   statVars>>

\* hw_atl_utils_fw_rpc_call, for the message in self->rpc
RpcCallOk(t, m) ==
    /\ PutMessage(t, m)
    /\ ctl' = (ctl + 1) % TidMod

DoRpcCall(t) ==
    /\ At(t, "rpc_call")
    /\ rpc' = Head(todo[t]).msg
    /\ \/ RpcCallOk(t, rpc') /\ Continue(t)
       \/ Fail(t) /\ UNCHANGED <<mail, ctl, histVars>>
    /\ UNCHANGED <<bootVars, scen, made, mutex, regVars, cfg, life, st, rejects, statVars>>

\* hw_atl_utils_fw_rpc_wait: a call the firmware rejected is made again, as
\* often as it is rejected; the answer to one it accepted is downloaded.
DoRpcWait(t) ==
    /\ At(t, "rpc_wait")
    /\ \/ /\ st.tid = ctl /\ st.bad
          /\ \/ RpcCallOk(t, rpc) /\ UNCHANGED <<todo, err, rpc>>
             \/ Fail(t) /\ UNCHANGED <<mail, ctl, rpc, histVars>>
       \/ /\ st.tid = ctl /\ ~st.bad
          /\ \/ rpc' \in {rpc, mail} /\ Continue(t) /\ late' = late \ {"RPC"}
             \/ Fail(t) /\ UNCHANGED <<rpc, late>>
          /\ UNCHANGED <<mail, ctl, fresh, raced>>
       \/ \* the tries are used up
          /\ Fail(t)
          /\ late' = late \cup {"RPC"}
          /\ UNCHANGED <<mail, ctl, rpc, fresh, raced>>
    /\ UNCHANGED <<bootVars, scen, made, mutex, regVars, cfg, life, st, rejects, statVars>>

\* hw_atl_utils_update_stats: the differences are added only while the link is
\* up; a failed read leaves the local mbox, and so the sums and last_stats,
\* with any value: junk, which is not followed further.
DoAccount(t) ==
    /\ At(t, "account")
    /\ \E failed \in BOOLEAN : junk' = (junk \/ failed)
    /\ curr' = IF mbps /\ ~junk' THEN curr + ((mbox - last) % CntMod) ELSE curr
    /\ last' = IF ~junk' THEN mbox ELSE last
    /\ Continue(t)
    /\ UNCHANGED <<bootVars, scen, made, mutex, regVars, cfg, life, rpcVars,
                   mbps, cnt, mbox, total, histVars>>

DoNoLink(t) ==
    /\ At(t, "no_link")
    /\ mbps' = FALSE
    /\ Continue(t)
    /\ UNCHANGED <<bootVars, scen, made, mutex, regVars, cfg, life, rpcVars,
                   cnt, mbox, last, curr, total, junk, histVars>>

DoCfg(t) ==
    /\ At(t, "cfg")
    /\ cfg' = Head(todo[t]).cfg
    /\ Continue(t)
    /\ UNCHANGED <<bootVars, scen, made, mutex, regVars, life, rpcVars, statVars, histVars>>

\* Closing stops the service timer, then waits for the task (cancel_work_sync).
DoBecome(t) ==
    /\ At(t, "become")
    /\ life = "closing" => Idle("service")
    /\ life' = Head(todo[t]).life
    /\ Continue(t)
    /\ Forget(t)
    /\ UNCHANGED <<bootVars, scen, made, mutex, ctrl2, state2, cfg, rpcVars, statVars,
                   late, raced>>

\* hw_atl_utils_initfw knows the firmware's operations only for 1.x to 3.x.
DoOps(t) ==
    /\ At(t, "ops")
    /\ IF major \in 1 .. 3 THEN Continue(t) ELSE Fail(t)
    /\ UNCHANGED <<bootVars, scen, made, mutex, regVars, cfg, life, rpcVars, statVars, histVars>>

BeginReset(t) ==
    /\ At(t, "reset") /\ SoftReset
    /\ UNCHANGED <<scen, made, mutex, todo, err, regVars, cfg, life, rpcVars, statVars, histVars>>

ResetRuns ==
    /\ BootStep
    /\ UNCHANGED <<scen, made, mutex, todo, err, regVars, cfg, life, rpcVars, statVars, histVars>>

\* The registers after a reset are external: cleared or as they were, and the
\* firmware takes the requests in them as answered.
EndReset(t) ==
    /\ At(t, "reset") /\ BootReturns
    /\ IF bpc = "ok"
       THEN /\ ctrl2' \in {{}, ctrl2} /\ state2' = ctrl2' \cap Toggles
            /\ st' = [tid |-> ctl, bad |-> FALSE]
            /\ cnt' = 0 /\ mbox' = 0
            /\ late' = {} /\ raced' = FALSE
            /\ Continue(t)
            /\ UNCHANGED junk
       ELSE /\ FailTo(t, {"unlock_check"})
            /\ junk' = TRUE
            /\ UNCHANGED <<ctrl2, state2, st, cnt, mbox, late, raced>>
    /\ UNCHANGED <<scen, made, mutex, reg, cfg, life, mail, rpc, ctl, rejects,
                   mbps, last, curr, total, fresh>>

ThreadStep(t) ==
    \/ DoUnlock(t) \/ DoReturn(t) \/ DoRead(t) \/ DoWrite(t) \/ DoToggle(t)
    \/ DoAnswer(t) \/ DoTry(t) \/ DoUpload(t) \/ DoRpcCall(t) \/ DoRpcWait(t)
    \/ DoAccount(t) \/ DoNoLink(t) \/ DoCfg(t) \/ DoBecome(t) \/ DoOps(t)
    \/ BeginReset(t) \/ EndReset(t)

----------------------------------------------------------------------------
(* The firmware and the device, modelled from how the code uses them.      *)

FwUp == fw = "up" /\ bpc = "idle"

\* A request is served: STATE2 takes the bit of CONTROL2.
ServeToggle(b) ==
    /\ FwUp /\ ~Fw1x
    /\ (b \in ctrl2) # (b \in state2)
    /\ state2' = Toggled(state2, b)
    /\ mbox' = IF b = "STATS" THEN cnt ELSE mbox
    /\ fresh' = [t \in Threads |->
                    fresh[t] \/ (~Idle(t) /\ \E k \in DOMAIN todo[t] :
                                     todo[t][k] \in {Answer(b), AnswerOrNot(b)})]
    /\ UNCHANGED <<bootVars, scen, made, mutex, todo, err, reg, ctrl2, cfg, life, rpcVars,
                   mbps, cnt, last, curr, total, junk, late, raced>>

\* PROXY and WOL are reported once set and the message has been consumed.
ServeMode(b) ==
    /\ FwUp /\ ~Fw1x
    /\ b \in ctrl2 \ state2 /\ st.tid = ctl
    /\ state2' = state2 \cup {b}
    /\ UNCHANGED <<bootVars, scen, made, mutex, todo, err, reg, ctrl2, cfg, life, rpcVars,
                   statVars, histVars>>

DropMode(b) ==
    /\ FwUp /\ b \in state2 \ ctrl2
    /\ state2' = state2 \ {b}
    /\ UNCHANGED <<bootVars, scen, made, mutex, todo, err, reg, ctrl2, cfg, life, rpcVars,
                   statVars, histVars>>

ServeRpc ==
    /\ FwUp /\ st.tid # ctl
    /\ \E bad \in BOOLEAN :
         /\ bad => rejects < scen.rejects
         /\ st' = [tid |-> ctl, bad |-> bad]
         /\ rejects' = rejects + (IF bad THEN 1 ELSE 0)
    /\ UNCHANGED <<bootVars, scen, made, mutex, todo, err, regVars, cfg, life, mail, rpc, ctl,
                   statVars, histVars>>

Packet ==
    /\ FwUp /\ life = "open" /\ Made("stats") /\ total < MaxPkts
    /\ cnt' = (cnt + 1) % CntMod
    /\ total' = total + 1
    /\ mbox' = IF Fw1x THEN cnt' ELSE mbox
    /\ UNCHANGED <<bootVars, scen, made, mutex, todo, err, regVars, cfg, life, rpcVars,
                   mbps, last, curr, junk, histVars>>

DeviceStep ==
    /\ DeviceBoots
    /\ UNCHANGED <<scen, made, mutex, todo, err, regVars, cfg, life, rpcVars, statVars, histVars>>

Firmware ==
    \/ \E b \in Toggles : ServeToggle(b)
    \/ \E b \in {"PROXY", "WOL"} : ServeMode(b) \/ DropMode(b)
    \/ ServeRpc \/ Packet \/ DeviceStep

----------------------------------------------------------------------------
CallNext ==
    \/ Calls
    \/ \E t \in Threads : DoLock(t) \/ ThreadStep(t)
    \/ ResetRuns
    \/ Firmware

\* Every wait of the code is bounded by its tries, so a thread always takes
\* its next step, and a kernel mutex is not withheld from one waiter forever.
\* Nothing is assumed of the firmware.
Fairness ==
    /\ \A t \in Threads : WF_vars(ThreadStep(t)) /\ SF_vars(DoLock(t))
    /\ WF_vars(ResetRuns)

CallSpec == CallInit /\ [][CallNext]_vars /\ Fairness

----------------------------------------------------------------------------
\* The values the registers, the threads and the message area range over.
TypeOK ==
    /\ BootTypeOK
    /\ mutex \in Threads \cup {None}
    /\ reg \in [Threads -> SUBSET Bits]
    /\ ctrl2 \subseteq Bits /\ state2 \subseteq Bits /\ cfg \subseteq Bits
    /\ life \in {"absent", "closed", "open", "closing", "armed", "dropped"}
    /\ ctl \in 0 .. TidMod - 1 /\ st.tid \in 0 .. TidMod - 1
    /\ {cnt, mbox, last} \subseteq 0 .. CntMod - 1
    /\ late \subseteq Toggles \cup {"RPC"}

\* Whatever sequence of opens, closes, settings and failed calls there was,
\* with no race the control register holds what the user last asked for while
\* the device is open, and after a close that ran to its end it drops the link
\* or, with wake-on-LAN, is armed and keeps it (aq_fw2x_set_state, set_eee_rate,
\* set_flow_control, set_phyloopback, set_power and their 1.x forms).  Only the
\* Linux build has races: hw_init (aq_nic_init) and set_power (aq_nic_deinit)
\* run without fwreq_mutex, and on ESXi nobody else is awake then, but hwmon
\* and /dev/ptp are.
SettingsKept ==
    /\ raced => Linux
    /\ Idle("rtnl") /\ ~raced =>
        CASE life = "open" /\ ~Fw1x  -> /\ ctrl2 \cap Settings = cfg \cap Settings
                                        /\ "LINK_DROP" \notin ctrl2
          [] life = "open" /\ Fw1x   -> {"INIT", "SPEED"} \subseteq ctrl2
                                        /\ "DIRTY_WAKE" \notin ctrl2
          [] life = "armed"          -> IF Fw1x THEN {"POWER", "DIRTY_WAKE"} \subseteq ctrl2
                                        ELSE "WOL" \in ctrl2 /\ "LINK_DROP" \notin ctrl2
          [] life = "dropped"        -> IF Fw1x THEN {"DEINIT", "DIRTY_WAKE"} \subseteq ctrl2
                                        ELSE "LINK_DROP" \in ctrl2
          [] OTHER                   -> TRUE

\* The statistics never count a packet that was not there: across closes and
\* resets that set the device's counters back, hw_init takes them anew before
\* the link is up (hw_atl_utils_update_stats).  Not so after a mailbox could not
\* be read or a reset or hw_init's update_stats failed, which the code ignores.
StatsHonest == ~junk => curr <= total

\* A request that is reported as answered has been served by the firmware,
\* unless an earlier one of its kind was given up (the toggle is then answered
\* before it is served) or raced (aq_fw2x_update_stats, _get_temp,
\* _send_fw_request).
AnswerIsFresh ==
    [][\A t \in Threads :
          (At(t, "answer") \/ At(t, "answer_or_not")) /\ ~err'[t] /\ todo'[t] = Tail(todo[t])
          => \/ fresh[t] \/ raced
             \/ Head(todo[t]).bit \in late \cup late']_vars

\* The firmware serves a PTP request or a remote call with the message it was
\* sent with, although both use one area of its memory (aq_fw2x_send_fw_request,
\* hw_atl_utils_fw_rpc_call), unless two threads raced or one was given up.
RequestIntact ==
    [][~raced /\ late = {} =>
         /\ ("REQUEST" \in state2) # ("REQUEST" \in state2') /\ FwUp
            => mail = "request"
         /\ st'.tid # st.tid /\ FwUp => mail = rpc]_vars

\* Every call returns, whatever the firmware does, once it has stopped to
\* reject remote calls (hw_atl_utils_fw_rpc_wait repeats a rejected one without
\* a bound, here scen.rejects).
CallsReturn == \A t \in Threads : []<>Idle(t)
=============================================================================

------------------------------ MODULE TxQueue ------------------------------
(***************************************************************************)
(* What a Tx ring promises the stack: packets handed over are sent and     *)
(* given back in the order they came, each once, and none before the       *)
(* device has sent it.  Closing the interface forgets what is left.        *)
(***************************************************************************)
EXTENDS Integers, Sequences

CONSTANT Packets

VARIABLES
    queue,    \* packets handed over and not yet given back, oldest first
    sent,     \* how many of them, from the oldest, the device has sent
    held      \* the packets the driver owns

qvars == <<queue, sent, held>>

Init == queue = <<>> /\ sent = 0 /\ held = {}

Post(p) ==
    /\ p \notin held
    /\ queue' = Append(queue, p) /\ held' = held \cup {p}
    /\ UNCHANGED sent

Send ==
    /\ sent < Len(queue)
    /\ sent' = sent + 1
    /\ UNCHANGED <<queue, held>>

Complete ==
    /\ sent > 0
    /\ queue' = Tail(queue) /\ sent' = sent - 1
    /\ held' = held \ {Head(queue)}

Reset == queue' = <<>> /\ sent' = 0 /\ held' = {}

Next == (\E p \in Packets : Post(p)) \/ Send \/ Complete \/ Reset

Spec == Init /\ [][Next]_qvars

=============================================================================

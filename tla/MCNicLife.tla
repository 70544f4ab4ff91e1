----------------------------- MODULE MCNicLife -----------------------------
(* NicLife for TLC. *)
EXTENDS NicLife

\* Every operation, without failures and with one work at a time; and open,
\* close and shutdown with the link interrupt and with steps that fail.
MCSetups ==
    { [ops |-> Operations, irq |-> FALSE, speeds |-> Speeds, fails |-> {}],
      [ops |-> {"open", "close", "shutdown"}, irq |-> TRUE, speeds |-> {1000},
       fails |-> {"reset", "fill", "vecs", "hw_stop"}] }

=============================================================================

----------------------------- MODULE MCPtpStamp -----------------------------
(* PtpStamp for TLC: one CPU and two opens, or two CPUs and one. *)
EXTENDS PtpStamp

CONSTANTS c1, c2, s1, s2

OneOrTwo == { [cpus |-> {c1}, skbs |-> {s1, s2}, opens |-> 2, txds |-> 2],
              [cpus |-> {c1, c2}, skbs |-> {s1, s2}, opens |-> 1, txds |-> 3] }
=============================================================================

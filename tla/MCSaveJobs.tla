----------------------------- MODULE MCSaveJobs -----------------------------
(* SaveJobs on the instances that TLC checks.                               *)
EXTENDS SaveJobs, TLC

CONSTANT Line   \* the one connection of a serial instance

\* Every job on a connection of its own, or all on one connection.
OneJobEach == [j \in Jobs |-> j]
OneLine    == [j \in Jobs |-> Line]

=============================================================================

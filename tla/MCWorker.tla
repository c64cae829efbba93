------------------------------ MODULE MCWorker ------------------------------
(***************************************************************************)
(* Instances of Worker for TLC.                                            *)
(***************************************************************************)
EXTENDS Worker

CONSTANTS v1, v2

Both == [r \in Rings |-> 1]
DisplayOnly == [r \in Rings |-> IF r = "display" THEN 1 ELSE 0]

Start(open, online, primary) ==
    [open |-> open, online |-> online, stream |-> primary]

\* One client of either channel; or no client and two processors that notify.
Clients ==
    {Start({"display"}, {v1}, FALSE), Start({"display"}, {v1}, TRUE),
     Start({"cursor"}, {v1}, FALSE), Start({}, {v1, v2}, FALSE)}

OneClient == {Start({"display"}, {v1}, FALSE)}
=============================================================================

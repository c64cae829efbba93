---------------------------- MODULE MCDispatcher ----------------------------
(* A small instance of Dispatcher for TLC.                                  *)
EXTENDS Dispatcher

MCTypes == {"wakeup", "update", "create"}
\* RED_WORKER_MESSAGE_WAKEUP has an empty payload.
MCSize == [t \in MCTypes |-> CASE t = "wakeup" -> 0
                              [] t = "update" -> 2
                              [] t = "create" -> 1]
MCAckOf == [t \in MCTypes |-> CASE t = "wakeup" -> "none"
                               [] t = "update" -> "ack"
                               [] t = "create" -> "async"]
=============================================================================

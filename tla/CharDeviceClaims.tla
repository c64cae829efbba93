-------------------------- MODULE CharDeviceClaims --------------------------
(***************************************************************************)
(* What an assertion of the repository says of the character device, and   *)
(* the code does not keep: the invariant of a run that ends in a           *)
(* counterexample.                                                         *)
(***************************************************************************)
EXTENDS MCCharDevice

\* spice_char_device_send_msg_to_clients asserts that a client it sends to has
\* an empty queue.  The send loop gives up its reference to a queued message
\* before it looks at the next one; that may wake the read loop up.
SendAssert ==
    At("read") => \A c \in todo : CanSend(c) => sendQueue[c] = <<>>
=============================================================================

---------------------------- MODULE MCCharDevice ----------------------------
(***************************************************************************)
(* CharDevice for TLC.  The two directions of the device hardly share      *)
(* state, so each run lets the environment use a part of the interface;    *)
(* what the device itself does (Running) is never restricted.              *)
(***************************************************************************)
EXTENDS CharDevice, TLC

ClientsAndBufs == Permutations(Clients) \cup Permutations(Bufs)

-----------------------------------------------------------------------------
(* Restricted environments.                                                *)

Comings(c) == Connect(c) \/ ClientDisconnect(c) \/ PeerCloses(c) \/ Writable(c)

\* The guest writes to the clients; no client writes to the guest.
SendNext ==
    \/ Running \/ WriteRetry \/ Start \/ Stop \/ Detach \/ GuestWrites
    \/ \E vm \in BOOLEAN : Attach(None, vm)
    \/ \E c \in Clients : Comings(c) \/ WaitTimeout(c)
    \/ \E c \in Clients, n \in 0..MaxSend : ClientAdd(c, n) \/ TokensSet(c, n) \/ TokensAdd(c, n)

SendInit == Init /\ conn = [c \in Clients |-> "none"]

SendSpec == SendInit /\ [][SendNext]_vars

\* Clients and the server write to the guest, which writes nothing.
WriteNext ==
    \/ Running \/ WriteRetry \/ Start \/ Stop \/ Detach \/ MouseEvent \/ Migrated
    \/ \E c \in Clients \cup {None}, vm \in BOOLEAN : Attach(c, vm)
    \/ \E c \in Clients : \/ Comings(c) \/ ClientAdd(c, MaxSend) \/ TokensSet(c, MaxSend)
                          \/ BufGet(c) \/ BufStale(c) \/ BufAdd(c) \/ BufGiveBack(c)
                          \/ RestoreLate(c) \/ RestoreNone(c)

WriteSpec == Init /\ [][WriteNext]_vars

\* The guest writes to several clients, which come and go; the agent does so when
\* only safety is looked at.
MultiNext ==
    \/ Running \/ Attach(None, TRUE) \/ GuestWrites
    \/ \E c \in Clients : Connect(c) \/ ClientDisconnect(c) \/ Writable(c) \/ WaitTimeout(c)
    \/ \E c \in Clients, n \in 0..MaxSend : ClientAdd(c, n) \/ (n > 0 /\ TokensAdd(c, n))

MultiSpec == Init /\ [][MultiNext \/ Detach]_vars

-----------------------------------------------------------------------------
(* Liveness.  The main loop runs what is active and comes back to work that *)
(* stays ready; timers go off; the guest and the client, offered data again *)
(* and again, take it in the end.                                           *)

MainLoop == WF_vars(Running) /\ SF_vars(WriteRetry) /\ SF_vars(WriteAll)
            /\ \A c \in Clients : SF_vars(Writable(c)) /\ SF_vars(FlushSend(c))

LiveWriteSpec == WriteSpec /\ MainLoop
LiveSendSpec  == SendSpec /\ MainLoop
LiveMultiSpec == Init /\ [][MultiNext]_vars /\ WF_vars(Running) /\ SF_vars(WriteAll)
                 /\ \A c \in Clients : SF_vars(WaitTimeout(c))

\* If the device stays usable, the current buffer is written out again and
\* again: the retry timer always brings the write loop back.
WritesFinish == <>[]Usable => []<>(cur = NoBuf)

\* If the device stays usable, a mouse event that has to wait for a self token
\* is written when the token comes back.  (It is forgotten, though still marked
\* pending, when the device is destroyed meanwhile.)
MouseReported == <>[]Usable => [](exists /\ mouse /\ selfTokens = 0 => <>(~mouse \/ ~exists))

\* If the device stays usable and its client keeps some tokens, all that the
\* guest writes is read, though the read buffers run out on the way (in the run
\* the first message has the only buffer while the second waits): the last unref
\* of a buffer, wherever it is dropped, wakes the device up.
GuestDataRead ==
    <>[](Usable /\ \E c \in clients : conn[c] = "open" /\ sendTokens[c] > 0) => []<>(pending = 0)

\* A message is not queued for ever: its client gets tokens, or is removed.  No
\* client grants zero tokens for ever (n > 0 in MultiNext): each such grant starts
\* the timer anew (char_device.c:374-377), and the queue could stay.
QueuesDrain ==
    \A c \in Clients : [](c \in clients /\ sendQueue[c] # <<>> =>
                            <>(c \notin clients \/ sendQueue[c] = <<>> \/ conn[c] # "open"))
=============================================================================

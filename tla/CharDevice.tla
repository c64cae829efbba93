----------------------------- MODULE CharDevice -----------------------------
(***************************************************************************)
(* The character device of the SPICE server (server/char_device.c) with    *)
(* the callbacks the guest agent installs on it (server/reds.c, "Char      *)
(* device state callbacks").                                               *)
(*                                                                         *)
(* Everything here runs in one thread, QEMU's main loop, yet the code is   *)
(* reentrant: sending a message, dropping the last reference to a read     *)
(* buffer and the device's own read and write entry points all call back   *)
(* into the device.  The C call stack is therefore part of the state: it   *)
(* is the sequence `stack' of frames, innermost call first.  A main-loop   *)
(* event happens only when the stack is empty; otherwise the innermost     *)
(* frame takes the next step.                                              *)
(*                                                                         *)
(* A definition such as InReadNever, right above the InRead it is named    *)
(* after, is a faulty variant of it.  Nothing uses it: it is there to show *)
(* that a property notices the fault (README, "Mutants").                  *)
(***************************************************************************)
EXTENDS Integers, Sequences, FiniteSets

CONSTANTS
    Clients,         \* the RedClients that may attach to the device
    Bufs,            \* the VDIReadBufs (REDS_VDI_PORT_NUM_RECEIVE_BUFFS of them)
    None,            \* no client, no buffer
    MaxQueue,        \* max_send_queue_size of every client
    Window,          \* num_client_tokens given to a client at the start
    Interval,        \* client_tokens_interval
    SelfTokens,      \* num_self_tokens at creation
    FlowControl,     \* do_flow_control of the device's clients
    MultiClient,     \* reds->allow_multiple_clients
    ConnectedTokens, \* the clients have SPICE_MAIN_CAP_AGENT_CONNECTED_TOKENS
    NotifyWritable,  \* SPICE_CHAR_DEVICE_NOTIFY_WRITABLE
    MaxMsgs,         \* bound: messages the guest writes
    MaxSend,         \* bound: tokens a client may have granted at a time
    MaxPending       \* bound: write buffers waiting when a client connects

ASSUME ConstantsOK ==
    /\ None \notin Clients /\ None \notin Bufs
    /\ IsFiniteSet(Clients)
    /\ {MaxQueue, Window, Interval} \subseteq Nat \ {0}
    /\ {SelfTokens, MaxMsgs, MaxSend, MaxPending} \subseteq Nat
    /\ Interval <= Window
    /\ {FlowControl, MultiClient, ConnectedTokens, NotifyWritable} \subseteq BOOLEAN

VARIABLES
    \* struct SpiceCharDeviceState
    exists,       \* agent_state.base is not NULL
    attached,     \* sin is not NULL
    running, active,
    waitMig,      \* wait_for_migrate_data
    reading,      \* during_read_from_device, 2 standing for "more than 1"
    writing,      \* during_write_to_device, 2 standing for "more than 1"
    clients,      \* the ring of attached clients
    writeQueue,   \* write_queue, oldest first
    cur,          \* cur_write_buf or NoBuf
    retry,        \* write_to_dev_timer is armed
    selfTokens,   \* num_self_tokens
    \* struct SpiceCharDeviceClientState, by client
    sendTokens,   \* num_send_tokens
    sendQueue,    \* send_queue, oldest first
    queueSize,    \* send_queue_size, which lags behind the queue
    timer,        \* wait_for_tokens: "off", "armed", or "spent" (started, not armed)
    clientTokens, \* num_client_tokens
    tokensFree,   \* num_client_tokens_free
    \* the agent's side of the callbacks
    refs,         \* VDIReadBuf.refs; a buffer with none is in read_bufs
    serial,       \* the message a read buffer carries
    mouse,        \* reds->pending_mouse_event
    started,      \* client_agent_started
    conn,         \* the client's main channel: "none"; "open"; "shut", for reading
                  \* and writing; "closed"; "mig" and "late" wait for migration data,
                  \* "late" when the agent left meanwhile (plug_generation)
    pipe,         \* the items in the main channel's pipe, oldest first
    held,         \* client whose message is in recv_from_client_buf, or None
    heldAs,       \* that buffer: "live"; "stale", the agent left since it was
                  \* taken; or "orphan", the channel that was filling it is gone
    \* environment and history
    left,         \* messages the guest has still to write
    pending,      \* messages in the device, not yet read
    lastRead,     \* serial of the last message read for the clients
    handed,       \* serial of the last message handed to the client's channel
    credit,       \* send tokens the client granted less messages handed to it
    peerTokens,   \* tokens the client believes it has
    \* the C stack and the locals of the one active read and write loop
    stack, max, msg, todo, didRead, didWrite, ret

deviceVars == <<exists, attached, running, active, waitMig>>
writeVars  == <<writeQueue, cur, retry, selfTokens, mouse>>
sendVars   == <<sendTokens, sendQueue, queueSize, timer, handed, credit>>
rxVars     == <<clientTokens, tokensFree, held, heldAs, started>>
poolVars   == <<refs, serial>>
chanVars   == <<conn, pipe, peerTokens>>
guestVars  == <<left, pending, lastRead>>
readLocals == <<reading, max, msg, todo, didRead>>
writeLocals == <<writing, didWrite>>
vars == <<deviceVars, writeVars, sendVars, rxVars, poolVars, chanVars,
          guestVars, readLocals, writeLocals, clients, stack, ret>>

-----------------------------------------------------------------------------
(* Frames of the C stack, write buffers, pipe items.                       *)

Ops == {"write?", "write", "wrote0", "wrote",  \* spice_char_device_write_to_device
        "read?", "read", "read0",              \* spice_char_device_read_from_device
        "push", "pushed", "shrink", "absorb",  \* ..._send_to_client_tokens_absorb
        "flush", "hangup", "gone",             \* main channel of a client
        "free", "removed",                     \* spice_char_device_client_remove
        "start", "startW", "startR",           \* spice_char_device_start
        "reset", "reset2", "destroy"}

Frame == [op : Ops, c : Clients \cup {None}, b : Bufs \cup {None}]

F(op)     == [op |-> op, c |-> None, b |-> None]
FC(op, c) == [op |-> op, c |-> c, b |-> None]

Top    == Head(stack)
Wakeup == <<F("write?"), F("read?")>>          \* spice_char_device_wakeup

Idle         == stack = <<>>
At(op)       == stack # <<>> /\ Head(stack).op = op
Become(fs)   == stack' = fs \o Tail(stack)     \* the top frame turns into fs
Call(fs)     == stack' = fs \o stack           \* the top frame calls fs
Return       == stack' = Tail(stack)
\* A result only the loop of spice_char_device_start looks at.
ReturnWith(v) ==
    /\ Return
    /\ ret' = (v /\ Tail(stack) # <<>> /\ Head(Tail(stack)).op \in {"startW", "startR"})

WriteBuf == [origin : {"client", "server", "other"}, c : Clients \cup {None}, price : Nat]
NoBuf    == [origin |-> "none", c |-> None, price |-> 0]
ClientBuf(c, n) == [origin |-> "client", c |-> c, price |-> n]
ServerBuf       == [origin |-> "server", c |-> None, price |-> 1]
NoTokenBuf      == [origin |-> "other", c |-> None, price |-> 1]

DataItem(b)   == [buf |-> b, tokens |-> 0]
TokensItemOfOne(n) == [buf |-> None, tokens |-> 1]
TokensItem(n) == [buf |-> None, tokens |-> n]
PipeItem      == [buf : Bufs \cup {None}, tokens : Nat]

Free       == {b \in Bufs : refs[b] = 0}       \* agent_state.read_bufs
CanSendTwo(c) == ~FlowControl \/ sendTokens[c] > 1
CanSend(c) == ~FlowControl \/ sendTokens[c] > 0
Usable     == running /\ ~waitMig /\ attached
Linked(c)  == conn[c] \notin {"none", "closed"}  \* the channel has a stream
Waiting    == {c \in Clients : conn[c] \in {"mig", "late"}}
Receiving(c) == held = c /\ heldAs # "orphan"  \* c's agent message is incomplete

-----------------------------------------------------------------------------
(* Dropping a reference to a read buffer: the last one returns the buffer  *)
(* to the pool and wakes the device up.  `rest' is what runs afterwards.   *)

\* Variant: vdi_port_read_buf_unref returns the buffer and wakes nobody.
UnrefQuietly(b, rest) == refs' = [refs EXCEPT ![b] = @ - 1] /\ stack' = rest

Unref(b, rest) ==
    /\ refs' = [refs EXCEPT ![b] = @ - 1]
    /\ stack' = (IF refs[b] = 1 /\ exists THEN Wakeup ELSE <<>>) \o rest

(* red_channel_client_pipe_add_push on a client's main channel: a channel  *)
(* without a stream drops the item, one that is already sending leaves it  *)
(* to the sender.                                                          *)

PushItem(c, item, rest) ==
    LET sending == \E i \in DOMAIN stack : stack[i] = FC("flush", c)
    IN  /\ pipe' = IF Linked(c) THEN [pipe EXCEPT ![c] = Append(@, item)] ELSE pipe
        /\ stack' = (IF Linked(c) /\ ~sending THEN <<FC("flush", c)>> ELSE <<>>) \o rest

\* The reference goes with the item, and is dropped with it.
RefForPipeAlways(c, b) == refs' = [refs EXCEPT ![b] = @ + 1]
RefForPipe(c, b) == refs' = IF Linked(c) THEN [refs EXCEPT ![b] = @ + 1] ELSE refs

SendMsg(c, b, rest) ==
    /\ PushItem(c, DataItem(b), rest)
    /\ RefForPipe(c, b)
    /\ handed' = [handed EXCEPT ![c] = serial[b]]
    /\ credit' = [credit EXCEPT ![c] = @ - 1]

\* remove_client: red_channel_client_shutdown of the main channel
RemoveClientNot(c) == UNCHANGED conn
RemoveClient(c) ==
    conn' = IF conn[c] = "open" THEN [conn EXCEPT ![c] = "shut"] ELSE conn

-----------------------------------------------------------------------------
(* The main channel of a client (red_channel.c).                           *)

FlushSend(c) ==        \* the socket takes the oldest item
    /\ At("flush") /\ Top.c = c /\ conn[c] = "open" /\ pipe[c] # <<>>
    /\ LET item == Head(pipe[c])
       IN  /\ pipe' = [pipe EXCEPT ![c] = Tail(@)]
           /\ peerTokens' = [peerTokens EXCEPT ![c] = @ + item.tokens]
           /\ IF item.buf # None THEN Unref(item.buf, stack)
                                 ELSE UNCHANGED <<refs, stack>>
    /\ UNCHANGED <<deviceVars, writeVars, sendVars, rxVars, serial, conn,
                   guestVars, readLocals, writeLocals, clients, ret>>

FlushStop(c) ==        \* nothing left to send, or the socket is full
    /\ At("flush") /\ Top.c = c /\ (pipe[c] = <<>> \/ conn[c] = "open")
    /\ Return
    /\ UNCHANGED <<deviceVars, writeVars, sendVars, rxVars, poolVars, chanVars,
                   guestVars, readLocals, writeLocals, clients, ret>>

FlushFail(c) ==        \* the write fails: on_error disconnects the channel
    /\ At("flush") /\ Top.c = c /\ Linked(c) /\ pipe[c] # <<>>
    /\ Call(<<FC("hangup", c)>>)
    /\ UNCHANGED <<deviceVars, writeVars, sendVars, rxVars, poolVars, chanVars,
                   guestVars, readLocals, writeLocals, clients, ret>>

HangupItem(c) ==       \* red_channel_client_pipe_clear, newest item first
    /\ At("hangup") /\ Top.c = c /\ Linked(c) /\ pipe[c] # <<>>
    /\ LET n == Len(pipe[c])
           item == pipe[c][n]
       IN  /\ pipe' = [pipe EXCEPT ![c] = SubSeq(@, 1, n - 1)]
           /\ IF item.buf # None THEN Unref(item.buf, stack)
                                 ELSE UNCHANGED <<refs, stack>>
    /\ UNCHANGED <<deviceVars, writeVars, sendVars, rxVars, serial, conn, peerTokens,
                   guestVars, readLocals, writeLocals, clients, ret>>

HangupEnd(c) ==        \* the stream is freed
    /\ At("hangup") /\ Top.c = c /\ Linked(c) /\ pipe[c] = <<>>
    /\ conn' = [conn EXCEPT ![c] = "closed"]
    /\ Return
    /\ UNCHANGED <<deviceVars, writeVars, sendVars, rxVars, poolVars, pipe, peerTokens,
                   guestVars, readLocals, writeLocals, clients, ret>>

Writable(c) ==         \* the socket has room again
    /\ Idle /\ conn[c] = "open" /\ pipe[c] # <<>>
    /\ Call(<<FC("flush", c)>>)
    /\ UNCHANGED <<deviceVars, writeVars, sendVars, rxVars, poolVars, chanVars,
                   guestVars, readLocals, writeLocals, clients, ret>>

PeerCloses(c) ==       \* a read fails, after a partial message is given back
    /\ Idle /\ Linked(c) /\ conn[c] # "shut" /\ ~Receiving(c)
    /\ Call(<<FC("hangup", c)>>)
    /\ UNCHANGED <<deviceVars, writeVars, sendVars, rxVars, poolVars, chanVars,
                   guestVars, readLocals, writeLocals, clients, ret>>

-----------------------------------------------------------------------------
(* spice_char_device_read_from_device                                      *)

InReadNever == FALSE
InRead == reading > 0  \* during_read_from_device++ > 0

ReadRefused ==
    /\ At("read?") /\ ~Usable
    /\ ReturnWith(FALSE)
    /\ UNCHANGED <<deviceVars, writeVars, sendVars, rxVars, poolVars, chanVars,
                   guestVars, readLocals, writeLocals, clients>>

\* Variant: a wakeup inside the loop returns without counting itself.
ReadNestedUncounted ==
    /\ At("read?") /\ Usable /\ InRead
    /\ ReturnWith(FALSE)
    /\ UNCHANGED <<deviceVars, writeVars, sendVars, rxVars, poolVars, chanVars, reading,
                   guestVars, max, msg, todo, didRead, writeLocals, clients>>

ReadNested ==          \* the active loop will look again
    /\ At("read?") /\ Usable /\ InRead
    /\ reading' = 2
    /\ ReturnWith(FALSE)
    /\ UNCHANGED <<deviceVars, writeVars, sendVars, rxVars, poolVars, chanVars,
                   guestVars, max, msg, todo, didRead, writeLocals, clients>>

\* spice_char_device_max_send_tokens: ~0, here -1, without flow control
MaxSendTokens(m) ==
    \/ clients = {} /\ m = 0
    \/ clients # {} /\ ~FlowControl /\ m = -1
    \/ FlowControl /\ \E c \in clients : /\ m = sendTokens[c]
                                         /\ \A d \in clients : sendTokens[d] <= m

ReadBegin ==
    /\ At("read?") /\ Usable /\ ~InRead
    /\ reading' = 1
    /\ \E m \in {0, -1} \cup {sendTokens[c] : c \in clients} :
          MaxSendTokens(m) /\ max' = m
    /\ Become(<<F("read")>>)
    /\ UNCHANGED <<deviceVars, writeVars, sendVars, rxVars, poolVars, chanVars,
                   guestVars, msg, todo, didRead, writeLocals, clients, ret>>

MayReadOneMore == (max >= 0 \/ clients = {}) /\ running
MayRead == (max # 0 \/ clients = {}) /\ running

\* The guest gets to write during sif->read, and wakes the device up.
GuestWritesIn(fs) ==
    \/ stack' = fs /\ UNCHANGED <<left, pending>>
    \/ left > 0 /\ left' = left - 1 /\ pending' = pending + 1 /\ stack' = Wakeup \o fs

ReadMsg ==             \* vdi_port_read_one_msg_from_device returns a message
    /\ At("read") /\ msg = None /\ MayRead
    /\ pending > 0
    /\ \E b \in Free : /\ refs' = [refs EXCEPT ![b] = 1]
                       /\ serial' = [serial EXCEPT ![b] = lastRead + 1]
                       /\ msg' = b
    /\ lastRead' = lastRead + 1
    /\ todo' = clients
    /\ didRead' = TRUE
    /\ pending' = pending - 1
    /\ UNCHANGED <<deviceVars, writeVars, sendVars, rxVars, chanVars, left,
                   reading, max, writeLocals, clients, stack, ret>>

ReadDiscard ==         \* the read filter drops it: the buffer goes straight back
    /\ At("read") /\ msg = None /\ MayRead
    /\ pending > 0 /\ Free # {}
    /\ pending' = pending - 1
    /\ Call(Wakeup)
    /\ UNCHANGED <<deviceVars, writeVars, sendVars, rxVars, poolVars, chanVars,
                   left, lastRead, readLocals, writeLocals, clients, ret>>

ReadNothing ==         \* no data or no read buffer: NULL
    /\ At("read") /\ msg = None /\ MayRead
    /\ (pending = 0 \/ Free = {})
    /\ GuestWritesIn(<<F("read0")>> \o Tail(stack))
    /\ UNCHANGED <<deviceVars, writeVars, sendVars, rxVars, poolVars, chanVars,
                   lastRead, readLocals, writeLocals, clients, ret>>

ReadAgain ==           \* a wakeup was called meanwhile: do not lose it
    /\ At("read0") /\ reading > 1
    /\ reading' = 1
    /\ Become(<<F("read")>>)
    /\ UNCHANGED <<deviceVars, writeVars, sendVars, rxVars, poolVars, chanVars,
                   guestVars, max, msg, todo, didRead, writeLocals, clients, ret>>

ReadEnd ==
    /\ \/ At("read") /\ msg = None /\ ~MayRead
       \/ At("read0") /\ reading <= 1
    /\ reading' = 0 /\ max' = 0 /\ didRead' = FALSE
    /\ active' = (active \/ (running /\ didRead))
    /\ ReturnWith(didRead)
    /\ UNCHANGED <<exists, attached, running, waitMig, writeVars, sendVars, rxVars,
                   poolVars, chanVars, guestVars, msg, todo, writeLocals, clients>>

(* spice_char_device_send_msg_to_clients, one client of the ring at a time *)

SendNow(c) ==
    /\ At("read") /\ c \in todo /\ CanSend(c)
    /\ sendQueue[c] = <<>>                     \* spice_assert
    /\ todo' = todo \ {c}
    /\ sendTokens' = IF FlowControl THEN [sendTokens EXCEPT ![c] = @ - 1] ELSE sendTokens
    /\ SendMsg(c, msg, stack)
    /\ UNCHANGED <<deviceVars, writeVars, sendQueue, queueSize, timer, rxVars, serial,
                   conn, peerTokens, guestVars, reading, max, msg, didRead,
                   writeLocals, clients, ret>>

SendOverflow(c) ==     \* spice_char_device_handle_client_overflow
    /\ At("read") /\ c \in todo /\ ~CanSend(c)
    /\ queueSize[c] >= MaxQueue
    /\ todo' = todo \ {c}
    /\ RemoveClient(c)
    /\ UNCHANGED <<deviceVars, writeVars, sendVars, rxVars, poolVars, pipe, peerTokens,
                   guestVars, reading, max, msg, didRead, writeLocals, clients, stack, ret>>

EnqueueFirst(q, b) == <<b>> \o q
Enqueue(q, b) == Append(q, b)

WatchQueueNot(c) == UNCHANGED timer
WatchQueue(c) == timer' = IF timer[c] = "off" THEN [timer EXCEPT ![c] = "armed"] ELSE timer

SendLater(c) ==        \* spice_char_device_add_msg_to_client_queue
    /\ At("read") /\ c \in todo /\ ~CanSend(c)
    /\ queueSize[c] < MaxQueue
    /\ todo' = todo \ {c}
    /\ refs' = [refs EXCEPT ![msg] = @ + 1]
    /\ sendQueue' = [sendQueue EXCEPT ![c] = Enqueue(@, msg)]
    /\ queueSize' = [queueSize EXCEPT ![c] = @ + 1]
    /\ WatchQueue(c)
    /\ UNCHANGED <<deviceVars, writeVars, sendTokens, handed, credit, rxVars, serial,
                   chanVars, guestVars, reading, max, msg, didRead, writeLocals,
                   clients, stack, ret>>

DropMsg(ready) ==      \* the loop drops its own reference
    /\ At("read") /\ msg # None /\ ready
    /\ Unref(msg, stack)
    /\ msg' = None
    /\ max' = max - 1
    /\ UNCHANGED <<deviceVars, writeVars, sendVars, rxVars, serial, chanVars, guestVars,
                   reading, todo, didRead, writeLocals, clients, ret>>

SendDoneEarly == DropMsg(TRUE)
SendDone == DropMsg(todo = {})

-----------------------------------------------------------------------------
(* Tokens from a client: spice_char_device_send_to_client_tokens_add/_set, *)
(* then ..._tokens_absorb with the send loop ..._client_send_queue_push.   *)

Absorb(c, had, n) ==
    /\ Idle /\ FlowControl /\ c \in clients /\ attached
    /\ conn[c] = "open" /\ ~Receiving(c)
    /\ had + n <= MaxSend
    /\ queueSize[c] > 0 => had = 0             \* spice_assert
    /\ sendTokens' = [sendTokens EXCEPT ![c] = had + n]
    /\ Call((IF queueSize[c] > 0 THEN <<FC("push", c)>> ELSE <<>>) \o <<FC("absorb", c)>>)
    /\ UNCHANGED <<deviceVars, writeVars, sendQueue, queueSize, timer, handed, clientTokens,
                   tokensFree, held, heldAs, poolVars, conn, pipe, guestVars, readLocals,
                   writeLocals, clients, ret>>

TokensAdd(c, n) ==     \* MSGC_AGENT_TOKEN
    /\ Absorb(c, sendTokens[c], n)
    /\ credit' = [credit EXCEPT ![c] = @ + n]
    /\ UNCHANGED <<started, peerTokens>>

\* MSGC_AGENT_START of a client that is already attached: its answer to an
\* AGENT_CONNECTED message, which may have told it its own tokens anew.  Several
\* clients are still attached, and answer one by one, only after a reset.
TokensSet(c, n) ==
    /\ ~started \/ (MultiClient /\ ~ConnectedTokens)
    /\ Absorb(c, 0, n)
    /\ credit' = [credit EXCEPT ![c] = n]
    /\ started' = TRUE
    /\ peerTokens' = IF ConnectedTokens THEN [peerTokens EXCEPT ![c] = Window] ELSE peerTokens

PushOne(c) ==
    /\ At("push") /\ Top.c = c /\ sendQueue[c] # <<>> /\ CanSend(c)
    /\ sendQueue' = [sendQueue EXCEPT ![c] = Tail(@)]
    /\ sendTokens' = [sendTokens EXCEPT ![c] = @ - 1]
    /\ LET b == Head(sendQueue[c])
       IN  SendMsg(c, b, <<[op |-> "pushed", c |-> c, b |-> b]>> \o Tail(stack))
    /\ UNCHANGED <<deviceVars, writeVars, queueSize, timer, rxVars, serial, conn,
                   peerTokens, guestVars, readLocals, writeLocals, clients, ret>>

PushUnref(c) ==
    /\ At("pushed") /\ Top.c = c
    /\ Unref(Top.b, <<FC("shrink", c)>> \o Tail(stack))
    /\ UNCHANGED <<deviceVars, writeVars, sendVars, rxVars, serial, chanVars, guestVars,
                   readLocals, writeLocals, clients, ret>>

PushShrink(c) ==       \* only now does send_queue_size follow
    /\ At("shrink") /\ Top.c = c
    /\ queueSize' = [queueSize EXCEPT ![c] = @ - 1]
    /\ Become(<<FC("push", c)>>)
    /\ UNCHANGED <<deviceVars, writeVars, sendTokens, sendQueue, timer, handed, credit,
                   rxVars, poolVars, chanVars, guestVars, readLocals, writeLocals,
                   clients, ret>>

PushEnd(c) ==
    /\ At("push") /\ Top.c = c /\ (sendQueue[c] = <<>> \/ ~CanSend(c))
    /\ Return
    /\ UNCHANGED <<deviceVars, writeVars, sendVars, rxVars, poolVars, chanVars, guestVars,
                   readLocals, writeLocals, clients, ret>>

AbsorbEnd(c) ==
    /\ At("absorb") /\ Top.c = c
    /\ \/ /\ CanSend(c)
          /\ timer' = [timer EXCEPT ![c] = "off"]
          /\ Become(<<F("read?")>>)
       \/ /\ ~CanSend(c)
          /\ timer' = IF queueSize[c] > 0 THEN [timer EXCEPT ![c] = "armed"] ELSE timer
          /\ Return
    /\ UNCHANGED <<deviceVars, writeVars, sendTokens, sendQueue, queueSize, handed, credit,
                   rxVars, poolVars, chanVars, guestVars, readLocals, writeLocals,
                   clients, ret>>

WaitTimeout(c) ==      \* device_client_wait_for_tokens_timeout
    /\ Idle /\ timer[c] = "armed"
    /\ timer' = [timer EXCEPT ![c] = "spent"]
    /\ RemoveClient(c)
    /\ UNCHANGED <<deviceVars, writeVars, sendTokens, sendQueue, queueSize, handed, credit,
                   rxVars, poolVars, pipe, peerTokens, guestVars, readLocals, writeLocals,
                   clients, stack, ret>>

-----------------------------------------------------------------------------
(* spice_char_device_write_buffer_release.  Afterwards the write queue is  *)
(* q, but for the pending mouse event the returned self token may bring    *)
(* (vdi_port_on_free_self_token, reds_handle_agent_mouse_event).           *)

KeptAll(f) == f
Kept(f) == IF f >= Interval THEN 0 ELSE f      \* num_client_tokens_free

\* on_free_self_token finds a pending mouse event
MouseAgainAlways(buf) == mouse
MouseAgainNever(buf) == FALSE
MouseAgain(buf) == buf.origin = "server" /\ mouse

Release(buf, q, rest) ==
    /\ LET f == tokensFree[buf.c] + buf.price
           back == buf.origin = "client" /\ FlowControl
       IN  /\ buf.origin = "client" => buf.c \in clients          \* spice_assert
           /\ tokensFree' = IF ~back THEN tokensFree
                            ELSE [tokensFree EXCEPT ![buf.c] = Kept(f)]
           /\ IF back /\ f >= Interval
              THEN /\ clientTokens' = [clientTokens EXCEPT ![buf.c] = @ + f]
                   /\ PushItem(buf.c, TokensItem(f), rest)
              ELSE UNCHANGED <<clientTokens, pipe>> /\ stack' = rest
    /\ LET again == MouseAgain(buf)
       IN  /\ mouse' = (mouse /\ ~again)
           /\ selfTokens' = IF buf.origin = "server" /\ ~again THEN selfTokens + 1 ELSE selfTokens
           /\ writeQueue' = IF again THEN Append(q, ServerBuf) ELSE q
           /\ writing' = IF again /\ Usable /\ writing > 0 THEN 2 ELSE writing

(* spice_char_device_write_to_device                                       *)

InWriteNever == FALSE
InWrite == writing > 0 \* during_write_to_device++ > 0

WriteRefused ==
    /\ At("write?") /\ ~Usable
    /\ ReturnWith(FALSE)
    /\ UNCHANGED <<deviceVars, writeVars, sendVars, rxVars, poolVars, chanVars, guestVars,
                   readLocals, writeLocals, clients>>

WriteNested ==         \* protect against recursion with spice_char_device_wakeup
    /\ At("write?") /\ Usable /\ InWrite
    /\ writing' = 2
    /\ ReturnWith(FALSE)
    /\ UNCHANGED <<deviceVars, writeVars, sendVars, rxVars, poolVars, chanVars, guestVars,
                   readLocals, didWrite, clients>>

WriteBegin ==
    /\ At("write?") /\ Usable /\ ~InWrite
    /\ writing' = 1
    /\ retry' = FALSE
    /\ Become(<<F("write")>>)
    /\ UNCHANGED <<deviceVars, writeQueue, cur, selfTokens, mouse, sendVars, rxVars,
                   poolVars, chanVars, guestVars, readLocals, didWrite, clients, ret>>

MayWrite == running /\ (cur # NoBuf \/ writeQueue # <<>>)

\* sif->write takes all of the current buffer, some of it or nothing; it may
\* call spice_char_device_wakeup before it returns.
WriteSome(result) ==
    /\ At("write") /\ MayWrite
    /\ cur' = IF cur = NoBuf THEN Head(writeQueue) ELSE cur
    /\ writeQueue' = IF cur = NoBuf THEN Tail(writeQueue) ELSE writeQueue
    /\ didWrite' = (didWrite \/ result # "wrote0")
    /\ \E nested \in {<<>>, Wakeup} : Become(nested \o <<F(result)>>)
    /\ UNCHANGED <<deviceVars, retry, selfTokens, mouse, sendVars, rxVars, poolVars,
                   chanVars, guestVars, readLocals, writing, clients, ret>>

WriteAll  == WriteSome("wrote")
WritePart == WriteSome("write")
WriteNone == WriteSome("wrote0")

WriteRelease ==        \* the whole buffer is written
    /\ At("wrote")
    /\ cur' = NoBuf
    /\ Release(cur, writeQueue, <<F("write")>> \o Tail(stack))
    /\ UNCHANGED <<deviceVars, retry, sendVars, held, heldAs, started, poolVars, conn, peerTokens, guestVars,
                   readLocals, didWrite, clients, ret>>

WriteAgain ==          \* a wakeup was called meanwhile: do not lose it
    /\ At("wrote0") /\ writing > 1
    /\ writing' = 1
    /\ Become(<<F("write")>>)
    /\ UNCHANGED <<deviceVars, writeVars, sendVars, rxVars, poolVars, chanVars, guestVars,
                   readLocals, didWrite, clients, ret>>

NeedsRetryIdle == running /\ cur # NoBuf /\ ~NotifyWritable /\ ~didWrite
NeedsRetry == running /\ cur # NoBuf /\ ~NotifyWritable

WriteEnd ==
    /\ \/ At("write") /\ ~MayWrite
       \/ At("wrote0") /\ writing <= 1
    /\ writing' = 0 /\ didWrite' = FALSE
    /\ retry' = (retry \/ NeedsRetry)
    /\ active' = (active \/ (running /\ didWrite))
    /\ ReturnWith(didWrite)
    /\ UNCHANGED <<exists, attached, running, waitMig, writeQueue, cur, selfTokens, mouse,
                   sendVars, rxVars, poolVars, chanVars, guestVars, readLocals, clients>>

WriteRetry ==          \* spice_char_dev_write_retry
    /\ Idle /\ retry
    /\ retry' = FALSE
    /\ Call(<<F("write?")>>)
    /\ UNCHANGED <<deviceVars, writeQueue, cur, selfTokens, mouse, sendVars, rxVars,
                   poolVars, chanVars, guestVars, readLocals, writeLocals, clients, ret>>

-----------------------------------------------------------------------------
(* Buffers a client or the server writes to the device.                    *)

\* reds_get_agent_data_buffer, when the header of an agent message has arrived
\* from a client that obeys its tokens
BufGet(c) ==
    /\ Idle /\ started /\ exists /\ conn[c] = "open" /\ c \in clients
    /\ held = None                             \* spice_assert
    /\ FlowControl =>
          /\ peerTokens[c] > 0
          /\ clientTokens[c] > 0               \* or NULL is returned and used
    /\ held' = c /\ heldAs' = "live"
    /\ IF FlowControl
       THEN /\ peerTokens' = [peerTokens EXCEPT ![c] = @ - 1]
            /\ clientTokens' = [clientTokens EXCEPT ![c] = @ - 1]
       ELSE UNCHANGED <<peerTokens, clientTokens>>
    /\ UNCHANGED <<deviceVars, writeVars, sendVars, tokensFree, started, poolVars, conn, pipe,
                   guestVars, readLocals, writeLocals, clients, stack, ret>>

\* The same, for a message to an agent that is no longer there: it is received
\* into plain memory and discarded.
BufStale(c) ==
    /\ Idle /\ ~started /\ conn[c] = "open" /\ ~Receiving(c)
    /\ FlowControl /\ peerTokens[c] > 0
    /\ peerTokens' = [peerTokens EXCEPT ![c] = @ - 1]
    /\ UNCHANGED <<deviceVars, writeVars, sendVars, rxVars, poolVars, conn, pipe, guestVars,
                   readLocals, writeLocals, clients, stack, ret>>

BufAdd(c) ==           \* reds_on_main_agent_data: the write filter lets it pass
    /\ Idle /\ started /\ Receiving(c) /\ conn[c] = "open"
    /\ held' = None
    /\ IF c \in clients
       THEN writeQueue' = Append(writeQueue, ClientBuf(c, 1)) /\ Call(<<F("write?")>>)
       ELSE UNCHANGED <<writeQueue, stack>>    \* the client was removed
    /\ UNCHANGED <<deviceVars, cur, retry, selfTokens, mouse, sendVars, clientTokens,
                   tokensFree, heldAs, started, poolVars, chanVars, guestVars, readLocals,
                   writeLocals, clients, ret>>

BufGiveBack(c) ==      \* reds_release_agent_data_buffer: discarded, or a read failed
    /\ Idle /\ Receiving(c) /\ conn[c] = "open"
    /\ held' = None
    /\ IF exists
       THEN Release(ClientBuf(c, 1), writeQueue, <<>>)
       ELSE UNCHANGED <<clientTokens, tokensFree, pipe, selfTokens, mouse, writeQueue,
                        writing, stack>>
    /\ UNCHANGED <<deviceVars, cur, retry, sendVars, heldAs, started, poolVars, conn, peerTokens,
                   guestVars, readLocals, didWrite, clients, ret>>

MouseEvent ==          \* reds_handle_agent_mouse_event from the inputs channel
    /\ Idle /\ exists /\ attached /\ ~waitMig
    /\ IF selfTokens = 0
       THEN mouse' = TRUE /\ UNCHANGED <<selfTokens, writeQueue, stack>>
       ELSE /\ mouse' = FALSE
            /\ selfTokens' = selfTokens - 1
            /\ writeQueue' = Append(writeQueue, ServerBuf)
            /\ Call(<<F("write?")>>)
    /\ UNCHANGED <<deviceVars, cur, retry, sendVars, rxVars, poolVars, chanVars, guestVars,
                   readLocals, writeLocals, clients, ret>>

-----------------------------------------------------------------------------
(* Clients come and go.                                                    *)

Connect(c) ==          \* a main channel is linked
    /\ Idle /\ conn[c] = "none"
    /\ MultiClient \/ \A d \in Clients : conn[d] = "none"
    /\ Len(writeQueue) <= MaxPending
    /\ conn' = [conn EXCEPT ![c] = "open"]
    /\ UNCHANGED <<deviceVars, writeVars, sendVars, rxVars, poolVars, pipe, peerTokens,
                   guestVars, readLocals, writeLocals, clients, stack, ret>>

\* spice_char_device_client_add
AddClient(c, n) ==
    /\ clients' = clients \cup {c}
    /\ sendTokens' = [sendTokens EXCEPT ![c] = n]
    /\ credit' = [credit EXCEPT ![c] = n]
    /\ handed' = [handed EXCEPT ![c] = lastRead]
    /\ sendQueue' = [sendQueue EXCEPT ![c] = <<>>]
    /\ queueSize' = [queueSize EXCEPT ![c] = 0]
    /\ timer' = [timer EXCEPT ![c] = "off"]
    /\ clientTokens' = [clientTokens EXCEPT ![c] = Window]
    /\ peerTokens' = [peerTokens EXCEPT ![c] = Window]
    /\ tokensFree' = [tokensFree EXCEPT ![c] = 0]

\* reds_on_main_agent_start: MSGC_AGENT_START of a new client grants n tokens.
ClientAdd(c, n) ==
    /\ Idle /\ exists /\ attached /\ c \notin clients
    /\ conn[c] = "open" /\ ~Receiving(c)
    /\ pipe[c] = <<>>                          \* it has seen all that was before
    /\ waitMig' = FALSE /\ started' = TRUE
    /\ AddClient(c, n)
    /\ Call(Wakeup)
    /\ UNCHANGED <<exists, attached, running, active, writeVars, held, heldAs, poolVars, conn,
                   pipe, guestVars, readLocals, writeLocals, ret>>

\* reds_client_disconnect: spice_char_device_client_remove, then the channels
\* are destroyed and, without clients, the agent is told so.
ClientDisconnect(c) ==
    /\ Idle /\ conn[c] # "none"
    /\ Call((IF exists /\ c \in clients THEN <<FC("free", c), F("removed")>> ELSE <<>>)
            \o (IF Linked(c) THEN <<FC("hangup", c)>> ELSE <<>>) \o <<FC("gone", c)>>)
    /\ UNCHANGED <<deviceVars, writeVars, sendVars, rxVars, poolVars, chanVars, guestVars,
                   readLocals, writeLocals, clients, ret>>

FreeQueued(c) ==       \* spice_char_device_client_send_queue_free
    /\ At("free") /\ Top.c = c /\ sendQueue[c] # <<>>
    /\ sendQueue' = [sendQueue EXCEPT ![c] = Tail(@)]
    /\ timer' = IF timer[c] = "armed" THEN [timer EXCEPT ![c] = "spent"] ELSE timer
    /\ Unref(Head(sendQueue[c]), stack)
    /\ UNCHANGED <<deviceVars, writeVars, sendTokens, queueSize, handed, credit, rxVars,
                   serial, chanVars, guestVars, readLocals, writeLocals, clients, ret>>

OwnsOther(c, buf) == buf.origin = "other" /\ buf.c = c
Owns(c, buf) == buf.origin = "client" /\ buf.c = c

\* One after the other, the buffers of the client leave the write queue ...
FreeWritten(c) ==
    /\ At("free") /\ Top.c = c /\ sendQueue[c] = <<>>
    /\ \E i \in DOMAIN writeQueue :
          /\ Owns(c, writeQueue[i]) /\ \A j \in 1..(i-1) : ~Owns(c, writeQueue[j])
          /\ writeQueue' = SubSeq(writeQueue, 1, i - 1)
                              \o SubSeq(writeQueue, i + 1, Len(writeQueue))
    /\ UNCHANGED <<deviceVars, cur, retry, selfTokens, mouse, sendVars, rxVars, poolVars,
                   chanVars, guestVars, readLocals, writeLocals, clients, stack, ret>>

\* ... the one being written is nobody's, and the client is no longer attached.
FreeEnd(c) ==
    /\ At("free") /\ Top.c = c /\ sendQueue[c] = <<>>
    /\ \A i \in DOMAIN writeQueue : ~Owns(c, writeQueue[i])
    /\ queueSize' = [queueSize EXCEPT ![c] = 0]
    /\ timer' = [timer EXCEPT ![c] = "off"]
    /\ cur' = IF Owns(c, cur) THEN NoTokenBuf ELSE cur
    /\ clients' = clients \ {c}
    /\ Return
    /\ UNCHANGED <<deviceVars, writeQueue, retry, selfTokens, mouse, sendTokens, sendQueue,
                   handed, credit, rxVars, poolVars, chanVars, guestVars, readLocals,
                   writeLocals, ret>>

KeepWaiting == UNCHANGED waitMig
EndWait == waitMig' = FALSE

RemovedEnd ==          \* the rest of spice_char_device_client_remove
    /\ At("removed")
    /\ EndWait
    /\ IF waitMig THEN Become(<<F("read?")>>) ELSE Return
    /\ UNCHANGED <<exists, attached, running, active, writeVars, sendVars, rxVars, poolVars,
                   chanVars, guestVars, readLocals, writeLocals, clients, ret>>

Gone(c) ==             \* VD_AGENT_CLIENT_DISCONNECTED after the last client
    /\ At("gone") /\ Top.c = c
    /\ conn' = [conn EXCEPT ![c] = "none"]
    /\ peerTokens' = [peerTokens EXCEPT ![c] = 0]
    /\ heldAs' = IF held = c THEN "orphan" ELSE heldAs
    /\ IF exists /\ \A d \in Clients \ {c} : conn[d] = "none"
       THEN writeQueue' = Append(writeQueue, NoTokenBuf) /\ Become(<<F("write?")>>)
       ELSE Return /\ UNCHANGED writeQueue
    /\ UNCHANGED <<deviceVars, cur, retry, selfTokens, mouse, sendVars, clientTokens,
                   tokensFree, held, started, poolVars, pipe, guestVars, readLocals, writeLocals,
                   clients, ret>>

-----------------------------------------------------------------------------
(* The device comes, goes, starts, stops and is migrated.                  *)

\* attach_to_red_agent, then spice_char_device_start if the VM runs.  On the
\* target of a migration c is the one client: it waits for the migration data
\* and is added at once, the ~0 tokens it then has being MaxSend here.
\* Otherwise c is None and clients are added when they ask for it.
Attach(c, vm) ==
    /\ Idle /\ ~attached
    /\ IF Waiting = {} THEN c = None ELSE c \in Waiting
    /\ exists' = TRUE /\ attached' = TRUE
    /\ IF exists       \* spice_char_device_state_reset_dev_instance
       THEN UNCHANGED <<active, writeQueue, cur, retry, selfTokens>>
       ELSE /\ active' = FALSE /\ writeQueue' = <<>> /\ cur' = NoBuf /\ retry' = FALSE
            /\ selfTokens' = SelfTokens
    /\ running' = vm
    /\ stack' = IF vm THEN <<F("start")>> ELSE <<>>
    /\ waitMig' = (c \notin clients \cup {None} \/ (exists /\ waitMig))
    /\ IF c \in clients \cup {None}
       THEN UNCHANGED <<clients, sendVars, clientTokens, tokensFree, peerTokens>>
       ELSE clients = {} /\ (exists => ~active)  \* else spice_char_device_client_add refuses
            /\ AddClient(c, MaxSend)
    /\ UNCHANGED <<mouse, held, heldAs, started, poolVars, conn, pipe, guestVars, readLocals,
                   writeLocals, ret>>

Start ==               \* spice_char_device_start
    /\ Idle /\ attached /\ ~running
    /\ running' = TRUE
    /\ Call(<<F("start")>>)
    /\ UNCHANGED <<exists, attached, active, waitMig, writeVars, sendVars, rxVars, poolVars,
                   chanVars, guestVars, readLocals, writeLocals, clients, ret>>

\* while (write_to_device() || read_from_device());
StartLoop ==
    /\ \/ At("start") /\ Become(<<F("write?"), F("startW")>>)
       \/ At("startW") /\ ret /\ Become(<<F("start")>>)
       \/ At("startW") /\ ~ret /\ Become(<<F("read?"), F("startR")>>)
       \/ At("startR") /\ ret /\ Become(<<F("start")>>)
       \/ At("startR") /\ ~ret /\ Return
    /\ ret' = FALSE
    /\ UNCHANGED <<deviceVars, writeVars, sendVars, rxVars, poolVars, chanVars, guestVars,
                   readLocals, writeLocals, clients>>

Stop ==                \* spice_char_device_stop
    /\ Idle /\ attached /\ running
    /\ running' = FALSE /\ active' = FALSE /\ retry' = FALSE
    /\ UNCHANGED <<exists, attached, waitMig, writeQueue, cur, selfTokens, mouse, sendVars,
                   rxVars, poolVars, chanVars, guestVars, readLocals, writeLocals, clients,
                   stack, ret>>

\* reds_reset_vdp: the state is destroyed if all clients that are linked can be
\* told their tokens again, otherwise it is reset.
Detach ==
    /\ Idle /\ attached
    /\ heldAs' = IF heldAs = "live" THEN "stale" ELSE heldAs
    /\ started' = FALSE
    /\ conn' = [c \in Clients |-> IF conn[c] = "mig" THEN "late" ELSE conn[c]]
    /\ IF ConnectedTokens \/ \A c \in Clients : ~Linked(c)
       THEN /\ writeQueue' = <<>> /\ cur' = NoBuf /\ retry' = FALSE
            /\ Call(<<F("destroy")>>)
            /\ UNCHANGED <<running, active, waitMig>>
       ELSE /\ running' = FALSE /\ active' = FALSE /\ retry' = FALSE /\ waitMig' = FALSE
            /\ Call(<<F("reset")>>)
            /\ UNCHANGED <<writeQueue, cur>>
    /\ UNCHANGED <<exists, attached, selfTokens, mouse, sendVars, clientTokens, tokensFree,
                   held, poolVars, pipe, peerTokens, guestVars, readLocals, writeLocals,
                   clients, ret>>

Destroy ==             \* spice_char_device_state_destroy, one client at a time
    /\ At("destroy")
    /\ IF clients # {}
       THEN /\ \E c \in clients : Call(<<FC("free", c)>>)
            /\ UNCHANGED <<exists, attached, running>>
       ELSE exists' = FALSE /\ attached' = FALSE /\ running' = FALSE /\ Return
    /\ UNCHANGED <<active, waitMig, writeVars, sendVars, rxVars, poolVars, chanVars,
                   guestVars, readLocals, writeLocals, clients, ret>>

ResetRelease ==        \* spice_char_device_reset: the write queue, then cur_write_buf
    /\ At("reset")
    /\ IF writeQueue # <<>>
       THEN Release(Head(writeQueue), Tail(writeQueue), stack) /\ UNCHANGED cur
       ELSE IF cur # NoBuf
       THEN cur' = NoBuf /\ Release(cur, writeQueue, <<F("reset2")>> \o Tail(stack))
       ELSE /\ Become(<<F("reset2")>>)
            /\ UNCHANGED <<cur, clientTokens, tokensFree, pipe, selfTokens, mouse,
                           writeQueue, writing>>
    /\ UNCHANGED <<deviceVars, retry, sendVars, held, heldAs, started, poolVars, conn, peerTokens,
                   guestVars, readLocals, didWrite, clients, ret>>

\* The places in the send queues of the clients cs that hold b.
InQueues(b, cs) == UNION {{c} \X {i \in DOMAIN sendQueue[c] : sendQueue[c][i] = b} : c \in cs}

\* ... then the send queues, whose lengths are added to the send tokens.  The
\* device does not run, so the wakeups of the freed read buffers do nothing.
\* What was queued is never sent: the history of handed starts anew.
ResetQueues ==
    /\ At("reset2")
    /\ refs' = [b \in Bufs |-> refs[b] - Cardinality(InQueues(b, clients))]
    /\ handed' = [c \in Clients |-> IF c \in clients THEN lastRead ELSE handed[c]]
    /\ sendQueue' = [c \in Clients |-> IF c \in clients THEN <<>> ELSE sendQueue[c]]
    /\ sendTokens' = [c \in Clients |-> IF c \in clients THEN sendTokens[c] + queueSize[c]
                                                         ELSE sendTokens[c]]
    /\ queueSize' = [c \in Clients |-> IF c \in clients THEN 0 ELSE queueSize[c]]
    /\ attached' = FALSE
    /\ Return
    /\ UNCHANGED <<exists, running, active, waitMig, writeVars, timer, credit, rxVars,
                   serial, chanVars, guestVars, readLocals, writeLocals, clients, ret>>

\* reds_handle_migrate_data and spice_char_device_state_restore: the client has
\* n of its tokens, w of them are in the unwritten data, t are its send tokens.
\* Data that arrives before the agent is kept until Attach, which comes to the
\* same as this step right after it.
Restore(c, n, w, t, data) ==
    /\ Idle /\ conn[c] = "mig" /\ attached
    /\ clients = {c} /\ waitMig                \* spice_assert
    /\ cur = NoBuf /\ writeQueue = <<>>        \* spice_assert
    /\ n + w <= Window /\ Window - n - w < Interval /\ (w > 0 => data)
    /\ conn' = [conn EXCEPT ![c] = "open"]
    /\ started' = TRUE                         \* as at the source, whose client was added
    /\ clientTokens' = [clientTokens EXCEPT ![c] = n]
    /\ peerTokens' = [peerTokens EXCEPT ![c] = n]
    /\ tokensFree' = [tokensFree EXCEPT ![c] = Window - n - w]
    /\ sendTokens' = [sendTokens EXCEPT ![c] = t]
    /\ credit' = [credit EXCEPT ![c] = t]
    /\ cur' = IF w > 0 THEN ClientBuf(c, w) ELSE IF data THEN ServerBuf ELSE NoBuf
    /\ selfTokens' = IF w = 0 /\ data THEN selfTokens - 1 ELSE selfTokens
    /\ waitMig' = FALSE
    /\ Call(Wakeup)
    /\ UNCHANGED <<exists, attached, running, active, writeQueue, retry, mouse, sendQueue,
                   queueSize, timer, handed, held, heldAs, poolVars, pipe, guestVars,
                   readLocals, writeLocals, clients, ret>>

\* The agent was detached before the data came: it is ignored.
RestoreLate(c) ==
    /\ Idle /\ conn[c] = "late"
    /\ exists                                  \* spice_assert: plug_generation = 0
    /\ conn' = [conn EXCEPT ![c] = "open"]
    /\ UNCHANGED <<deviceVars, writeVars, sendVars, rxVars, poolVars, pipe, peerTokens,
                   guestVars, readLocals, writeLocals, clients, stack, ret>>

\* The source host had no agent: the client will be added when it asks for it.
RestoreNone(c) ==
    /\ Idle /\ c \in Waiting
    /\ conn' = [conn EXCEPT ![c] = "open"]
    /\ Call(IF attached THEN <<FC("free", c), F("removed")>> ELSE <<>>)
    /\ UNCHANGED <<deviceVars, writeVars, sendVars, rxVars, poolVars, pipe, peerTokens,
                   guestVars, readLocals, writeLocals, clients, ret>>

GuestWrites ==         \* the guest writes to the port; QEMU calls wakeup
    /\ Idle /\ attached /\ left > 0
    /\ left' = left - 1 /\ pending' = pending + 1
    /\ Call(Wakeup)
    /\ UNCHANGED <<deviceVars, writeVars, sendVars, rxVars, poolVars, chanVars, lastRead,
                   readLocals, writeLocals, clients, ret>>

-----------------------------------------------------------------------------
Init ==
    /\ exists = FALSE /\ attached = FALSE /\ running = FALSE /\ active = FALSE
    /\ waitMig = FALSE /\ clients = {}
    /\ writeQueue = <<>> /\ cur = NoBuf /\ retry = FALSE /\ selfTokens = 0 /\ mouse = FALSE
    /\ sendTokens = [c \in Clients |-> 0] /\ sendQueue = [c \in Clients |-> <<>>]
    /\ queueSize = [c \in Clients |-> 0] /\ timer = [c \in Clients |-> "off"]
    /\ handed = [c \in Clients |-> 0] /\ credit = [c \in Clients |-> 0]
    /\ clientTokens = [c \in Clients |-> 0] /\ tokensFree = [c \in Clients |-> 0]
    /\ peerTokens = [c \in Clients |-> 0]
    /\ held = None /\ heldAs = "live"
    /\ refs = [b \in Bufs |-> 0] /\ serial = [b \in Bufs |-> 0]
    /\ started = FALSE
    /\ \/ conn = [c \in Clients |-> "none"]
       \/ ~MultiClient /\ ConnectedTokens      \* the target of a seamless migration
          /\ \E m \in Clients : conn = [c \in Clients |-> IF c = m THEN "mig" ELSE "none"]
    /\ pipe = [c \in Clients |-> <<>>]
    /\ left = MaxMsgs /\ pending = 0 /\ lastRead = 0
    /\ reading = 0 /\ max = 0 /\ msg = None /\ todo = {} /\ didRead = FALSE
    /\ writing = 0 /\ didWrite = FALSE
    /\ stack = <<>> /\ ret = FALSE

Channel(c) ==          \* the main channel of c
    FlushSend(c) \/ FlushStop(c) \/ FlushFail(c) \/ HangupItem(c) \/ HangupEnd(c)

Reading ==             \* the read loop
    \/ ReadRefused \/ ReadNested \/ ReadBegin \/ ReadMsg \/ ReadDiscard \/ ReadNothing
    \/ ReadAgain \/ ReadEnd \/ SendDone
    \/ \E c \in Clients : SendNow(c) \/ SendOverflow(c) \/ SendLater(c)

Pushing(c) ==          \* the send loop of a client
    PushOne(c) \/ PushUnref(c) \/ PushShrink(c) \/ PushEnd(c) \/ AbsorbEnd(c)

Writing ==             \* the write loop
    \/ WriteRefused \/ WriteNested \/ WriteBegin \/ WriteAll \/ WritePart \/ WriteNone
    \/ WriteRelease \/ WriteAgain \/ WriteEnd

Removing(c) ==         \* of a client
    FreeQueued(c) \/ FreeWritten(c) \/ FreeEnd(c) \/ Gone(c)

Running ==             \* some function is active: its next step
    \/ Reading \/ Writing \/ RemovedEnd \/ StartLoop \/ Destroy \/ ResetRelease \/ ResetQueues
    \/ \E c \in Clients : Channel(c) \/ Pushing(c) \/ Removing(c)

FromClient(c) ==       \* a message of c, or an event of its channel
    \/ Connect(c) \/ ClientDisconnect(c) \/ PeerCloses(c) \/ BufGet(c) \/ BufStale(c)
    \/ RestoreLate(c) \/ RestoreNone(c)
    \/ \E n \in 0..MaxSend : ClientAdd(c, n) \/ TokensSet(c, n) \/ TokensAdd(c, n)

FromServer(c) ==       \* work the server has to come back to
    Writable(c) \/ WaitTimeout(c) \/ BufAdd(c) \/ BufGiveBack(c)

FromVM ==
    \/ \E c \in Clients \cup {None}, vm \in BOOLEAN : Attach(c, vm)
    \/ Start \/ Stop \/ Detach \/ GuestWrites \/ MouseEvent

Migrated == \E c \in Clients, n, w \in 0..Window, t \in 0..MaxSend, data \in BOOLEAN :
                Restore(c, n, w, t, data)

Next == Running \/ WriteRetry \/ FromVM \/ Migrated
        \/ \E c \in Clients : FromClient(c) \/ FromServer(c)

Spec == Init /\ [][Next]_vars

-----------------------------------------------------------------------------
(* Invariants.                                                             *)

\* c is being removed from the device, or the device is being destroyed.
Leaving(c) == \E i \in DOMAIN stack : stack[i] \in {FC("free", c), F("destroy")}

DeviceTypes ==
    /\ {exists, attached, running, active, waitMig} \subseteq BOOLEAN
    /\ clients \subseteq Clients
WriteTypes ==
    /\ writeQueue \in Seq(WriteBuf) /\ cur \in WriteBuf \cup {NoBuf}
    /\ {retry, mouse, didWrite} \subseteq BOOLEAN
    /\ selfTokens \in Int /\ writing \in 0..2
SendTypes ==
    /\ {sendTokens, queueSize, credit} \subseteq [Clients -> Int]
    /\ handed \in [Clients -> Nat]
    /\ sendQueue \in [Clients -> Seq(Bufs)]
    /\ timer \in [Clients -> {"off", "armed", "spent"}]
RxTypes ==
    /\ {clientTokens, tokensFree} \subseteq [Clients -> Nat]
    /\ started \in BOOLEAN
    /\ held \in Clients \cup {None} /\ heldAs \in {"live", "stale", "orphan"}
PoolTypes == refs \in [Bufs -> Int] /\ serial \in [Bufs -> Nat]
ChanTypes ==
    /\ conn \in [Clients -> {"none", "mig", "late", "open", "shut", "closed"}]
    /\ pipe \in [Clients -> Seq(PipeItem)]
    /\ peerTokens \in [Clients -> Nat]
ReadTypes ==
    /\ {left, pending, lastRead} \subseteq Nat
    /\ reading \in 0..2 /\ max \in Int /\ didRead \in BOOLEAN
    /\ msg \in Bufs \cup {None}
    /\ todo \subseteq Clients /\ (todo # {} => msg # None)
StackTypes == stack \in Seq(Frame) /\ ret \in BOOLEAN

\* Every variable has its type, and only a message that is there is still to be
\* sent to somebody.
TypeOK == DeviceTypes /\ WriteTypes /\ SendTypes /\ RxTypes /\ PoolTypes /\ ChanTypes
          /\ ReadTypes /\ StackTypes

\* spice_char_device_read_from_device protects itself against recursion: the
\* stack holds at most one active read loop, and during_read_from_device is 0
\* exactly when there is none.
OneReader ==
    LET Loops == {i \in DOMAIN stack : stack[i].op \in {"read", "read0"}}
    IN  /\ \A i, j \in Loops : i = j
        /\ reading = 0 <=> Loops = {}

\* So does spice_char_device_write_to_device.
OneWriter ==
    LET Loops == {i \in DOMAIN stack : stack[i].op \in {"write", "wrote", "wrote0"}}
    IN  /\ \A i, j \in Loops : i = j
        /\ writing = 0 <=> Loops = {}

\* "multi-clients are not supported" by migration, and with one client nothing
\* is ever queued: it is read only what its tokens cover.  This is what
\* spice_assert(client_state->send_queue_size == 0) relies on when the state
\* of the device is marshalled.
SingleClientNoQueue ==
    ~MultiClient => \A c \in Clients : sendQueue[c] = <<>> /\ queueSize[c] = 0

\* No message is lost, duplicated or reordered: the messages a client was sent,
\* its queue and the message being sent are, in order, all that was read since
\* it was added or the device was last reset.
NoGap ==
    \A c \in clients : conn[c] = "open" /\ ~Leaving(c) =>
        /\ handed[c] + Len(sendQueue[c]) + (IF c \in todo THEN 1 ELSE 0) = lastRead
        /\ \A i \in DOMAIN sendQueue[c] : serial[sendQueue[c][i]] = handed[c] + i

\* A client whose messages wait is watched: the timeout that removes it runs.
QueueWatched ==
    Idle => \A c \in clients :
        sendQueue[c] # <<>> => timer[c] = "armed" \/ conn[c] # "open"

\* Messages wait only for tokens: tokens_absorb asserts that a client with a
\* queue had none before the ones it brings.
QueueMeansNoTokens ==
    Idle => \A c \in clients : queueSize[c] > 0 => sendTokens[c] = 0

\* What the guest has written is read as soon as it can be sent: at rest, with
\* a buffer free, no attached client has tokens while data waits.
NoLostWakeup ==
    Idle /\ Usable /\ pending > 0 /\ Free # {} => \A c \in clients : ~CanSend(c)

\* What is to be written is being written: at rest either the device is to call
\* back or the retry timer runs, and the queue is behind the current buffer.
WriteScheduled ==
    Idle /\ Usable =>
        /\ cur = NoBuf => writeQueue = <<>>
        /\ cur # NoBuf => retry \/ NotifyWritable

\* A buffer a client wrote belongs to an attached client (the spice_assert of
\* spice_char_device_write_buffer_release).
BuffersHaveOwners ==
    /\ cur.origin = "client" => cur.c \in clients
    /\ \A i \in DOMAIN writeQueue :
          writeQueue[i].origin = "client" => writeQueue[i].c \in clients

\* References to read buffers are neither leaked nor dropped twice: each one
\* counted in VDIReadBuf.refs is held by a pipe item, a send queue, the read
\* loop or the send loop.
RefsMatch ==
    LET InPipes(b) == UNION {{c} \X {i \in DOMAIN pipe[c] : pipe[c][i].buf = b} : c \in Clients}
    IN  \A b \in Bufs :
            refs[b] = Cardinality(InPipes(b)) + Cardinality(InQueues(b, Clients))
                      + Cardinality({i \in DOMAIN stack : stack[i].op = "pushed"
                                                          /\ stack[i].b = b})
                      + (IF msg = b THEN 1 ELSE 0)

\* Server messages never exceed num_self_tokens, and no self token is lost,
\* neither by a reset nor by a restored buffer.
SelfTokensConserved ==
    exists /\ (\A i \in DOMAIN stack : stack[i].op # "destroy") =>
        selfTokens
        + Cardinality({i \in DOMAIN writeQueue : writeQueue[i].origin = "server"})
        + (IF cur.origin = "server" THEN 1 ELSE 0) = SelfTokens

\* The tokens of a client are conserved: what it may still send, what is kept
\* to be returned, what its buffers cost (those in the queue one each, a restored
\* one as many as it was told) and the message that is being received add up to
\* its window, through returns in batches, resets and migration.
ClientTokensConserved ==
    FlowControl => \A c \in clients : ~Leaving(c) =>
        clientTokens[c] + tokensFree[c]
        + Cardinality({i \in DOMAIN writeQueue : Owns(c, writeQueue[i])})
        + (IF Owns(c, cur) THEN cur.price ELSE 0)
        + (IF Receiving(c) THEN 1 ELSE 0) = Window

\* The main channel of c is being disconnected, and the tokens on their way to c.
HangingUp(c) == \E i \in DOMAIN stack : stack[i].op = "hangup" /\ stack[i].c = c

OnTheWay(c) == UNION {{i} \X (1..pipe[c][i].tokens) : i \in DOMAIN pipe[c]}

\* A client that has started the agent and that can be told its tokens anew, and
\* the server, agree on the client's tokens, each one on its way counted for the
\* client: no token is lost, and it is never taken to violate tokens it obeys.
TokensAgree ==
    ConnectedTokens => \A c \in clients : started /\ conn[c] = "open" /\ ~HangingUp(c) =>
        peerTokens[c] + Cardinality(OnTheWay(c)) = clientTokens[c]

\* A device waits for migration data only for its one client, and nothing is
\* written to it before the data comes (the spice_asserts of
\* spice_char_device_client_remove and spice_char_device_state_restore).
WaitsForOneClient ==
    Idle /\ exists /\ waitMig =>
        /\ attached /\ Cardinality(clients) = 1
        /\ \A c \in clients : conn[c] = "mig" => writeQueue = <<>> /\ cur = NoBuf
=============================================================================

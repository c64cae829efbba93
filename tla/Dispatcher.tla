----------------------------- MODULE Dispatcher -----------------------------
(***************************************************************************)
(* The inter-thread dispatcher of server/dispatcher.c.  Any thread sends   *)
(* typed messages of fixed size over one end of a socket pair, under a     *)
(* mutex held until the acknowledgement of a DISPATCHER_ACK message is     *)
(* read back; one thread polls the other end, reads a message in blocking  *)
(* mode and runs its handler.                                              *)
(*                                                                         *)
(* The stream is modelled word by word: word 0 of a message is its type,   *)
(* words 1 .. Size its body.  A word is named [n, part] after the message  *)
(* it belongs to, in the order of the mutex; the receiver uses only what   *)
(* the word says (a type if it is word 0, nothing it knows otherwise).     *)
(*                                                                         *)
(* EINTR only repeats a system call and is invisible here.  The other      *)
(* errors of read and write are left out: both ends stay open for the life *)
(* of the process.  Types and their handlers are registered before any     *)
(* thread sends; a completion callback is registered wherever a type is    *)
(* DISPATCHER_ASYNC (red_dispatcher.c).                                    *)
(***************************************************************************)
EXTENDS Naturals, Sequences

CONSTANTS
  Senders,    \* threads that call dispatcher_send_message
  Types,      \* registered message types
  Size,       \* DispatcherMessage.size, in words; may be 0
  AckOf,      \* DispatcherMessage.ack
  Capacity,   \* words the socket buffers in the sending direction
  MaxPosts,   \* bound: messages sent in a behaviour
  None

ASSUME TypesAssumption ==
  /\ Size \in [Types -> Nat]
  /\ AckOf \in [Types -> {"none", "ack", "async"}]
  /\ None \notin Types \cup Senders

ASSUME BoundsAssumption ==
  /\ Capacity \in Nat \ {0}
  /\ MaxPosts \in Nat

VARIABLES
  pc,         \* pc[s]: where a sender is in dispatcher_send_message
  call,       \* call[s]: message_type of its call, or None
  mine,       \* mine[s]: number of its message, 0 before it has the mutex
  written,    \* written[s]: words of it already in the socket
  lock,       \* Dispatcher.lock: its holder, or None
  posts,      \* history: messages in the order of the mutex, [from, type]
  wire,       \* words in the socket towards recv_fd
  acks,       \* words in the socket towards send_fd (each is ACK)
  recv,       \* where the receiving thread is in handle_single_read
  rtype,      \* its local variable type
  payload,    \* Dispatcher.payload: words of the body read so far
  handled,    \* history: what the handlers were given, [type, body]
  completed   \* history: what handle_async_done was given

senderVars == <<pc, call, mine, written, lock, posts>>
recvVars == <<recv, rtype, payload, handled, completed>>
vars == <<pc, call, mine, written, lock, posts, wire, acks,
          recv, rtype, payload, handled, completed>>

Word == [n : Nat \ {0}, part : Nat]
Delivery == [type : Types, body : Seq(Word)]

Init ==
  /\ pc = [s \in Senders |-> "idle"]
  /\ call = [s \in Senders |-> None]
  /\ mine = [s \in Senders |-> 0]
  /\ written = [s \in Senders |-> 0]
  /\ lock = None
  /\ posts = <<>>
  /\ wire = <<>>
  /\ acks = 0
  /\ recv = "away"
  /\ rtype = None
  /\ payload = <<>>
  /\ handled = <<>>
  /\ completed = <<>>

-----------------------------------------------------------------------------
(* dispatcher_send_message, in the sending threads.                        *)

Ask(s, t) ==
  /\ pc[s] = "idle"
  /\ Len(posts) < MaxPosts
  /\ pc' = [pc EXCEPT ![s] = "lock"]
  /\ call' = [call EXCEPT ![s] = t]
  /\ UNCHANGED <<mine, written, lock, posts, wire, acks, recvVars>>

\* Variant: the mutex is taken without looking whether it is free.
LockIgnoresHolder(s) ==
  /\ pc[s] = "lock"
  /\ lock' = s
  /\ pc' = [pc EXCEPT ![s] = "write"]
  /\ posts' = Append(posts, [from |-> s, type |-> call[s]])
  /\ mine' = [mine EXCEPT ![s] = Len(posts')]
  /\ written' = [written EXCEPT ![s] = 0]
  /\ UNCHANGED <<call, wire, acks, recvVars>>

Lock(s) ==
  /\ pc[s] = "lock"
  /\ lock = None
  /\ lock' = s
  /\ pc' = [pc EXCEPT ![s] = "write"]
  /\ posts' = Append(posts, [from |-> s, type |-> call[s]])
  /\ mine' = [mine EXCEPT ![s] = Len(posts')]
  /\ written' = [written EXCEPT ![s] = 0]
  /\ UNCHANGED <<call, wire, acks, recvVars>>

\* Variant: the sender does not wait for the acknowledgement.
AfterBodyNoWait(t) == "unlock"

\* Where the sender goes after the last word of a message of type t.
AfterBody(t) == IF AckOf[t] = "ack" THEN "ack" ELSE "unlock"

\* One word of one of the two write_safe calls; it blocks on a full socket.
Write(s) ==
  /\ pc[s] = "write"
  /\ Len(wire) < Capacity
  /\ wire' = Append(wire, [n |-> mine[s], part |-> written[s]])
  /\ written' = [written EXCEPT ![s] = @ + 1]
  /\ pc' = [pc EXCEPT ![s] = IF written[s] < Size[call[s]]
                             THEN @ ELSE AfterBody(call[s])]
  /\ UNCHANGED <<call, mine, lock, posts, acks, recvVars>>

ReadAck(s) ==
  /\ pc[s] = "ack"
  /\ acks > 0
  /\ acks' = acks - 1
  /\ pc' = [pc EXCEPT ![s] = "unlock"]
  /\ UNCHANGED <<call, mine, written, lock, posts, wire, recvVars>>

Unlock(s) ==
  /\ pc[s] = "unlock"
  /\ lock' = None
  /\ pc' = [pc EXCEPT ![s] = "idle"]
  /\ call' = [call EXCEPT ![s] = None]
  /\ mine' = [mine EXCEPT ![s] = 0]
  /\ UNCHANGED <<written, posts, wire, acks, recvVars>>

-----------------------------------------------------------------------------
(* dispatcher_handle_recv_read and dispatcher_handle_single_read, in the   *)
(* receiving thread.                                                       *)

\* What a word is worth to a reader that expects a type.
TypeOf(w) == IF w.part = 0 THEN posts[w.n].type ELSE None

\* The thread is elsewhere until the watch on recv_fd reports it readable.
Wake ==
  /\ recv = "away"
  /\ wire # <<>>
  /\ recv' = "poll"
  /\ UNCHANGED <<senderVars, wire, acks, rtype, payload, handled, completed>>

\* The non-blocking read finds no byte: dispatcher_handle_recv_read returns.
NoMessage ==
  /\ recv = "poll"
  /\ wire = <<>>
  /\ recv' = "away"
  /\ UNCHANGED <<senderVars, wire, acks, rtype, payload, handled, completed>>

ReadType ==
  /\ recv = "poll"
  /\ wire # <<>>
  /\ rtype' = TypeOf(Head(wire))
  /\ wire' = Tail(wire)
  /\ payload' = <<>>
  /\ recv' = IF Size[rtype'] = 0 THEN "handle" ELSE "body"
  /\ UNCHANGED <<senderVars, acks, handled, completed>>

\* One word of the blocking read of the body.
ReadBody ==
  /\ recv = "body"
  /\ wire # <<>>
  /\ payload' = Append(payload, Head(wire))
  /\ wire' = Tail(wire)
  /\ recv' = IF Len(payload') = Size[rtype] THEN "handle" ELSE "body"
  /\ UNCHANGED <<senderVars, acks, rtype, handled, completed>>

\* Variants: every message is acknowledged; the asynchronous ones are; none is.
AfterHandlerAlwaysAck(t) == "ack"
AfterHandlerAsyncAck(t) == IF AckOf[t] = "none" THEN "poll" ELSE "ack"
AfterHandlerNoAck(t) == IF AckOf[t] = "async" THEN "async" ELSE "poll"

\* What handle_single_read does after the handler of a message of type t.
AfterHandler(t) ==
  CASE AckOf[t] = "ack" -> "ack"
    [] AckOf[t] = "async" -> "async"
    [] OTHER -> "poll"

\* The universal handler (red_worker's recorder), if any, only looks at the
\* message that the handler is then given.
Handle ==
  /\ recv = "handle"
  /\ handled' = Append(handled, [type |-> rtype, body |-> payload])
  /\ recv' = AfterHandler(rtype)
  /\ UNCHANGED <<senderVars, wire, acks, rtype, payload, completed>>

WriteAck ==
  /\ recv = "ack"
  /\ acks' = acks + 1
  /\ recv' = "poll"
  /\ UNCHANGED <<senderVars, wire, rtype, payload, handled, completed>>

AsyncDone ==
  /\ recv = "async"
  /\ completed' = Append(completed, [type |-> rtype, body |-> payload])
  /\ recv' = "poll"
  /\ UNCHANGED <<senderVars, wire, acks, rtype, payload, handled>>

-----------------------------------------------------------------------------
SenderStep(s) == Lock(s) \/ Write(s) \/ ReadAck(s) \/ Unlock(s)
Receiver ==
  Wake \/ NoMessage \/ ReadType \/ ReadBody \/ Handle \/ WriteAck \/ AsyncDone

Next ==
  \/ \E s \in Senders : (\E t \in Types : Ask(s, t)) \/ SenderStep(s)
  \/ Receiver

Spec == Init /\ [][Next]_vars

\* Every thread keeps running: a call in progress and the receiver's loop go
\* on when they can.  Nothing makes a thread call.
FairSpec ==
  /\ Spec
  /\ \A s \in Senders : WF_vars(SenderStep(s))
  /\ WF_vars(Receiver)

-----------------------------------------------------------------------------
(* Properties.                                                             *)

\* Types.  The socket back to the sender never holds more than one
\* acknowledgement, so the write of an acknowledgement never blocks
\* (dispatcher.c:146), and the other direction never exceeds its capacity.
TypeOK ==
  /\ pc \in [Senders -> {"idle", "lock", "write", "ack", "unlock"}]
  /\ call \in [Senders -> Types \cup {None}]
  /\ mine \in [Senders -> Nat]
  /\ written \in [Senders -> Nat]
  /\ lock \in Senders \cup {None}
  /\ posts \in Seq([from : Senders, type : Types])
  /\ wire \in Seq(Word)
  /\ Len(wire) <= Capacity
  /\ acks \in 0 .. 1
  /\ recv \in {"away", "poll", "body", "handle", "ack", "async"}
  /\ rtype \in Types \cup {None}
  /\ payload \in Seq(Word)
  /\ handled \in Seq(Delivery)
  /\ completed \in Seq(Delivery)

\* The word after w in an unbroken stream.
Succ(w) ==
  IF w.part < Size[posts[w.n].type]
  THEN [n |-> w.n, part |-> w.part + 1]
  ELSE [n |-> w.n + 1, part |-> 0]

\* The word the receiver takes next if it is still in step with the senders,
\* and the word the senders put next.
ExpectedWord ==
  CASE recv = "body" -> [n |-> Len(handled) + 1, part |-> Len(payload) + 1]
    [] recv = "handle" -> [n |-> Len(handled) + 2, part |-> 0]
    [] OTHER -> [n |-> Len(handled) + 1, part |-> 0]

WriterWord ==
  IF lock # None /\ pc[lock] = "write"
  THEN [n |-> Len(posts), part |-> written[lock]]
  ELSE [n |-> Len(posts) + 1, part |-> 0]

\* The receiver cannot lose its place: what the socket holds is exactly the
\* stretch of the stream between the word it expects and the word the
\* senders write next, however the messages are cut by a full socket and
\* whichever thread sends (dispatcher.c:161, "doesn't handle being in the
\* middle of a message").
Framed ==
  /\ wire = <<>> => ExpectedWord = WriterWord
  /\ wire # <<>> => wire[1] = ExpectedWord /\ Succ(wire[Len(wire)]) = WriterWord
  /\ \A i \in 1 .. Len(wire) - 1 : wire[i + 1] = Succ(wire[i])

\* All acknowledgements are the same word (dispatcher.c:42): one that waits
\* in the socket must be the answer to the message of the thread that reads
\* it, and that message has been handled.
AckForHolder ==
  acks > 0 =>
    /\ lock # None
    /\ pc[lock] = "ack"
    /\ mine[lock] = Len(handled)

\* A thread that took the mutex gets out of dispatcher_send_message: neither
\* the full socket nor the wait for an acknowledgement holds it for ever.
HolderReturns ==
  \A s \in Senders : (lock = s) ~> (pc[s] = "idle")

\* The dispatcher implements the remote call its header describes.
RemoteCall == INSTANCE Rpc WITH owes <- recv = "async"
ImplementsRpc == RemoteCall!Spec
=============================================================================

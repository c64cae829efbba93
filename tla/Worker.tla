------------------------------- MODULE Worker -------------------------------
(***************************************************************************)
(* The display worker: the thread of red_worker.c that empties a guest's   *)
(* cursor and display command rings, fills the pipes of the two channels,  *)
(* and answers the messages of red_dispatcher.c.                           *)
(*                                                                         *)
(* Three parties meet here and none holds a lock of another: the guest's   *)
(* processors push commands and notify only when asked to; the main thread *)
(* stops and starts the machine; the clients drain the sockets and         *)
(* acknowledge windows of messages.  The worker must sleep when there is   *)
(* nothing to do and never when there is.                                  *)
(*                                                                         *)
(* Rings and processors live in the emulator and the guest: they are       *)
(* modelled from how this code uses them (QXLInterface).                   *)
(***************************************************************************)
EXTENDS Integers, Sequences, FiniteSets, FiniteSetsExt

CONSTANTS
    Vcpus,          \* processors of the guest that do I/O
    RingSize,       \* commands each ring holds
    Retries,        \* CMD_RING_POLL_RETRIES
    PipeMax,        \* MAX_PIPE_SIZE
    Window,         \* the clients' acknowledgement window
    SocketSize,     \* messages a client's socket holds
    QueueSize,      \* messages the dispatcher's socket holds
    Starts          \* the initial states: the channels that have a client, the
                    \* processors that are online, whether there is a primary

Rings == {"cursor", "display"}

\* red_worker_main asserts the last conjunct, to "ensure wakeup by ack message".
ASSUME WorkerAssumption ==
    /\ RingSize \in [Rings -> Nat] /\ Retries \in Nat /\ Window \in Nat \ {0}
    /\ SocketSize \in Nat \ {0} /\ QueueSize \in Nat \ {0}
    /\ Starts \subseteq [open : SUBSET Rings, online : SUBSET Vcpus, stream : BOOLEAN]
    /\ PipeMax \in Nat /\ PipeMax > Window

VARIABLES
    vm,         \* "running" or "stopped", as the main thread sees it
    vcpu,       \* what each processor is doing
    ring,       \* commands in each ring
    armed,      \* whether the next push into a ring has to notify
    pending,    \* RedDispatcher.pending
    messages,   \* what the dispatcher's socket holds
    waiting,    \* the synchronous message a sender holds the dispatcher for
    owed,       \* commands pushed before that message and not processed yet
    pc,         \* where the worker is
    call,       \* the running red_process_cursor or red_process_commands
    job,        \* the message being handled
    ready,      \* descriptors poll reported and not handled yet
    running,    \* RedWorker.running
    timeout,    \* RedWorker.event_timeout
    tries,      \* cursor_poll_tries and display_poll_tries
    chan,       \* each channel, with its one client
    cursor,     \* FALSE when RedWorker.cursor_channel is NULL
    stream      \* whether the primary surface, and so a client's stream, exists

guestVars == <<vm, vcpu, ring, armed>>
msgVars == <<pending, messages, waiting, owed>>
loopVars == <<pc, call, job, ready, running, timeout, tries>>
chanVars == <<chan, cursor>>
vars == <<guestVars, msgVars, loopVars, chanVars, stream>>

-----------------------------------------------------------------------------
(* One channel and its client.                                             *)

Closed == [connected |-> FALSE, gone |-> FALSE, pipe |-> 0, blocked |-> FALSE,
           sock |-> 0, seen |-> 0, acks |-> 0]

Opened == [Closed EXCEPT !.connected = TRUE]

\* red_channel_client_disconnect.
Dropped == [Closed EXCEPT !.gone = TRUE]

\* ack_data.messages_window: messages sent and not acknowledged yet.
Unacked(c) ==
    (IF c.blocked THEN 1 ELSE 0) + c.sock + c.seen + Window * c.acks

\* Messages that may start before red_channel_client_waiting_for_ack.
CreditWide(c) == Max({0, 2 * Window + 2 - Unacked(c)})

Credit(c) == Max({0, 2 * Window + 1 - Unacked(c)})

\* A frame that comes too early after the last one is left out of the stream
\* and no message is sent for its pipe item (red_marshall_stream_data).
Drops(r) == r = "display" /\ stream

\* What red_channel_client_push may leave.  A blocked message goes first; then
\* items are popped until one blocks, the window is used up or none is left.
\* Of the popped items, sent became messages.  What is written to a client that
\* has closed is lost or fails, and then the client is disconnected.
Push(r, c) ==
    IF ~c.connected \/ (c.blocked /\ c.sock = SocketSize) THEN {c} ELSE
    IF c.gone THEN {c, Dropped} ELSE
    LET flushed == [c EXCEPT !.blocked = FALSE,
                             !.sock = IF c.blocked THEN @ + 1 ELSE @]
        room == SocketSize - flushed.sock
        most == Min({room + 1, Credit(flushed)})
        sends == {p \in (0 .. c.pipe) \X (0 .. c.pipe) :
                     LET popped == p[1]  sent == p[2] IN
                     /\ sent =< popped /\ sent =< most
                     /\ popped = c.pipe \/ sent = most
                     /\ popped = sent \/ (Drops(r) /\ most > 0)}
    IN  {[flushed EXCEPT !.pipe = @ - p[1],
                         !.sock = @ + Min({p[2], room}),
                         !.blocked = p[2] > room] : p \in sends}

\* red_channel_client_receive and then red_channel_client_push, as an event, the
\* flush and the stop do it: a closed connection is dropped, every
\* acknowledgement that has come opens the window.
Serve(r, c) ==
    IF ~c.connected THEN {c} ELSE
    IF c.gone THEN {Dropped} ELSE Push(r, [c EXCEPT !.acks = 0])

PipeFull(r) == chan[r].connected /\ chan[r].pipe > PipeMax

\* create_full_screen_stream when a client comes, display_channel_stop_streams when
\* the last one goes.
Streaming == stream /\ chan["display"].connected

Ready(r) ==
    /\ chan[r].connected
    /\ \/ chan[r].acks > 0 \/ chan[r].gone
       \/ chan[r].blocked /\ chan[r].sock < SocketSize

-----------------------------------------------------------------------------

\* A processor runs the guest, is off line, waits for an answer, or is at a step of
\* red_dispatcher_wakeup or red_dispatcher_oom with their pending bit.
Doing(at, bit) == [at |-> at, bit |-> bit]
Guesting == Doing("guest", "none")
Off == Doing("off", "none")
Waits == Doing("waits", "none")

\* from is the caller, n whether a command has been processed, empty the result
\* ring_is_empty.
NoCall == [ring |-> "cursor", from |-> "loop", n |-> FALSE, empty |-> FALSE]

Init ==
    /\ \E start \in Starts :
          /\ chan = [r \in Rings |-> IF r \in start.open THEN Opened ELSE Closed]
          /\ vcpu = [v \in Vcpus |-> IF v \in start.online THEN Guesting ELSE Off]
          /\ stream = start.stream
    /\ vm = "running"
    /\ ring = [r \in Rings |-> 0] /\ armed = [r \in Rings |-> TRUE]
    /\ pending = {} /\ messages = <<>> /\ waiting = "none"
    /\ owed = [r \in Rings |-> 0]
    /\ pc = "poll" /\ call = NoCall /\ job = "none" /\ ready = {}
    /\ running = TRUE /\ timeout = "inf" /\ tries = [r \in Rings |-> 0]
    /\ cursor = TRUE

-----------------------------------------------------------------------------
(* The guest's processors: the rings and the I/O ports.                    *)

\* SPICE_RING_PUSH: the processor notifies if the worker asked for it.
PushCommand(v, r) ==
    /\ vm = "running" /\ vcpu[v] = Guesting /\ ring[r] < RingSize[r]
    /\ ring' = [ring EXCEPT ![r] = @ + 1]
    /\ armed' = [armed EXCEPT ![r] = FALSE]
    /\ vcpu' = [vcpu EXCEPT ![v] = IF armed[r] THEN Doing("test", "wakeup") ELSE @]
    /\ UNCHANGED <<vm, msgVars, loopVars, chanVars, stream>>

\* The guest ran out of memory for its commands.
OutOfMemory(v) ==
    /\ vm = "running" /\ vcpu[v] = Guesting
    /\ vcpu' = [vcpu EXCEPT ![v] = Doing("test", "oom")]
    /\ UNCHANGED <<vm, ring, armed, msgVars, loopVars, chanVars, stream>>

\* red_dispatcher_set_pending, which says that it is not atomic: the test ...
TestPending(v, p) ==
    /\ vcpu[v] = Doing("test", p)
    /\ vcpu' = [vcpu EXCEPT ![v] = IF p \in pending THEN Guesting ELSE Doing("set", p)]
    /\ UNCHANGED <<vm, ring, armed, msgVars, loopVars, chanVars, stream>>

\* ... and the set.
SetPending(v, p) ==
    /\ vcpu[v] = Doing("set", p)
    /\ pending' = pending \union {p}
    /\ vcpu' = [vcpu EXCEPT ![v] = Doing("send", p)]
    /\ UNCHANGED <<vm, ring, armed, messages, waiting, owed, loopVars, chanVars,
                   stream>>

\* dispatcher_send_message of a message that wants no answer.  A sender that
\* waits for one keeps the dispatcher's lock.
SendMessage(m) ==
    /\ waiting = "none" /\ Len(messages) < QueueSize
    /\ messages' = Append(messages, m)

NotifyDrops(v, p) ==
    /\ vcpu[v] = Doing("send", p) /\ waiting = "none"
    /\ messages' = IF Len(messages) < QueueSize THEN Append(messages, p) ELSE messages
    /\ vcpu' = [vcpu EXCEPT ![v] = Guesting]
    /\ UNCHANGED <<vm, ring, armed, pending, waiting, owed, loopVars, chanVars,
                   stream>>

Notify(v, p) ==
    /\ vcpu[v] = Doing("send", p)
    /\ SendMessage(p)
    /\ vcpu' = [vcpu EXCEPT ![v] = Guesting]
    /\ UNCHANGED <<vm, ring, armed, pending, waiting, owed, loopVars, chanVars,
                   stream>>

\* red_dispatcher_update_area and the messages whose handlers flush both rings
\* (red_dispatcher_destroy_surfaces ...): the processor waits for the answer.
Request(v, m) ==
    /\ vm = "running" /\ vcpu[v] = Guesting
    /\ SendMessage(m)
    /\ vcpu' = [vcpu EXCEPT ![v] = Waits] /\ waiting' = m
    /\ owed' = [r \in Rings |-> IF m = "update" /\ r = "cursor" THEN 0
                                ELSE ring[r]]
    /\ UNCHANGED <<vm, ring, armed, pending, loopVars, chanVars, stream>>

\* qxl_worker_stop: the machine is stopped first, so no processor does I/O.
StopVm ==
    /\ vm = "running" /\ \A v \in Vcpus : vcpu[v] \in {Guesting, Off}
    /\ SendMessage("stop")
    /\ vm' = "stopping" /\ waiting' = "stop"
    /\ UNCHANGED <<vcpu, ring, armed, pending, owed, loopVars, chanVars, stream>>

\* qxl_worker_start: the processors run before the worker has read the message.
StartVm ==
    /\ vm = "stopped"
    /\ SendMessage("start")
    /\ vm' = "running"
    /\ UNCHANGED <<vcpu, ring, armed, pending, waiting, owed, loopVars, chanVars,
                   stream>>

Io(v) == \E p \in {"wakeup", "oom"} :
            TestPending(v, p) \/ SetPending(v, p) \/ Notify(v, p)

Work(v) ==
    \/ \E m \in {"update", "flush"} : Request(v, m)
    \/ OutOfMemory(v) \/ \E r \in Rings : PushCommand(v, r)

Guest(v) == Io(v) \/ Work(v)

-----------------------------------------------------------------------------
(* The clients.                                                            *)

\* The client reads a message and acknowledges each full window.
ClientReads(r) ==
    /\ chan[r].sock > 0 /\ ~chan[r].gone
    /\ LET full == chan[r].seen + 1 = Window IN
       chan' = [chan EXCEPT ![r].sock = @ - 1,
                            ![r].seen = IF full THEN 0 ELSE @ + 1,
                            ![r].acks = IF full THEN @ + 1 ELSE @]
    /\ UNCHANGED <<guestVars, msgVars, loopVars, cursor, stream>>

ClientCloses(r) ==
    /\ chan[r].connected /\ ~chan[r].gone
    /\ chan' = [chan EXCEPT ![r] = [@ EXCEPT !.gone = TRUE, !.sock = 0,
                                            !.seen = 0, !.acks = 0]]
    /\ UNCHANGED <<guestVars, msgVars, loopVars, cursor, stream>>

Client(r) == ClientReads(r) \/ ClientCloses(r)

-----------------------------------------------------------------------------
(* The worker: red_worker_main.                                            *)

\* The worker wakes for a descriptor or because the timeout is over.  The full
\* screen stream is past its time for good (nothing renews last_time or stops it),
\* so with it poll never waits.
Poll ==
    /\ pc = "poll"
    /\ LET sources == {r \in Rings : Ready(r)}
                       \union (IF messages = <<>> THEN {} ELSE {"dispatcher"}) IN
       /\ sources # {} \/ timeout # "inf" \/ Streaming
       /\ ready' = sources
    /\ timeout' = "inf" /\ pc' = "events"
    /\ UNCHANGED <<guestVars, msgVars, call, job, running, tries, chanVars, stream>>

\* red_channel_client_event.
HandleChannel(r) ==
    /\ pc = "events" /\ r \in ready /\ "dispatcher" \notin ready
    /\ \E c \in Serve(r, chan[r]) : chan' = [chan EXCEPT ![r] = c]
    /\ ready' = ready \ {r}
    /\ UNCHANGED <<guestVars, msgVars, pc, call, job, running, timeout, tries,
                   cursor, stream>>

\* dispatcher_handle_recv_read handles messages until there are none.
HandleDispatcher ==
    /\ pc = "events" /\ "dispatcher" \in ready
    /\ ready' = ready \ {"dispatcher"} /\ pc' = "messages"
    /\ UNCHANGED <<guestVars, msgVars, call, job, running, timeout, tries,
                   chanVars, stream>>

MessagesDone ==
    /\ pc = "messages" /\ messages = <<>>
    /\ pc' = "events"
    /\ UNCHANGED <<guestVars, msgVars, call, job, ready, running, timeout, tries,
                   chanVars, stream>>

\* The call of red_process_cursor (r = "cursor") or red_process_commands.
Process(r, from) ==
    /\ pc' = "process"
    /\ call' = [ring |-> r, from |-> from, n |-> FALSE, empty |-> FALSE]

EventsDone ==
    /\ pc = "events" /\ ready = {}
    /\ IF running THEN Process("cursor", "loop") ELSE pc' = "push" /\ UNCHANGED call
    /\ UNCHANGED <<guestVars, msgVars, job, ready, running, timeout, tries,
                   chanVars, stream>>

\* red_push.
PushAll ==
    /\ pc = "push"
    /\ \E c \in Push("cursor", chan["cursor"]), d \in Push("display", chan["display"]) :
           chan' = [chan EXCEPT !["cursor"] = IF cursor THEN c ELSE @, !["display"] = d]
    /\ pc' = "poll" /\ call' = NoCall
    /\ UNCHANGED <<guestVars, msgVars, job, ready, running, timeout, tries, cursor,
                   stream>>

-----------------------------------------------------------------------------
(* red_process_cursor and red_process_commands.                            *)

\* The pipe is full or the machine is stopped: nothing is taken.
TakeNone ==
    /\ pc = "process" /\ (~running \/ PipeFull(call.ring))
    /\ call' = IF running THEN call ELSE [call EXCEPT !.empty = TRUE]
    /\ pc' = "returned"
    /\ UNCHANGED <<guestVars, msgVars, job, ready, running, timeout, tries,
                   chanVars, stream>>

MayTake == pc = "process" /\ running /\ ~PipeFull(call.ring)

\* get_command finds one.  What processing it adds to the pipe (the drawing, before it
\* the surfaces and images it needs) counts as one item, or none: the pipe and its limit
\* are counted in commands.
\* red_process_commands stops early when its client blocks or it took too long.
TakeCommand ==
    /\ MayTake /\ ring[call.ring] > 0
    /\ LET r == call.ring IN
       /\ ring' = [ring EXCEPT ![r] = @ - 1]
       /\ owed' = [owed EXCEPT ![r] = Max({0, @ - 1})]
       /\ tries' = [tries EXCEPT ![r] = 0]
       /\ \E n \in IF chan[r].connected THEN {0, 1} ELSE {0} :
              chan' = [chan EXCEPT ![r].pipe = @ + n]
       /\ call' = [call EXCEPT !.n = TRUE]
       /\ \/ ~(r = "display" /\ chan[r].blocked)
             /\ pc' = "process" /\ UNCHANGED timeout
          \/ r = "display" /\ pc' = "returned" /\ timeout' = "zero"
    /\ UNCHANGED <<vm, vcpu, armed, pending, messages, waiting, job, ready, running,
                   cursor, stream>>

\* The ring is empty: the worker polls it Retries times before it asks to be told.
TakeEmpty ==
    /\ MayTake /\ ring[call.ring] = 0
    /\ LET r == call.ring IN
       /\ call' = [call EXCEPT !.empty = TRUE]
       /\ \/ /\ tries[r] < Retries
             /\ tries' = [tries EXCEPT ![r] = @ + 1]
             /\ timeout' = IF timeout = "inf" THEN "poll" ELSE timeout
             /\ pc' = "returned"
          \/ /\ tries[r] > Retries
             /\ pc' = "returned" /\ UNCHANGED <<tries, timeout>>
          \/ /\ tries[r] = Retries
             /\ pc' = "request" /\ UNCHANGED <<tries, timeout>>
    /\ UNCHANGED <<guestVars, msgVars, job, ready, running, chanVars, stream>>

AskOnce ==
    /\ pc = "request"
    /\ armed' = [armed EXCEPT ![call.ring] = TRUE]
    /\ pc' = "returned" /\ tries' = [tries EXCEPT ![call.ring] = @ + 1]
    /\ UNCHANGED <<vm, vcpu, ring, msgVars, call, job, ready, running, timeout,
                   chanVars, stream>>

\* req_cmd_notification arms the notification and looks at the ring once more.
AskNotification ==
    /\ pc = "request"
    /\ LET r == call.ring IN
       /\ armed' = [armed EXCEPT ![r] = TRUE]
       /\ IF ring[r] = 0
          THEN pc' = "returned" /\ tries' = [tries EXCEPT ![r] = @ + 1]
          ELSE pc' = "process" /\ UNCHANGED tries
    /\ UNCHANGED <<vm, vcpu, ring, msgVars, call, job, ready, running, timeout,
                   chanVars, stream>>

\* Back in red_worker_main.
ReturnLoop ==
    /\ pc = "returned" /\ call.from = "loop"
    /\ IF call.ring = "cursor" THEN Process("display", "loop")
                               ELSE pc' = "push" /\ UNCHANGED call
    /\ UNCHANGED <<guestVars, msgVars, job, ready, running, timeout, tries,
                   chanVars, stream>>

-----------------------------------------------------------------------------
(* The handlers of the dispatcher's messages.                              *)

\* The answer to a synchronous message.
Answer ==
    /\ waiting' = "none"
    /\ vcpu' = [v \in Vcpus |-> IF vcpu[v] = Waits THEN Guesting ELSE vcpu[v]]

Receive(m) ==
    /\ pc = "messages" /\ messages # <<>> /\ Head(messages) = m
    /\ messages' = Tail(messages)

HandleWakeupKeeps ==
    /\ Receive("wakeup")
    /\ UNCHANGED <<guestVars, pending, waiting, owed, loopVars, chanVars, stream>>

\* handle_dev_wakeup: the loop processes the rings later.
HandleWakeup ==
    /\ Receive("wakeup")
    /\ pending' = pending \ {"wakeup"}
    /\ UNCHANGED <<guestVars, waiting, owed, loopVars, chanVars, stream>>

\* handle_dev_oom asserts running and empties the display's ring first.
HandleOom ==
    /\ Receive("oom")
    /\ Process("display", "oom") /\ job' = "oom"
    /\ UNCHANGED <<guestVars, pending, waiting, owed, ready, running, timeout, tries,
                   chanVars, stream>>

ReturnOom ==
    /\ pc = "returned" /\ call.from = "oom"
    /\ IF call.n
       THEN /\ Process("display", "oom")
            /\ \E c \in Push("display", chan["display"]) :
                   chan' = [chan EXCEPT !["display"] = c]
            /\ UNCHANGED <<pending, job>>
       ELSE /\ pc' = "messages" /\ pending' = pending \ {"oom"}
            /\ job' = "none" /\ call' = NoCall /\ UNCHANGED chan
    /\ UNCHANGED <<guestVars, messages, waiting, owed, ready, running, timeout, tries,
                   cursor, stream>>

\* handle_dev_update, and the handlers that call flush_all_qxl_commands.
HandleFlush(m) ==
    /\ Receive(m)
    /\ Process("display", "first") /\ job' = m
    /\ UNCHANGED <<guestVars, pending, waiting, owed, ready, running, timeout, tries,
                   chanVars, stream>>

\* flush_display_commands and flush_cursor_commands: one call, calls with a push
\* after each while they process something, a wait for the pipe, and again, until
\* a call reports an empty ring.
FlushDone ==
    IF call.ring = "display" /\ job = "flush"
    THEN Process("cursor", "first") /\ UNCHANGED <<job, waiting, vcpu>>
    ELSE pc' = "messages" /\ job' = "none" /\ call' = NoCall /\ Answer

FlushedOnce == call.from = "drain" /\ ~call.n

\* The last call of the inner loop, or the first one, has seen an empty ring.
Flushed == call.empty /\ ~(call.from = "drain" /\ call.n)

ReturnFlush ==
    /\ pc = "returned" /\ call.from \in {"first", "drain"}
    /\ LET r == call.ring IN
       \/ /\ Flushed
          /\ FlushDone /\ UNCHANGED chan
       \/ /\ ~call.empty /\ call.from = "first"
          /\ Process(r, "drain") /\ UNCHANGED <<job, waiting, vcpu, chan>>
       \/ /\ call.n /\ call.from = "drain"
          /\ \E c \in Push(r, chan[r]) : chan' = [chan EXCEPT ![r] = c]
          /\ Process(r, "drain") /\ UNCHANGED <<job, waiting, vcpu>>
       \/ /\ ~call.empty /\ ~call.n /\ call.from = "drain"
          /\ pc' = "wait" /\ UNCHANGED <<call, job, waiting, vcpu, chan>>
    /\ UNCHANGED <<vm, ring, armed, pending, messages, owed, ready, running, timeout,
                   tries, cursor, stream>>

FlushWait ==
    /\ pc = "wait"
    /\ LET r == call.ring IN
       \E c \in Serve(r, chan[r]) :
          /\ chan' = [chan EXCEPT ![r] = c]
          /\ IF c.connected /\ c.pipe > PipeMax THEN UNCHANGED <<pc, call>>
                                               ELSE Process(r, "first")
    /\ UNCHANGED <<guestVars, msgVars, job, ready, running, timeout, tries, cursor,
                   stream>>

\* DISPLAY_CLIENT_TIMEOUT: the clients are disconnected and the cursor's channel,
\* but not the display's, is forgotten.
FlushTimeout ==
    /\ pc = "wait" /\ PipeFull(call.ring)
    /\ chan' = [chan EXCEPT ![call.ring] = Dropped]
    /\ cursor' = (cursor /\ call.ring # "cursor")
    /\ UNCHANGED <<guestVars, msgVars, loopVars, stream>>

\* Variant: handle_dev_stop leaves the worker running.
HandleStopRunning ==
    /\ Receive("stop")
    /\ pc' = "stop" /\ call' = [call EXCEPT !.ring = "display"]
    /\ UNCHANGED <<guestVars, pending, waiting, owed, job, ready, running, timeout, tries,
                   chanVars, stream>>

\* handle_dev_stop asserts running; red_channel_wait_all_sent takes the display's
\* channel, then the cursor's, without a test for NULL.
HandleStop ==
    /\ Receive("stop")
    /\ running' = FALSE /\ pc' = "stop" /\ call' = [call EXCEPT !.ring = "display"]
    /\ UNCHANGED <<guestVars, pending, waiting, owed, job, ready, timeout, tries,
                   chanVars, stream>>

SentPipe(c) == c.pipe = 0

Sent(c) == c.pipe = 0 /\ ~c.blocked

StopWait ==
    /\ pc = "stop" /\ ~Sent(chan[call.ring])
    /\ \E c \in Serve(call.ring, chan[call.ring]) :
           chan' = [chan EXCEPT ![call.ring] = c]
    /\ UNCHANGED <<guestVars, msgVars, loopVars, cursor, stream>>

StopTimeoutKeeps ==
    /\ pc = "stop" /\ chan[call.ring].pipe > 0
    /\ chan' = [chan EXCEPT ![call.ring] = Dropped]
    /\ UNCHANGED <<guestVars, msgVars, loopVars, cursor, stream>>

\* red_channel_client_disconnect_if_pending_send after DISPLAY_CLIENT_TIMEOUT.
StopTimeout ==
    /\ pc = "stop" /\ ~Sent(chan[call.ring])
    /\ chan' = [chan EXCEPT ![call.ring] = Dropped]
    /\ UNCHANGED <<guestVars, msgVars, loopVars, cursor, stream>>

StopSent ==
    /\ pc = "stop" /\ Sent(chan[call.ring])
    /\ \/ /\ call.ring = "display"
          /\ pc' = IF cursor THEN "stop" ELSE "crashed"
          /\ call' = [call EXCEPT !.ring = "cursor"]
          /\ UNCHANGED <<vm, vcpu, waiting>>
       \/ /\ call.ring = "cursor"
          /\ pc' = "messages" /\ vm' = "stopped" /\ Answer /\ call' = NoCall
    /\ UNCHANGED <<ring, armed, pending, messages, owed, job, ready, running, timeout,
                   tries, chanVars, stream>>

HandleStart ==
    /\ Receive("start")
    /\ running' = TRUE
    /\ UNCHANGED <<guestVars, pending, waiting, owed, pc, call, job, ready, timeout,
                   tries, chanVars, stream>>

Handler ==
    \/ HandleWakeup \/ HandleOom \/ ReturnOom
    \/ \E m \in {"update", "flush"} : HandleFlush(m)
    \/ ReturnFlush \/ FlushWait \/ FlushTimeout
    \/ HandleStop \/ StopWait \/ StopTimeout \/ StopSent \/ HandleStart

Worker ==
    \/ Poll \/ HandleDispatcher \/ MessagesDone \/ EventsDone \/ PushAll
    \/ \E r \in Rings : HandleChannel(r)
    \/ TakeNone \/ TakeCommand \/ TakeEmpty \/ AskNotification \/ ReturnLoop
    \/ Handler

Next ==
    \/ Worker \/ StopVm \/ StartVm
    \/ \E v \in Vcpus : Guest(v)
    \/ \E r \in Rings : Client(r)

\* The threads run, and a started I/O of a processor goes on.
Fairness == WF_vars(Worker) /\ \A v \in Vcpus : WF_vars(Io(v))

Spec == Init /\ [][Next]_vars /\ Fairness

-----------------------------------------------------------------------------

Vcpu == {Guesting, Off, Waits}
        \union [at : {"test", "set", "send"}, bit : {"wakeup", "oom"}]

\* The type invariant; the pipe overshoots its limit by at most one command and the
\* window by at most one message.
TypeOK ==
    /\ vm \in {"running", "stopping", "stopped"} /\ vcpu \in [Vcpus -> Vcpu]
    /\ \A r \in Rings : ring[r] \in 0 .. RingSize[r] /\ owed[r] \in 0 .. ring[r]
    /\ armed \in [Rings -> BOOLEAN]
    /\ pending \subseteq {"wakeup", "oom"}
    /\ messages \in Seq({"wakeup", "oom", "update", "flush", "stop", "start"})
    /\ waiting \in {"none", "update", "flush", "stop"}
    /\ pc \in {"poll", "events", "messages", "process", "request", "returned", "push",
               "wait", "stop", "crashed"}
    /\ call \in [ring : Rings, from : {"loop", "oom", "first", "drain"},
                 n : BOOLEAN, empty : BOOLEAN]
    /\ job \in {"none", "oom", "update", "flush"}
    /\ ready \subseteq Rings \union {"dispatcher"}
    /\ running \in BOOLEAN /\ timeout \in {"zero", "poll", "inf"}
    /\ tries \in [Rings -> 0 .. Retries + 1]
    /\ cursor \in BOOLEAN /\ stream \in BOOLEAN
    /\ \A r \in Rings :
          /\ chan[r] \in [connected : BOOLEAN, gone : BOOLEAN, pipe : 0 .. PipeMax + 1,
                          blocked : BOOLEAN, sock : 0 .. SocketSize,
                          seen : 0 .. Window - 1, acks : 0 .. 3]
          /\ Unacked(chan[r]) =< 2 * Window + 1

-----------------------------------------------------------------------------
(* Safety.                                                                 *)

\* A pending bit has a message behind it (red_dispatcher_set_pending: "this is not
\* atomic but is not an issue"): while the bit suppresses notifications, one is in
\* the queue, is being sent or is being handled.
PendingMeansMessage ==
    \A p \in pending :
        \/ \E i \in 1 .. Len(messages) : messages[i] = p
        \/ \E v \in Vcpus : vcpu[v] = Doing("send", p)
        \/ p = "oom" /\ job = "oom"

\* Someone is going to wake the worker.
Notified ==
    \/ messages # <<>> \/ Streaming
    \/ \E v \in Vcpus : vcpu[v] \in {Doing(at, "wakeup") : at \in {"test", "set", "send"}}

\* A client that goes on reading makes the channel's descriptor ready.
AckComing(r) ==
    /\ chan[r].connected
    /\ \/ chan[r].blocked \/ chan[r].gone \/ chan[r].acks > 0
       \/ chan[r].sock + chan[r].seen >= Window

Asleep == pc = "poll" /\ timeout = "inf" /\ running

\* The worker sleeps, commands are or will be in the ring, and neither a notification
\* nor the client will wake it for them.
Forgotten(r) ==
    Asleep /\ (ring[r] > 0 \/ ~armed[r]) /\ ~Notified /\ ~AckComing(r)

\* No lost wakeup: whatever the processors, the clients, stops and starts do, no ring of
\* a sleeping worker comes to be forgotten, but for one case: red_push finds that the
\* connection of a client with a full pipe has failed, in that very step (WakeEnsured).
NoLostCommand ==
    [][\A r \in Rings : Forgotten(r)' =>
          Forgotten(r) \/ (pc = "push" /\ PipeFull(r) /\ ~chan'[r].connected)]_vars

\* handle_dev_oom, handle_dev_stop and handle_dev_start assert the state they find,
\* handle_dev_update requires it: no message overtakes a stop or a start.
StateAsserted ==
    pc = "messages" /\ messages # <<>> =>
        (Head(messages) \in {"oom", "stop", "update"} <=> running)
        \/ Head(messages) \in {"wakeup", "flush"}

\* When the stop has been answered, and until the start is handled, no channel has an
\* item in its pipe or half of a message in its socket (the state that migrates).
StopFlushes ==
    vm = "stopped" => ~running /\ \A r \in Rings : chan[r].pipe = 0 /\ ~chan[r].blocked

\* An update, or a flush of both rings, is answered only after every command that was
\* in the rings when it was sent has been processed.
FlushSeesAll ==
    [][(waiting \in {"update", "flush"} /\ waiting' = "none" /\ running)
           => \A r \in Rings : owed[r] = 0]_vars

-----------------------------------------------------------------------------
(* Liveness.                                                               *)

ClientsRead == \A r \in Rings : WF_vars(ClientReads(r))

\* The guest lets its rings be: it pushes nothing and asks for nothing more.
GuestPauses == <>[][\A v \in Vcpus : ~Work(v)]_vars

\* Every command is processed in the end, if the clients stay and read what they are
\* sent and the guest leaves the worker the time: nothing is left asleep in a ring.
RingsDrain ==
    ClientsRead /\ GuestPauses =>
        []<>(vm = "running" => \A r \in Rings : ring[r] = 0 \/ chan[r].gone)

\* A stop is answered whatever the clients do: a stalled one is disconnected.
StopAnswered == waiting = "stop" ~> (waiting = "none" \/ pc = "crashed")

-----------------------------------------------------------------------------
(* What the code says of itself.                                           *)

\* "ensure wakeup by ack message" (red_worker.c:8532): whatever happens to the client
\* of a full pipe, the worker does not sleep over the commands it left in the ring.
WakeEnsured ==
    \A r \in Rings : Asleep /\ ring[r] > 0 => Notified \/ AckComing(r)
=============================================================================

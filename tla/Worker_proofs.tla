----------------------------- MODULE Worker_proofs ----------------------------
(***************************************************************************)
(* Proofs about Worker, for any number of processors, any rings, pipes,    *)
(* windows and sockets: a pending bit always has a message behind it       *)
(* (PendingBacked), a stop leaves nothing in a pipe or half sent           *)
(* (StopLeavesNothing), and the worker's assertions about whether the      *)
(* machine runs hold (AssertionsHold).                                     *)
(*                                                                         *)
(* The first needs to know which job the worker is at when it clears the   *)
(* bit of an out of memory (JobFollowed).  The second rests on the         *)
(* protocol of the synchronous messages: the one that is waited for is the *)
(* last of the queue, and while it is handled the queue is empty           *)
(* (SyncQueued, SyncHandled); so a start is handled before the next stop,  *)
(* and what the stop has drained stays drained (Drained).  The third rests *)
(* on the order of starts and stops in the queue (Ordered).                *)
(*                                                                         *)
(* The last part: the rings, the pipes, the sockets, the windows and the   *)
(* retries stay within their limits (WorkerTypes).  A channel sends while  *)
(* it owes less than two windows (Within), and the guest is asked for a    *)
(* notification at the last retry alone (Tried).                           *)
(***************************************************************************)
EXTENDS Worker, TLAPS, SequenceTheorems

Channel == [connected : BOOLEAN, gone : BOOLEAN, pipe : Nat, blocked : BOOLEAN,
            sock : 0 .. SocketSize, seen : Nat, acks : Nat]
Call == [ring : Rings, from : {"loop", "oom", "first", "drain"},
         n : BOOLEAN, empty : BOOLEAN]
Messages == {"wakeup", "oom", "update", "flush", "stop", "start"}
Synchronous == {"update", "flush", "stop"}

Doings == [at : {"guest", "off", "waits", "test", "set", "send"},
           bit : {"none", "wakeup", "oom"}]

Typed ==
  /\ vcpu \in [Vcpus -> Doings]
  /\ pending \subseteq {"wakeup", "oom"}
  /\ messages \in Seq(Messages)
  /\ call \in Call
  /\ chan \in [Rings -> Channel]

\* The worker is in red_process_cursor or red_process_commands, or back from it.
Processing == pc \in {"process", "request", "returned"}

JobFollowed == job = "oom" => Processing /\ call.from = "oom"

Flushing == (Processing \/ pc = "wait") /\ call.from \in {"first", "drain"}

SyncQueued ==
  \A i \in 1 .. Len(messages) :
    messages[i] \in Synchronous => i = Len(messages) /\ waiting = messages[i]

SyncHandled ==
  /\ Flushing => messages = <<>> /\ waiting \in {"update", "flush"}
  /\ pc = "wait" => call.from \in {"first", "drain"}
  /\ pc = "stop" => messages = <<>> /\ waiting = "stop" /\ ~running
  /\ waiting = "stop" => vm = "stopping"
  /\ vm = "stopped" =>
       ~running /\ \A i \in 1 .. Len(messages) : messages[i] # "start"

Nothing(c) == c.pipe = 0 /\ ~c.blocked

Drained ==
  /\ pc = "stop" /\ call.ring = "cursor" => Nothing(chan["display"])
  /\ vm = "stopped" => \A r \in Rings : Nothing(chan[r])

Inv == Typed /\ JobFollowed /\ PendingMeansMessage /\ SyncQueued /\ SyncHandled /\ Drained

-----------------------------------------------------------------------------
(* Channels.                                                               *)

LEMMA MinOfTwo ==
  ASSUME NEW a \in Int, NEW b \in Int
  PROVE  Min({a, b}) \in Int /\ Min({a, b}) =< a /\ Min({a, b}) =< b
         /\ Min({a, b}) \in {a, b}
<1>1. \E x \in {a, b} : \A y \in {a, b} : x =< y
  <2>1. CASE a =< b
    BY <2>1
  <2>2. CASE b =< a
    BY <2>2
  <2> QED BY <2>1, <2>2
<1> QED BY <1>1 DEF Min

LEMMA Sizes == SocketSize \in Nat /\ SocketSize > 0 /\ PipeMax \in Nat
BY WorkerAssumption

LEMMA DroppedType == Dropped \in Channel /\ Nothing(Dropped)
<1>1. 0 \in 0 .. SocketSize
  BY Sizes
<1>2. Closed \in Channel
  BY <1>1 DEF Channel, Closed
<1>3. Dropped \in Channel
  BY <1>2 DEF Channel, Dropped
<1>4. Dropped.pipe = 0 /\ Dropped.blocked = FALSE
  BY DEF Dropped, Closed
<1> QED BY <1>3, <1>4 DEF Nothing

LEMMA PushType ==
  ASSUME NEW r \in Rings, NEW c \in Channel, NEW d \in Push(r, c)
  PROVE  d \in Channel /\ (Nothing(c) => Nothing(d))
<1> DEFINE flushed == [c EXCEPT !.blocked = FALSE,
                               !.sock = IF c.blocked THEN @ + 1 ELSE @]
           room == SocketSize - flushed.sock
<1>1. CASE ~c.connected \/ (c.blocked /\ c.sock = SocketSize) \/ c.gone
  BY DroppedType, <1>1 DEF Push
<1>2. CASE ~(~c.connected \/ (c.blocked /\ c.sock = SocketSize) \/ c.gone)
  <2>1. c.sock \in 0 .. SocketSize /\ c.pipe \in Nat
    BY DEF Channel
  <2>2. PICK s : s = IF c.blocked THEN c.sock + 1 ELSE c.sock
    OBVIOUS
  <2>3. s \in 0 .. SocketSize
    BY <1>2, <2>1, <2>2, Sizes
  <2>4. flushed = [c EXCEPT !.blocked = FALSE, !.sock = s]
    BY <2>2
  <2>5. flushed \in Channel /\ flushed.pipe = c.pipe /\ flushed.sock = s
    BY <2>3, <2>4 DEF Channel
  <2>6. room \in Nat /\ room = SocketSize - s
    BY <2>3, <2>5, Sizes
  <2>7. PICK p \in (0 .. c.pipe) \X (0 .. c.pipe) :
          d = [flushed EXCEPT !.pipe = @ - p[1], !.sock = @ + Min({p[2], room}),
                              !.blocked = p[2] > room]
    BY <1>2, Zenon DEF Push
  <2> HIDE DEF flushed, room
  <2>8. p[1] \in 0 .. c.pipe /\ p[2] \in 0 .. c.pipe
    BY <2>7
  <2>9. Min({p[2], room}) \in Nat /\ Min({p[2], room}) =< room
    <3>1. p[2] \in Int /\ room \in Int /\ p[2] \in Nat
      BY <2>1, <2>6, <2>8
    <3>2. Min({p[2], room}) \in Int /\ Min({p[2], room}) =< room
          /\ Min({p[2], room}) \in {p[2], room}
      BY <3>1, MinOfTwo, Zenon
    <3> QED BY <2>6, <3>1, <3>2
  <2>10. flushed.pipe - p[1] \in Nat /\ (p[2] > room) \in BOOLEAN
         /\ flushed.sock + Min({p[2], room}) \in 0 .. SocketSize
    BY <2>1, <2>3, <2>5, <2>6, <2>8, <2>9, Sizes
  <2>11. d \in Channel /\ d.pipe = flushed.pipe - p[1] /\ d.blocked = (p[2] > room)
    <3>1. PICK k, n, b : k = flushed.pipe - p[1] /\ b = (p[2] > room)
                         /\ n = flushed.sock + Min({p[2], room})
      OBVIOUS
    <3>2. PICK f \in Channel : f = flushed
      BY <2>5
    <3>3. d = [f EXCEPT !.pipe = k, !.sock = n, !.blocked = b]
      BY <2>7, <3>1, <3>2
    <3>4. k \in Nat /\ n \in 0 .. SocketSize /\ b \in BOOLEAN
      BY <2>10, <3>1
    <3>5. d \in Channel /\ d.pipe = k /\ d.blocked = b
      BY <3>3, <3>4 DEF Channel
    <3> QED BY <3>1, <3>5
  <2>12. ASSUME Nothing(c) PROVE Nothing(d)
    <3>1. p[1] = 0 /\ p[2] = 0
      BY <2>8, <2>12 DEF Nothing
    <3>2. ~(p[2] > room) /\ flushed.pipe - p[1] = 0
      BY <2>5, <2>6, <2>12, <3>1 DEF Nothing
    <3> QED BY <2>11, <3>2 DEF Nothing
  <2> QED BY <2>11, <2>12
<1> QED BY <1>1, <1>2

LEMMA ServeType ==
  ASSUME NEW r \in Rings, NEW c \in Channel, NEW d \in Serve(r, c)
  PROVE  d \in Channel /\ (Nothing(c) => Nothing(d))
<1>1. [c EXCEPT !.acks = 0] \in Channel
      /\ (Nothing(c) => Nothing([c EXCEPT !.acks = 0]))
  BY DEF Channel, Nothing
<1> QED BY <1>1, DroppedType, PushType DEF Serve

\* What a channel is left with when it gets an item more, or its client is gone.
LEMMA ItemType ==
  ASSUME NEW c \in Channel, NEW n \in {0, 1}
  PROVE  [c EXCEPT !.pipe = @ + n] \in Channel
<1>1. PICK k : k = c.pipe + n
  OBVIOUS
<1>2. k \in Nat
  BY <1>1 DEF Channel
<1>3. [c EXCEPT !.pipe = k] \in Channel
  BY <1>2 DEF Channel
<1> QED BY <1>1, <1>3

-----------------------------------------------------------------------------
(* Steps that neither send nor take a message.                             *)

LEMMA PendingKept ==
  ASSUME PendingMeansMessage, pending' \subseteq pending, UNCHANGED messages,
         \A v \in Vcpus : vcpu[v].at = "send" => vcpu'[v] = vcpu[v],
         job = "oom" => job' = "oom" \/ "oom" \notin pending'
  PROVE  PendingMeansMessage'
BY DEF PendingMeansMessage, Doing

\* A step of the worker between two messages, or of a client.
LEMMA StaysStep ==
  ASSUME Inv, UNCHANGED <<vm, vcpu, pending, messages, waiting, job, running>>,
         call' \in Call, chan' \in [Rings -> Channel],
         JobFollowed', Flushing' => Flushing,
         pc' = "wait" => call'.from \in {"first", "drain"},
         pc' = "stop" => pc = "stop" /\ call'.ring = call.ring,
         vm = "stopped" \/ pc' = "stop" =>
            \A r \in Rings : Nothing(chan[r]) => Nothing(chan'[r])
  PROVE  Inv'
<1>1. Typed'
  BY DEF Inv, Typed
<1>2. PendingMeansMessage'
  BY PendingKept DEF Inv
<1>3. SyncQueued'
  BY DEF Inv, SyncQueued
<1>4. SyncHandled'
  BY DEF Inv, SyncHandled
<1>5. Drained'
  BY DEF Inv, Drained, Nothing, Rings
<1> QED BY <1>1, <1>2, <1>3, <1>4, <1>5 DEF Inv

\* One channel is served, pushed, read or dropped.
LEMMA ChannelStep ==
  ASSUME NEW r \in Rings, NEW c, chan \in [Rings -> Channel],
         c \in Channel, Nothing(chan[r]) => Nothing(c),
         chan' = [chan EXCEPT ![r] = c]
  PROVE  /\ chan' \in [Rings -> Channel]
         /\ \A q \in Rings : Nothing(chan[q]) => Nothing(chan'[q])
OBVIOUS

LEMMA ProcessCall ==
  ASSUME NEW r \in Rings, NEW from \in {"loop", "oom", "first", "drain"}, Process(r, from)
  PROVE  pc' = "process" /\ call' \in Call /\ call'.from = from /\ call'.ring = r
BY DEF Process, Call

LEMMA NoCallType == NoCall \in Call /\ NoCall.from = "loop"
BY DEF NoCall, Call, Rings

LEMMA LoopSteps ==
  ASSUME Inv, Poll \/ HandleDispatcher \/ MessagesDone \/ EventsDone \/ ReturnLoop
  PROVE  Inv'
<1>1. UNCHANGED <<vm, vcpu, pending, messages, waiting, job, running, chan>>
  BY DEF Poll, HandleDispatcher, MessagesDone, EventsDone, ReturnLoop, guestVars, msgVars,
         chanVars
<1>2. pc \in {"poll", "events", "messages"} \/ (pc = "returned" /\ call.from = "loop")
  BY DEF Poll, HandleDispatcher, MessagesDone, EventsDone, ReturnLoop
<1>3. pc' \in {"events", "messages", "push"} \/ (pc' = "process" /\ call'.from = "loop")
  BY DEF Poll, HandleDispatcher, MessagesDone, EventsDone, ReturnLoop, Process
<1>4. call' \in Call
  <2>1. call' = call \/ Process("cursor", "loop") \/ Process("display", "loop")
    BY DEF Poll, HandleDispatcher, MessagesDone, EventsDone, ReturnLoop
  <2> QED BY <2>1, ProcessCall DEF Inv, Typed, Rings
<1>5. job # "oom"
  BY <1>2 DEF Inv, JobFollowed, Processing
<1>6. ~Flushing'
  BY <1>3 DEF Flushing, Processing
<1>7. chan' \in [Rings -> Channel] /\ \A r \in Rings : chan'[r] = chan[r]
  BY <1>1 DEF Inv, Typed
<1>8. JobFollowed'
  BY <1>1, <1>5 DEF JobFollowed
<1> QED BY <1>1, <1>3, <1>4, <1>6, <1>7, <1>8, StaysStep

LEMMA TakeSteps ==
  ASSUME Inv, TakeNone \/ TakeCommand \/ TakeEmpty \/ AskNotification
  PROVE  Inv'
<1>1. UNCHANGED <<vm, vcpu, pending, messages, waiting, job, running>>
  BY DEF TakeNone, TakeCommand, TakeEmpty, AskNotification, guestVars, msgVars, chanVars
<1>2. pc \in {"process", "request"} /\ pc' \in {"process", "request", "returned"}
  BY DEF TakeNone, TakeCommand, TakeEmpty, AskNotification, MayTake
<1>3. call' \in Call /\ call'.from = call.from /\ call'.ring = call.ring
  BY DEF TakeNone, TakeCommand, TakeEmpty, AskNotification, Inv, Typed, Call
<1>4. chan' \in [Rings -> Channel] /\ (vm = "stopped" => chan' = chan)
  <2>1. CASE TakeCommand
    <3>1. PICK n \in {0, 1} : chan' = [chan EXCEPT ![call.ring].pipe = @ + n]
      BY <2>1 DEF TakeCommand
    <3>2. chan[call.ring] \in Channel /\ call.ring \in Rings
      BY DEF Inv, Typed, Call
    <3>3. PICK c \in Channel : c = [chan[call.ring] EXCEPT !.pipe = @ + n]
      BY <3>2, ItemType
    <3>4. chan' = [chan EXCEPT ![call.ring] = c]
      BY <3>1, <3>3
    <3>5. vm # "stopped"
      BY <2>1 DEF TakeCommand, MayTake, Inv, SyncHandled
    <3> QED BY <3>2, <3>4, <3>5 DEF Inv, Typed
  <2>2. CASE TakeNone \/ TakeEmpty \/ AskNotification
    BY <2>2 DEF TakeNone, TakeEmpty, AskNotification, chanVars, Inv, Typed
  <2> QED BY <2>1, <2>2
<1>5. JobFollowed' /\ (Flushing' => Flushing)
  BY <1>1, <1>2, <1>3 DEF Inv, JobFollowed, Flushing, Processing
<1> QED BY <1>1, <1>2, <1>3, <1>4, <1>5, StaysStep

\* What a channel of the worker becomes in a step that pushes, serves or drops it.
LEMMA ChannelMoves ==
  ASSUME Inv, NEW r \in Rings, NEW c,
         c = Dropped \/ c \in Push(r, chan[r]) \/ c \in Serve(r, chan[r]),
         chan' = [chan EXCEPT ![r] = c]
  PROVE  /\ chan' \in [Rings -> Channel]
         /\ \A q \in Rings : Nothing(chan[q]) => Nothing(chan'[q])
<1>1. chan[r] \in Channel /\ chan \in [Rings -> Channel]
  BY DEF Inv, Typed
<1>2. c \in Channel /\ (Nothing(chan[r]) => Nothing(c))
  BY <1>1, DroppedType, PushType, ServeType
<1> QED BY <1>1, <1>2, ChannelStep

LEMMA PushAllStep == ASSUME Inv, PushAll PROVE Inv'
<1>1. PICK c \in Push("cursor", chan["cursor"]), d \in Push("display", chan["display"]) :
        chan' = [chan EXCEPT !["cursor"] = IF cursor THEN c ELSE @, !["display"] = d]
  BY DEF PushAll
<1>2. chan["cursor"] \in Channel /\ chan["display"] \in Channel
      /\ "cursor" \in Rings /\ "display" \in Rings
  BY DEF Inv, Typed, Rings
<1>3. /\ c \in Channel /\ (Nothing(chan["cursor"]) => Nothing(c))
      /\ d \in Channel /\ (Nothing(chan["display"]) => Nothing(d))
  BY <1>2, PushType
<1>4. /\ chan' \in [Rings -> Channel]
      /\ \A q \in Rings : Nothing(chan[q]) => Nothing(chan'[q])
  BY <1>1, <1>2, <1>3 DEF Inv, Typed, Rings
<1>5. /\ UNCHANGED <<vm, vcpu, pending, messages, waiting, job, running>>
      /\ pc = "push" /\ pc' = "poll" /\ call' = NoCall
  BY DEF PushAll, guestVars, msgVars
<1>6. JobFollowed' /\ ~Flushing'
  BY <1>5 DEF Inv, JobFollowed, Flushing, Processing
<1> QED BY <1>4, <1>5, <1>6, NoCallType, StaysStep

LEMMA ServeSteps ==
  ASSUME Inv, (\E r \in Rings : HandleChannel(r)) \/ FlushTimeout \/ StopWait \/ StopTimeout
  PROVE  Inv'
<1>1. /\ UNCHANGED <<vm, vcpu, pending, messages, waiting, job, running>>
      /\ pc' = pc /\ call' = call
  BY DEF HandleChannel, FlushTimeout, StopWait, StopTimeout, guestVars, msgVars, loopVars
<1>2. PICK r \in Rings : \E c :
        /\ c = Dropped \/ c \in Push(r, chan[r]) \/ c \in Serve(r, chan[r])
        /\ chan' = [chan EXCEPT ![r] = c]
  <2>1. call.ring \in Rings
    BY DEF Inv, Typed, Call
  <2> QED BY <2>1 DEF HandleChannel, FlushTimeout, StopWait, StopTimeout
<1>3. JobFollowed' /\ (Flushing' => Flushing)
      /\ (pc' = "wait" => call'.from \in {"first", "drain"})
  BY <1>1 DEF Inv, JobFollowed, Flushing, Processing, SyncHandled
<1> QED BY <1>1, <1>2, <1>3, ChannelMoves, StaysStep DEF Inv, Typed

LEMMA FlushWaitStep == ASSUME Inv, FlushWait PROVE Inv'
<1>1. UNCHANGED <<vm, vcpu, pending, messages, waiting, job, running>> /\ pc = "wait"
  BY DEF FlushWait, guestVars, msgVars
<1>2. call.ring \in Rings /\ call.from \in {"first", "drain"}
  BY <1>1 DEF Inv, Typed, Call, SyncHandled
<1>3. PICK c \in Serve(call.ring, chan[call.ring]) :
        /\ chan' = [chan EXCEPT ![call.ring] = c]
        /\ (pc' = "wait" /\ call' = call) \/ Process(call.ring, "first")
  BY <1>1 DEF FlushWait
<1>4. /\ call' \in Call /\ call'.from \in {"first", "drain"}
      /\ pc' \in {"wait", "process"}
  BY <1>2, <1>3, ProcessCall DEF Inv, Typed
<1>5. JobFollowed' /\ (Flushing' => Flushing)
  BY <1>1, <1>2, <1>4 DEF Inv, JobFollowed, Flushing, Processing
<1> QED BY <1>1, <1>2, <1>3, <1>4, <1>5, ChannelMoves, StaysStep

LEMMA ClientStep == ASSUME Inv, NEW r \in Rings, Client(r) PROVE Inv'
<1>1. /\ UNCHANGED <<vm, vcpu, pending, messages, waiting, job, running>>
      /\ pc' = pc /\ call' = call
  BY DEF Client, ClientReads, ClientCloses, guestVars, msgVars, loopVars
<1>2. chan[r] \in Channel /\ chan \in [Rings -> Channel]
  BY DEF Inv, Typed
<1>3. PICK c \in Channel : /\ chan' = [chan EXCEPT ![r] = c]
                           /\ Nothing(chan[r]) => Nothing(c)
  <2>1. CASE ClientReads(r)
    <3>1. PICK n, k, a : /\ chan' = [chan EXCEPT ![r].sock = n, ![r].seen = k, ![r].acks = a]
                         /\ n = chan[r].sock - 1
                         /\ k = 0 \/ k = chan[r].seen + 1
                         /\ a = chan[r].acks \/ a = chan[r].acks + 1
      BY <2>1 DEF ClientReads
    <3>2. n \in 0 .. SocketSize /\ k \in Nat /\ a \in Nat
      BY <2>1, <1>2, <3>1, Sizes DEF ClientReads, Channel
    <3>3. [chan[r] EXCEPT !.sock = n, !.seen = k, !.acks = a] \in Channel
          /\ (Nothing(chan[r]) =>
                 Nothing([chan[r] EXCEPT !.sock = n, !.seen = k, !.acks = a]))
      BY <1>2, <3>2 DEF Channel, Nothing
    <3> QED BY <1>2, <3>1, <3>3
  <2>2. CASE ClientCloses(r)
    <3>1. 0 \in 0 .. SocketSize
      BY Sizes
    <3>2. PICK c : c = [chan[r] EXCEPT !.gone = TRUE, !.sock = 0, !.seen = 0, !.acks = 0]
      OBVIOUS
    <3>3. c \in Channel
      BY <1>2, <3>1, <3>2 DEF Channel
    <3>4. Nothing(chan[r]) => Nothing(c)
      BY <1>2, <3>2 DEF Channel, Nothing
    <3>5. chan' = [chan EXCEPT ![r] = c]
      BY <2>2, <3>2 DEF ClientCloses
    <3> QED BY <3>3, <3>4, <3>5
  <2> QED BY <2>1, <2>2 DEF Client
<1>4. /\ chan' \in [Rings -> Channel]
      /\ \A q \in Rings : Nothing(chan[q]) => Nothing(chan'[q])
  BY <1>2, <1>3, ChannelStep
<1>5. JobFollowed' /\ (Flushing' => Flushing)
      /\ (pc' = "wait" => call'.from \in {"first", "drain"})
  BY <1>1 DEF Inv, JobFollowed, Flushing, Processing, SyncHandled
<1> QED BY <1>1, <1>4, <1>5, StaysStep DEF Inv, Typed

-----------------------------------------------------------------------------
(* The processors and their pending bits.                                  *)

\* A step that leaves the queue, the worker and the channels alone.
LEMMA GuestStep ==
  ASSUME Inv, PendingMeansMessage', vcpu' \in [Vcpus -> Doings],
         pending' \subseteq {"wakeup", "oom"},
         UNCHANGED <<vm, messages, waiting, pc, call, job, running, chan>>
  PROVE  Inv'
<1>1. Typed'
  BY DEF Inv, Typed
<1>2. JobFollowed' /\ SyncQueued'
  BY DEF Inv, JobFollowed, SyncQueued, Processing
<1>3. SyncHandled' /\ Drained'
  BY DEF Inv, SyncHandled, Drained, Nothing, Flushing, Processing
<1> QED BY <1>1, <1>2, <1>3 DEF Inv

LEMMA WorkSteps ==
  ASSUME Inv, NEW v \in Vcpus,
         OutOfMemory(v) \/ (\E r \in Rings : PushCommand(v, r))
         \/ (\E p \in {"wakeup", "oom"} : TestPending(v, p))
  PROVE  Inv'
<1>1. UNCHANGED <<vm, messages, waiting, pending, pc, call, job, running, chan>>
  BY DEF OutOfMemory, PushCommand, TestPending, msgVars, loopVars, chanVars
<1>2. PICK d \in Doings : vcpu' = [vcpu EXCEPT ![v] = d]
  BY DEF OutOfMemory, PushCommand, TestPending, Doings, Doing, Guesting, Inv, Typed
<1>3. vcpu[v].at # "send"
  BY DEF OutOfMemory, PushCommand, TestPending, Doing, Guesting
<1>4. vcpu' \in [Vcpus -> Doings]
      /\ \A w \in Vcpus : vcpu[w].at = "send" => vcpu'[w] = vcpu[w]
  BY <1>2, <1>3 DEF Inv, Typed
<1>5. PendingMeansMessage'
  BY <1>1, <1>4, PendingKept DEF Inv
<1> QED BY <1>1, <1>4, <1>5, GuestStep DEF Inv, Typed

LEMMA SetPendingStep ==
  ASSUME Inv, NEW v \in Vcpus, NEW p \in {"wakeup", "oom"}, SetPending(v, p)
  PROVE  Inv'
<1>1. /\ UNCHANGED <<vm, messages, waiting, pc, call, job, running, chan>>
      /\ pending' = pending \union {p}
      /\ vcpu' = [vcpu EXCEPT ![v] = Doing("send", p)]
  BY DEF SetPending, loopVars, chanVars
<1>2. Doing("send", p) \in Doings /\ vcpu[v] # Doing("send", "wakeup")
      /\ vcpu[v] # Doing("send", "oom")
  BY DEF SetPending, Doing, Doings
<1>3. /\ vcpu' \in [Vcpus -> Doings] /\ vcpu'[v] = Doing("send", p)
      /\ \A w \in Vcpus : w # v => vcpu'[w] = vcpu[w]
  BY <1>1, <1>2 DEF Inv, Typed
<1>4. ASSUME NEW q \in pending'
      PROVE  \/ \E i \in 1 .. Len(messages') : messages'[i] = q
             \/ \E w \in Vcpus : vcpu'[w] = Doing("send", q)
             \/ q = "oom" /\ job' = "oom"
  <2>1. CASE q = p
    BY <1>3, <2>1
  <2>2. CASE q \in pending
    <3>1. q \in {"wakeup", "oom"}
      BY <2>2 DEF Inv, Typed
    <3>2. \A w \in Vcpus : vcpu[w] = Doing("send", q) => w # v
      BY <1>2, <3>1
    <3> QED BY <1>1, <1>3, <2>2, <3>2 DEF Inv, PendingMeansMessage
  <2> QED BY <1>1, <2>1, <2>2
<1>5. PendingMeansMessage'
  BY <1>4 DEF PendingMeansMessage, Doing
<1> QED BY <1>1, <1>3, <1>5, GuestStep DEF Inv, Typed

-----------------------------------------------------------------------------
(* The messages: a sender's and the worker's end of the queue.             *)

\* The queue after a message has been appended.
LEMMA Appended ==
  ASSUME NEW q \in Seq(Messages), NEW m \in Messages, NEW s, s = Append(q, m)
  PROVE  /\ s \in Seq(Messages) /\ Len(q) \in Nat
         /\ Len(s) = Len(q) + 1 /\ s[Len(s)] = m
         /\ \A i \in 1 .. Len(q) : s[i] = q[i]
<1>1. /\ Append(q, m) \in Seq(Messages)
      /\ Append(q, m) # <<>>
      /\ Len(Append(q, m)) = Len(q) + 1
      /\ \A i \in 1 .. Len(q) : Append(q, m)[i] = q[i]
      /\ Append(q, m)[Len(q) + 1] = m
  BY AppendProperties, Zenon
<1>2. Len(q) \in Nat
  OBVIOUS
<1> QED BY <1>1, <1>2, Zenon

\* The queue after the first message has been taken.
LEMMA Taken ==
  ASSUME messages \in Seq(Messages), NEW m, Receive(m)
  PROVE  /\ messages' \in Seq(Messages) /\ Len(messages) \in Nat \ {0} /\ messages[1] = m
         /\ Len(messages') = Len(messages) - 1
         /\ \A i \in 1 .. Len(messages') : messages'[i] = messages[i + 1]
BY HeadTailProperties DEF Receive

LEMMA SendStep ==
  ASSUME Inv, NEW m \in Messages, SendMessage(m),
         UNCHANGED <<pending, pc, call, job, running, chan>>,
         waiting' = IF m \in Synchronous THEN m ELSE "none",
         vcpu' \in [Vcpus -> Doings],
         \A v \in Vcpus : vcpu[v].at = "send" => vcpu'[v] = vcpu[v] \/ vcpu[v].bit = m,
         vm' = "stopped" => vm = "stopped" /\ m # "start",
         m = "stop" => vm' = "stopping"
  PROVE  Inv'
<1>1. /\ messages' \in Seq(Messages) /\ Len(messages) \in Nat
      /\ Len(messages') = Len(messages) + 1 /\ messages'[Len(messages')] = m
      /\ \A i \in 1 .. Len(messages) : messages'[i] = messages[i]
  <2>1. messages \in Seq(Messages) /\ messages' = Append(messages, m)
    BY DEF SendMessage, Inv, Typed
  <2> QED BY <2>1, Appended
<1>2. waiting = "none"
  BY DEF SendMessage
<1>3. ~Flushing /\ pc \notin {"wait", "stop"}
  BY <1>2 DEF Inv, SyncHandled, Flushing
<1>4. Typed'
  BY <1>1 DEF Inv, Typed
<1>5. PendingMeansMessage'
  <2> SUFFICES ASSUME NEW p \in pending
               PROVE  \/ \E i \in 1 .. Len(messages') : messages'[i] = p
                      \/ \E v \in Vcpus : vcpu'[v] = Doing("send", p)
                      \/ p = "oom" /\ job' = "oom"
    BY DEF PendingMeansMessage, Doing
  <2>1. CASE \E i \in 1 .. Len(messages) : messages[i] = p
    BY <1>1, <2>1
  <2>2. CASE \E v \in Vcpus : vcpu[v] = Doing("send", p)
    <3>1. PICK v \in Vcpus : vcpu[v] = Doing("send", p)
      BY <2>2
    <3>2. vcpu[v].at = "send" /\ vcpu[v].bit = p
      BY <3>1 DEF Doing
    <3>3. vcpu'[v] = Doing("send", p) \/ p = m
      BY <3>1, <3>2
    <3>4. Len(messages') \in 1 .. Len(messages')
      BY <1>1
    <3> QED BY <1>1, <3>3, <3>4
  <2>3. CASE p = "oom" /\ job = "oom"
    BY <2>3
  <2> QED BY <2>1, <2>2, <2>3 DEF Inv, PendingMeansMessage
<1>6. SyncQueued'
  <2>1. \A i \in 1 .. Len(messages) : messages[i] \notin Synchronous
    BY <1>2 DEF Inv, SyncQueued, Synchronous
  <2>2. ASSUME NEW i \in 1 .. Len(messages'), messages'[i] \in Synchronous
        PROVE  i = Len(messages') /\ waiting' = messages'[i]
    <3>1. i \notin 1 .. Len(messages)
      BY <1>1, <2>1, <2>2
    <3>2. i = Len(messages')
      BY <1>1, <3>1
    <3> QED BY <1>1, <2>2, <3>2
  <2> QED BY <2>2 DEF SyncQueued, Synchronous
<1>7. JobFollowed'
  BY DEF Inv, JobFollowed, Processing
<1>8. SyncHandled'
  <2>1. ~Flushing' /\ pc' \notin {"wait", "stop"}
    BY <1>3 DEF Flushing, Processing
  <2>2. waiting' = "stop" => vm' = "stopping"
    BY DEF Synchronous
  <2>3. ASSUME vm' = "stopped", NEW i \in 1 .. Len(messages')
        PROVE  messages'[i] # "start"
    <3>1. \A j \in 1 .. Len(messages) : messages[j] # "start"
      BY <2>3 DEF Inv, SyncHandled
    <3> QED BY <1>1, <2>3, <3>1
  <2>4. vm' = "stopped" => ~running'
    BY DEF Inv, SyncHandled
  <2> QED BY <2>1, <2>2, <2>3, <2>4 DEF SyncHandled
<1>9. Drained'
  BY <1>3 DEF Inv, Drained, Nothing
<1> QED BY <1>4, <1>5, <1>6, <1>7, <1>8, <1>9 DEF Inv

LEMMA NotifyStep ==
  ASSUME Inv, NEW v \in Vcpus, NEW p \in {"wakeup", "oom"}, Notify(v, p)
  PROVE  Inv'
<1>1. /\ SendMessage(p) /\ p \in Messages /\ p \notin Synchronous
      /\ UNCHANGED <<pending, pc, call, job, running, chan, vm, waiting>>
      /\ vcpu[v] = Doing("send", p) /\ vcpu' = [vcpu EXCEPT ![v] = Guesting]
  BY DEF Notify, loopVars, chanVars, Messages, Synchronous
<1>2. Guesting \in Doings /\ vcpu[v].bit = p /\ waiting = "none"
  BY <1>1 DEF Guesting, Doing, Doings, SendMessage
<1>3. /\ vcpu' \in [Vcpus -> Doings]
      /\ \A w \in Vcpus : vcpu'[w] = vcpu[w] \/ vcpu[w].bit = p
  BY <1>1, <1>2 DEF Inv, Typed
<1> QED BY <1>1, <1>2, <1>3, SendStep

LEMMA RequestStep ==
  ASSUME Inv, NEW v \in Vcpus, NEW m \in {"update", "flush"}, Request(v, m)
  PROVE  Inv'
<1>1. /\ SendMessage(m) /\ m \in Messages /\ m \in Synchronous /\ waiting' = m
      /\ UNCHANGED <<pending, pc, call, job, running, chan, vm>> /\ vm = "running"
      /\ vcpu[v] = Guesting /\ vcpu' = [vcpu EXCEPT ![v] = Waits]
  BY DEF Request, loopVars, chanVars, Messages, Synchronous
<1>2. Waits \in Doings /\ vcpu[v].at # "send"
  BY <1>1 DEF Guesting, Waits, Doing, Doings
<1>3. /\ vcpu' \in [Vcpus -> Doings]
      /\ \A w \in Vcpus : vcpu[w].at = "send" => vcpu'[w] = vcpu[w]
  BY <1>1, <1>2 DEF Inv, Typed
<1> QED BY <1>1, <1>3, SendStep

LEMMA MachineSteps == ASSUME Inv, StopVm \/ StartVm PROVE Inv'
<1>1. UNCHANGED <<pending, pc, call, job, running, chan, vcpu>>
  BY DEF StopVm, StartVm, loopVars, chanVars
<1>2. \/ SendMessage("stop") /\ waiting' = "stop" /\ vm' = "stopping"
      \/ SendMessage("start") /\ waiting' = waiting /\ vm' = "running"
  BY DEF StopVm, StartVm
<1>3. "stop" \in Messages /\ "start" \in Messages
      /\ "stop" \in Synchronous /\ "start" \notin Synchronous
  BY DEF Messages, Synchronous
<1>4. waiting = "none"
  BY <1>2 DEF SendMessage
<1> QED BY <1>1, <1>2, <1>3, <1>4, SendStep DEF Inv, Typed

\* A handler of a message that was not waited for leaves the rest in order.
LEMMA TakenQueue ==
  ASSUME Inv, NEW m \in Messages \ Synchronous, Receive(m), waiting' = waiting
  PROVE  /\ messages' \in Seq(Messages) /\ SyncQueued'
         /\ \A p \in {"wakeup", "oom", "start"} : p # m =>
              ((\E i \in 1 .. Len(messages) : messages[i] = p) <=>
               (\E i \in 1 .. Len(messages') : messages'[i] = p))
         /\ (\A i \in 1 .. Len(messages) : messages[i] # "start") =>
              \A i \in 1 .. Len(messages') : messages'[i] # "start"
<1>1. /\ messages' \in Seq(Messages) /\ Len(messages) \in Nat \ {0} /\ messages[1] = m
      /\ Len(messages') = Len(messages) - 1
      /\ \A i \in 1 .. Len(messages') : messages'[i] = messages[i + 1]
  BY Taken DEF Inv, Typed
<1>2. \A i \in 1 .. Len(messages') : i + 1 \in 1 .. Len(messages)
  BY <1>1
<1>3. SyncQueued'
  <2>1. ASSUME NEW i \in 1 .. Len(messages'), messages'[i] \in Synchronous
        PROVE  i = Len(messages') /\ waiting' = messages'[i]
    <3>1. i + 1 \in 1 .. Len(messages) /\ messages[i + 1] \in Synchronous
      BY <1>1, <1>2, <2>1
    <3>2. i + 1 = Len(messages) /\ waiting = messages[i + 1]
      BY <3>1 DEF Inv, SyncQueued
    <3> QED BY <1>1, <3>2
  <2> QED BY <2>1 DEF SyncQueued, Synchronous
<1>4. \A p : (\E i \in 1 .. Len(messages') : messages'[i] = p) =>
               \E i \in 1 .. Len(messages) : messages[i] = p
  BY <1>1, <1>2
<1>5. ASSUME NEW p, p # m, NEW i \in 1 .. Len(messages), messages[i] = p
      PROVE  \E j \in 1 .. Len(messages') : messages'[j] = p
  <2>1. i # 1
    BY <1>1, <1>5
  <2>2. i - 1 \in 1 .. Len(messages') /\ messages'[i - 1] = messages[i]
    BY <1>1, <2>1
  <2> QED BY <1>5, <2>2
<1> QED BY <1>1, <1>3, <1>4, <1>5

\* A synchronous message is the last of the queue.
LEMMA TakenLast ==
  ASSUME Inv, NEW m \in Synchronous, Receive(m)
  PROVE  messages' = <<>> /\ waiting = m /\ messages[1] = m /\ Len(messages) = 1
<1>1. /\ messages' \in Seq(Messages) /\ Len(messages) \in Nat \ {0} /\ messages[1] = m
      /\ Len(messages') = Len(messages) - 1
  BY Taken DEF Inv, Typed
<1>2. Len(messages) = 1 /\ waiting = m
  BY <1>1 DEF Inv, SyncQueued
<1>3. Len(messages') = 0
  BY <1>1, <1>2
<1>4. messages' = <<>>
  BY <1>1, <1>3, EmptySeq
<1> QED BY <1>1, <1>2, <1>4

LEMMA AsyncSteps == ASSUME Inv, HandleWakeup \/ HandleOom \/ HandleStart PROVE Inv'
<1>1. PICK m \in {"wakeup", "oom", "start"} :
        /\ Receive(m)
        /\ m = "wakeup" => HandleWakeup
        /\ m = "oom" => HandleOom
        /\ m = "start" => HandleStart
  BY DEF HandleWakeup, HandleOom, HandleStart
<1>2. /\ UNCHANGED <<vm, vcpu, chan, waiting>> /\ m \in Messages \ Synchronous
      /\ pc = "messages"
  BY <1>1 DEF HandleWakeup, HandleOom, HandleStart, Receive, guestVars, chanVars, Messages,
              Synchronous
<1>3. /\ messages' \in Seq(Messages) /\ SyncQueued'
      /\ \A p \in {"wakeup", "oom", "start"} : p # m =>
           ((\E i \in 1 .. Len(messages) : messages[i] = p) <=>
            (\E i \in 1 .. Len(messages') : messages'[i] = p))
      /\ (\A i \in 1 .. Len(messages) : messages[i] # "start") =>
           \A i \in 1 .. Len(messages') : messages'[i] # "start"
  BY <1>1, <1>2, TakenQueue
<1>4. /\ call' \in Call
      /\ \/ m = "oom" /\ pc' = "process" /\ call'.from = "oom" /\ job' = "oom"
         \/ m # "oom" /\ pc' = "messages" /\ job' = job /\ call' = call
  <2>1. CASE m = "oom"
    <3>1. "display" \in Rings
      BY DEF Rings
    <3>2. Process("display", "oom") /\ job' = "oom"
      BY <1>1, <2>1 DEF HandleOom
    <3> QED BY <2>1, <3>1, <3>2, ProcessCall
  <2>2. CASE m # "oom"
    BY <1>1, <1>2, <2>2 DEF HandleWakeup, HandleStart, loopVars, Inv, Typed
  <2> QED BY <2>1, <2>2
<1>5. /\ pending' = IF m = "wakeup" THEN pending \ {"wakeup"} ELSE pending
      /\ m # "start" => running' = running
  BY <1>1 DEF HandleWakeup, HandleOom, HandleStart, loopVars
<1>6. Typed'
  BY <1>2, <1>3, <1>4, <1>5 DEF Inv, Typed
<1>7. job # "oom"
  BY <1>2 DEF Inv, JobFollowed, Processing
<1>8. JobFollowed'
  BY <1>4, <1>7 DEF JobFollowed, Processing
<1>9. PendingMeansMessage'
  <2> SUFFICES ASSUME NEW p \in pending'
               PROVE  \/ \E i \in 1 .. Len(messages') : messages'[i] = p
                      \/ \E v \in Vcpus : vcpu'[v] = Doing("send", p)
                      \/ p = "oom" /\ job' = "oom"
    BY DEF PendingMeansMessage, Doing
  <2>1. p \in pending /\ p \in {"wakeup", "oom"} /\ (p = m => p = "oom")
    BY <1>5 DEF Inv, Typed
  <2>2. \/ \E i \in 1 .. Len(messages) : messages[i] = p
        \/ \E v \in Vcpus : vcpu[v] = Doing("send", p)
    BY <1>7, <2>1 DEF Inv, PendingMeansMessage
  <2>3. CASE p = m
    BY <1>4, <2>1, <2>3
  <2>4. CASE p # m
    BY <1>2, <1>3, <2>1, <2>2, <2>4
  <2> QED BY <2>3, <2>4
<1>10. SyncHandled'
  <2>1. ~Flushing' /\ pc' \notin {"wait", "stop"}
    BY <1>4 DEF Flushing, Processing
  <2>2. vm = "stopped" => m # "start"
    <3>1. messages[1] = m /\ 1 \in 1 .. Len(messages)
      BY <1>1, Taken DEF Inv, Typed
    <3> QED BY <3>1 DEF Inv, SyncHandled
  <2>3. waiting' = "stop" => vm' = "stopping"
    BY <1>2 DEF Inv, SyncHandled
  <2>4. vm' = "stopped" =>
          ~running' /\ \A i \in 1 .. Len(messages') : messages'[i] # "start"
    BY <1>2, <1>3, <1>5, <2>2 DEF Inv, SyncHandled
  <2> QED BY <2>1, <2>3, <2>4 DEF SyncHandled
<1>11. Drained'
  BY <1>2, <1>4 DEF Inv, Drained, Nothing
<1> QED BY <1>3, <1>6, <1>8, <1>9, <1>10, <1>11 DEF Inv

\* What the queue says of the pending bits once a synchronous message, its last,
\* is taken or answered.
LEMMA PendingAfterLast ==
  ASSUME Inv, messages = <<>> \/ (Len(messages) = 1 /\ messages[1] \in Synchronous),
         pending' \subseteq pending,
         \A v \in Vcpus : vcpu[v].at = "send" => vcpu'[v] = vcpu[v],
         job = "oom" => job' = "oom" \/ "oom" \notin pending'
  PROVE  PendingMeansMessage'
<1> SUFFICES ASSUME NEW p \in pending'
             PROVE  \/ \E v \in Vcpus : vcpu'[v] = Doing("send", p)
                    \/ p = "oom" /\ job' = "oom"
  BY DEF PendingMeansMessage, Doing
<1>1. p \in pending /\ p \in {"wakeup", "oom"}
  BY DEF Inv, Typed
<1>2. ~\E i \in 1 .. Len(messages) : messages[i] = p
  <2>1. CASE messages = <<>>
    BY <2>1
  <2>2. CASE Len(messages) = 1 /\ messages[1] \in Synchronous
    <3>1. \A i \in 1 .. Len(messages) : i = 1
      BY <2>2
    <3> QED BY <1>1, <2>2, <3>1 DEF Synchronous
  <2> QED BY <2>1, <2>2
<1>3. (\E v \in Vcpus : vcpu[v] = Doing("send", p)) \/ (p = "oom" /\ job = "oom")
  BY <1>1, <1>2 DEF Inv, PendingMeansMessage
<1> QED BY <1>3 DEF Doing

LEMMA SyncSteps ==
  ASSUME Inv, HandleStop \/ (\E m \in {"update", "flush"} : HandleFlush(m))
  PROVE  Inv'
<1>1. PICK m \in Synchronous :
        /\ Receive(m)
        /\ m = "stop" => HandleStop
        /\ m # "stop" => HandleFlush(m)
  BY DEF HandleStop, HandleFlush, Synchronous
<1>2. /\ UNCHANGED <<vm, vcpu, chan, pending, waiting>> /\ pc = "messages"
      /\ m # "stop" => running' = running
  BY <1>1 DEF HandleStop, HandleFlush, Receive, guestVars, chanVars
<1>3. messages' = <<>> /\ waiting = m /\ messages[1] = m /\ Len(messages) = 1
  BY <1>1, TakenLast
<1>4. /\ call' \in Call
      /\ \/ /\ m = "stop" /\ pc' = "stop" /\ call'.ring = "display" /\ ~running'
            /\ job' = job
         \/ m # "stop" /\ pc' = "process" /\ call'.from = "first" /\ job' = m
  <2>1. "display" \in Rings
    BY DEF Rings
  <2>2. CASE m = "stop"
    BY <1>1, <2>1, <2>2 DEF HandleStop, Inv, Typed, Call
  <2>3. CASE m # "stop"
    BY <1>1, <2>1, <2>3, ProcessCall DEF HandleFlush
  <2> QED BY <2>2, <2>3
<1>5. job # "oom" /\ job' # "oom"
  BY <1>2, <1>4 DEF Inv, JobFollowed, Processing, Synchronous
<1>6. Typed' /\ SyncQueued' /\ JobFollowed'
  BY <1>2, <1>3, <1>4, <1>5, EmptySeq DEF Inv, Typed, SyncQueued, JobFollowed
<1>7. PendingMeansMessage'
  BY <1>2, <1>3, <1>5, PendingAfterLast
<1>8. SyncHandled'
  BY <1>2, <1>3, <1>4 DEF Inv, SyncHandled, Flushing, Processing, Synchronous
<1>9. Drained'
  <2>1. vm = "stopped" => m # "stop"
    BY <1>3 DEF Inv, SyncHandled
  <2> QED BY <1>2, <1>4, <2>1 DEF Inv, Drained, Nothing
<1> QED BY <1>6, <1>7, <1>8, <1>9 DEF Inv

LEMMA AnswerType ==
  ASSUME Inv, Answer
  PROVE  /\ vcpu' \in [Vcpus -> Doings] /\ waiting' = "none"
         /\ \A v \in Vcpus : vcpu[v].at = "send" => vcpu'[v] = vcpu[v]
<1>1. Guesting \in Doings /\ Waits.at # "send"
  BY DEF Guesting, Waits, Doing, Doings
<1> QED BY <1>1 DEF Answer, Inv, Typed

LEMMA ReturnOomStep == ASSUME Inv, ReturnOom PROVE Inv'
<1>1. /\ UNCHANGED <<vm, vcpu, messages, waiting, running>>
      /\ pc = "returned" /\ call.from = "oom"
  BY DEF ReturnOom, guestVars
<1>2. CASE call.n
  <2>1. PICK c \in Push("display", chan["display"]) : chan' = [chan EXCEPT !["display"] = c]
    BY <1>2 DEF ReturnOom
  <2>2. Process("display", "oom") /\ UNCHANGED <<pending, job>> /\ "display" \in Rings
    BY <1>2 DEF ReturnOom, Rings
  <2>3. pc' = "process" /\ call' \in Call /\ call'.from = "oom"
    BY <2>2, ProcessCall
  <2>4. JobFollowed' /\ ~Flushing'
    BY <2>3 DEF JobFollowed, Flushing, Processing
  <2> QED BY <1>1, <2>1, <2>2, <2>3, <2>4, ChannelMoves, StaysStep
<1>3. CASE ~call.n
  <2>1. /\ pc' = "messages" /\ pending' = pending \ {"oom"} /\ job' = "none"
        /\ call' = NoCall /\ chan' = chan
    BY <1>3 DEF ReturnOom
  <2>2. Typed' /\ SyncQueued' /\ JobFollowed'
    BY <1>1, <2>1, NoCallType DEF Inv, Typed, SyncQueued, JobFollowed
  <2>3. PendingMeansMessage'
    BY <1>1, <2>1, PendingKept DEF Inv
  <2>4. SyncHandled' /\ Drained'
    BY <1>1, <2>1 DEF Inv, SyncHandled, Drained, Flushing, Processing, Nothing
  <2> QED BY <2>2, <2>3, <2>4 DEF Inv
<1> QED BY <1>2, <1>3

LEMMA ReturnFlushStep == ASSUME Inv, ReturnFlush PROVE Inv'
<1>1. /\ UNCHANGED <<vm, pending, messages, running>>
      /\ pc = "returned" /\ call.from \in {"first", "drain"} /\ call.ring \in Rings
      /\ Flushing /\ job # "oom"
  BY DEF ReturnFlush, Flushing, Processing, Inv, JobFollowed, Typed, Call
<1>2. messages = <<>> /\ waiting \in {"update", "flush"}
  BY <1>1 DEF Inv, SyncHandled
<1>3. CASE UNCHANGED <<vcpu, waiting, job>>
  <2>1. /\ chan' \in [Rings -> Channel]
        /\ \A q \in Rings : Nothing(chan[q]) => Nothing(chan'[q])
    <3>1. \/ chan' = chan
          \/ \E c \in Push(call.ring, chan[call.ring]) :
                chan' = [chan EXCEPT ![call.ring] = c]
      BY DEF ReturnFlush
    <3> QED BY <1>1, <3>1, ChannelMoves DEF Inv, Typed
  <2>2. \/ Process("cursor", "first") \/ Process(call.ring, "drain")
        \/ pc' = "wait" /\ call' = call
        \/ Answer
    BY DEF ReturnFlush, FlushDone
  <2>3. ~Answer
    BY <1>2, <1>3 DEF Answer
  <2>4. /\ call' \in Call /\ pc' \in {"process", "wait"}
        /\ call'.from \in {"first", "drain"}
    <3>1. "cursor" \in Rings
      BY DEF Rings
    <3> QED BY <1>1, <2>2, <2>3, <3>1, ProcessCall DEF Inv, Typed
  <2>5. JobFollowed' /\ pc' # "stop"
    BY <1>1, <1>3, <2>4 DEF JobFollowed
  <2> QED BY <1>1, <1>3, <2>1, <2>4, <2>5, StaysStep
<1>4. CASE ~UNCHANGED <<vcpu, waiting, job>>
  <2>1. pc' = "messages" /\ job' = "none" /\ call' = NoCall /\ Answer /\ chan' = chan
    BY <1>4 DEF ReturnFlush, FlushDone
  <2>2. /\ vcpu' \in [Vcpus -> Doings] /\ waiting' = "none"
        /\ \A v \in Vcpus : vcpu[v].at = "send" => vcpu'[v] = vcpu[v]
    BY <2>1, AnswerType
  <2>3. Typed' /\ SyncQueued' /\ JobFollowed'
    BY <1>1, <1>2, <2>1, <2>2, NoCallType DEF Inv, Typed, SyncQueued, JobFollowed
  <2>4. PendingMeansMessage'
    BY <1>1, <2>2, PendingKept DEF Inv
  <2>5. SyncHandled' /\ Drained'
    BY <1>1, <2>1, <2>2 DEF Inv, SyncHandled, Drained, Flushing, Processing, Nothing
  <2> QED BY <2>3, <2>4, <2>5 DEF Inv
<1> QED BY <1>3, <1>4

LEMMA StopSentStep == ASSUME Inv, StopSent PROVE Inv'
<1>1. /\ UNCHANGED <<pending, messages, job, running, chan>> /\ pc = "stop"
      /\ Nothing(chan[call.ring]) /\ call.ring \in Rings
  BY DEF StopSent, Sent, Nothing, chanVars, Inv, Typed, Call
<1>2. messages = <<>> /\ waiting = "stop" /\ ~running /\ vm = "stopping" /\ job # "oom"
  BY <1>1 DEF Inv, SyncHandled, JobFollowed, Processing
<1>3. CASE call.ring = "display"
  <2>1. /\ pc' \in {"stop", "crashed"} /\ call' = [call EXCEPT !.ring = "cursor"]
        /\ UNCHANGED <<vm, vcpu, waiting>>
    BY <1>3 DEF StopSent
  <2>2. call' \in Call
    BY <2>1 DEF Inv, Typed, Call, Rings
  <2>3. Typed' /\ SyncQueued' /\ JobFollowed'
    BY <1>1, <1>2, <2>1, <2>2 DEF Inv, Typed, SyncQueued, JobFollowed
  <2>4. PendingMeansMessage'
    BY <1>1, <2>1, PendingKept DEF Inv
  <2>5. SyncHandled' /\ Drained'
    BY <1>1, <1>2, <1>3, <2>1 DEF SyncHandled, Drained, Flushing, Processing, Nothing
  <2> QED BY <2>3, <2>4, <2>5 DEF Inv
<1>4. CASE call.ring # "display"
  <2>1. call.ring = "cursor" /\ pc' = "messages" /\ vm' = "stopped" /\ Answer
        /\ call' = NoCall
    BY <1>4 DEF StopSent
  <2>2. /\ vcpu' \in [Vcpus -> Doings] /\ waiting' = "none"
        /\ \A v \in Vcpus : vcpu[v].at = "send" => vcpu'[v] = vcpu[v]
    BY <2>1, AnswerType
  <2>3. Typed' /\ SyncQueued' /\ JobFollowed'
    BY <1>1, <1>2, <2>1, <2>2, NoCallType DEF Inv, Typed, SyncQueued, JobFollowed
  <2>4. PendingMeansMessage'
    BY <1>1, <2>2, PendingKept DEF Inv
  <2>5. \A r \in Rings : Nothing(chan[r])
    BY <1>1, <2>1 DEF Inv, Drained, Rings
  <2>6. SyncHandled' /\ Drained'
    BY <1>1, <1>2, <2>1, <2>2, <2>5
       DEF SyncHandled, Drained, Flushing, Processing, Nothing
  <2> QED BY <2>3, <2>4, <2>6 DEF Inv
<1> QED BY <1>3, <1>4

-----------------------------------------------------------------------------
(* The specification.                                                      *)

LEMMA InitInv == ASSUME Init PROVE Inv
<1>1. PICK start \in Starts :
        /\ chan = [r \in Rings |-> IF r \in start.open THEN Opened ELSE Closed]
        /\ vcpu = [v \in Vcpus |-> IF v \in start.online THEN Guesting ELSE Off]
  BY DEF Init
<1>2. Opened \in Channel /\ Closed \in Channel
  <2>1. 0 \in 0 .. SocketSize
    BY Sizes
  <2>2. Closed \in Channel
    BY <2>1 DEF Closed, Channel
  <2> QED BY <2>2 DEF Opened, Channel
<1>3. Guesting \in Doings /\ Off \in Doings
  BY DEF Guesting, Off, Doing, Doings
<1>4. Typed
  BY <1>1, <1>2, <1>3, NoCallType, EmptySeq DEF Init, Typed
<1>5. JobFollowed /\ PendingMeansMessage /\ SyncQueued
  BY DEF Init, JobFollowed, PendingMeansMessage, SyncQueued
<1>6. SyncHandled /\ Drained
  BY DEF Init, SyncHandled, Drained, Flushing, Processing
<1> QED BY <1>4, <1>5, <1>6 DEF Inv

LEMMA NextInv == ASSUME Inv, [Next]_vars PROVE Inv'
<1>1. CASE Worker
  <2>1. CASE Handler
    BY <2>1, AsyncSteps, SyncSteps, ReturnOomStep, ReturnFlushStep, FlushWaitStep,
       ServeSteps, StopSentStep DEF Handler
  <2>2. CASE ~Handler
    BY <1>1, <2>2, LoopSteps, TakeSteps, PushAllStep, ServeSteps DEF Worker
  <2> QED BY <2>1, <2>2
<1>2. CASE StopVm \/ StartVm
  BY <1>2, MachineSteps
<1>3. ASSUME NEW v \in Vcpus, Guest(v)
      PROVE  Inv'
  BY <1>3, WorkSteps, SetPendingStep, NotifyStep, RequestStep DEF Guest, Io, Work
<1>4. ASSUME NEW r \in Rings, Client(r)
      PROVE  Inv'
  BY <1>4, ClientStep
<1>5. CASE UNCHANGED vars
  <2>1. /\ UNCHANGED <<vm, vcpu, pending, messages, waiting, job, running>>
        /\ pc' = pc /\ call' = call /\ chan' = chan
    BY <1>5 DEF vars, guestVars, msgVars, loopVars, chanVars
  <2>2. JobFollowed' /\ (Flushing' => Flushing)
        /\ (pc' = "wait" => call'.from \in {"first", "drain"})
    BY <2>1 DEF Inv, JobFollowed, Flushing, Processing, SyncHandled
  <2> QED BY <2>1, <2>2, StaysStep DEF Inv, Typed
<1> QED BY <1>1, <1>2, <1>3, <1>4, <1>5 DEF Next

LEMMA WorkerInvariant == Spec => []Inv
<1>1. Init => Inv
  BY InitInv
<1>2. Inv /\ [Next]_vars => Inv'
  BY NextInv
<1> QED BY <1>1, <1>2, PTL DEF Spec

\* red_dispatcher_set_pending and its comment: although the test and the set of a
\* pending bit are two steps and the worker clears it in between, a bit that
\* suppresses notifications always has a message on its way or being handled.
THEOREM PendingBacked == Spec => []PendingMeansMessage
<1>1. Inv => PendingMeansMessage
  BY DEF Inv
<1> QED BY <1>1, WorkerInvariant, PTL

\* handle_dev_stop: once the stop is answered and until the start is handled, nothing
\* is left in a pipe or half sent, whatever the clients and the processors do.
THEOREM StopLeavesNothing == Spec => []StopFlushes
<1>1. Inv => StopFlushes
  BY DEF Inv, SyncHandled, Drained, StopFlushes, Nothing
<1> QED BY <1>1, WorkerInvariant, PTL

-----------------------------------------------------------------------------
(* No message overtakes a stop or a start.                                 *)

\* The machine's state goes along with the worker's, a start in the queue apart:
\* it is sent to an empty queue, since no processor is in an I/O when the machine
\* is stopped.
Ordered ==
  /\ vm # "running" => \A v \in Vcpus : vcpu[v].at \in {"guest", "off"}
  /\ vm = "stopped" => messages = <<>>
  /\ \A i \in 1 .. Len(messages) : messages[i] = "start" => i = 1 /\ ~running
  /\ ~running => \/ vm = "stopped" \/ pc \in {"stop", "crashed"}
                 \/ Len(messages) > 0 /\ messages[1] = "start"

LEMMA OrderedKept ==
  ASSUME Ordered, UNCHANGED <<vm, messages, running>>,
         pc \in {"stop", "crashed"} => pc' \in {"stop", "crashed"} \/ vm = "stopped",
         vm # "running" => \A v \in Vcpus : vcpu[v].at \in {"guest", "off"} =>
                             vcpu'[v].at \in {"guest", "off"}
  PROVE  Ordered'
BY DEF Ordered

LEMMA OrderedSent ==
  ASSUME Inv, Ordered, NEW m \in Messages, messages' = Append(messages, m),
         vm = "running" \/ (m = "start" /\ vm = "stopped" /\ vm' = "running"),
         m = "start" => vm = "stopped", UNCHANGED <<running, pc>>,
         vm' = "running" \/ (vm' = "stopping"
                             /\ \A v \in Vcpus : vcpu'[v].at \in {"guest", "off"})
  PROVE  Ordered'
<1>1. /\ messages' \in Seq(Messages) /\ Len(messages) \in Nat
      /\ Len(messages') = Len(messages) + 1 /\ messages'[Len(messages')] = m
      /\ \A i \in 1 .. Len(messages) : messages'[i] = messages[i]
  <2>1. messages \in Seq(Messages)
    BY DEF Inv, Typed
  <2> QED BY <2>1, Appended
<1>2. CASE m = "start"
  <2>1. Len(messages) = 0 /\ ~running /\ vm' = "running"
    BY <1>2, EmptySeq DEF Ordered, Inv, SyncHandled
  <2> QED BY <1>1, <1>2, <2>1 DEF Ordered
<1>3. CASE m # "start"
  <2>1. ASSUME NEW i \in 1 .. Len(messages'), messages'[i] = "start"
        PROVE  i = 1 /\ ~running
    <3>1. i \in 1 .. Len(messages) /\ messages[i] = "start"
      BY <1>1, <1>3, <2>1
    <3> QED BY <3>1 DEF Ordered
  <2>2. ~running => \/ pc \in {"stop", "crashed"}
                    \/ Len(messages) > 0 /\ messages[1] = "start"
    BY <1>3 DEF Ordered
  <2>3. Len(messages) > 0 => Len(messages') > 0 /\ messages'[1] = messages[1]
    BY <1>1
  <2> QED BY <1>3, <2>1, <2>2, <2>3 DEF Ordered
<1> QED BY <1>2, <1>3

LEMMA OrderedTaken ==
  ASSUME Inv, Ordered, NEW m \in Messages, Receive(m), UNCHANGED <<vm, vcpu>>,
         running' = IF m = "start" THEN TRUE ELSE IF m = "stop" THEN FALSE ELSE running,
         m = "stop" => pc' = "stop"
  PROVE  Ordered'
<1>1. /\ messages' \in Seq(Messages) /\ Len(messages) \in Nat \ {0} /\ messages[1] = m
      /\ Len(messages') = Len(messages) - 1
      /\ \A i \in 1 .. Len(messages') : messages'[i] = messages[i + 1]
  BY Taken DEF Inv, Typed
<1>2. \A i \in 1 .. Len(messages') : messages'[i] # "start"
  <2>1. \A i \in 1 .. Len(messages') : i + 1 \in 1 .. Len(messages) /\ i + 1 # 1
    BY <1>1
  <2> QED BY <1>1, <2>1 DEF Ordered
<1>3. vm # "stopped" /\ pc \notin {"stop", "crashed"}
  <2>1. messages # <<>> /\ pc = "messages"
    BY DEF Receive
  <2> QED BY <2>1 DEF Ordered
<1>4. m # "start" /\ m # "stop" => running
  BY <1>1, <1>3 DEF Ordered
<1> QED BY <1>2, <1>3, <1>4 DEF Ordered

LEMMA OrderedWorker == ASSUME Inv, Ordered, Worker PROVE Ordered'
<1>1. CASE HandleWakeup \/ HandleOom \/ HandleStart \/ HandleStop
           \/ \E m \in {"update", "flush"} : HandleFlush(m)
  <2>1. UNCHANGED <<vm, vcpu>>
    BY <1>1 DEF HandleWakeup, HandleOom, HandleStart, HandleStop, HandleFlush, guestVars
  <2>2. PICK m \in Messages :
          /\ Receive(m)
          /\ running' = IF m = "start" THEN TRUE
                        ELSE IF m = "stop" THEN FALSE ELSE running
          /\ m = "stop" => pc' = "stop"
    BY <1>1 DEF HandleWakeup, HandleOom, HandleStart, HandleStop, HandleFlush, Messages,
                loopVars
  <2> QED BY <2>1, <2>2, OrderedTaken
<1>2. CASE StopSent
  <2>1. /\ UNCHANGED <<messages, running>> /\ messages = <<>> /\ vm = "stopping"
        /\ call.ring \in Rings
    BY <1>2 DEF StopSent, Inv, SyncHandled, Typed, Call
  <2>2. \/ vm' = vm /\ vcpu' = vcpu /\ pc' \in {"stop", "crashed"}
        \/ vm' = "stopped" /\ Answer
    BY <1>2 DEF StopSent
  <2>3. \A v \in Vcpus : vcpu'[v].at \in {"guest", "off"}
    BY <2>1, <2>2 DEF Ordered, Answer, Guesting, Doing
  <2> QED BY <2>1, <2>2, <2>3 DEF Ordered
<1>3. CASE ReturnFlush
  <2>1. UNCHANGED <<vm, messages, running>> /\ pc = "returned"
    BY <1>3 DEF ReturnFlush
  <2>2. vcpu' = vcpu \/ Answer
    BY <1>3 DEF ReturnFlush, FlushDone
  <2>3. \A v \in Vcpus : vcpu[v].at \in {"guest", "off"} => vcpu'[v].at \in {"guest", "off"}
    BY <2>2 DEF Answer, Guesting, Doing
  <2> QED BY <2>1, <2>3, OrderedKept
<1>4. CASE Poll \/ HandleDispatcher \/ MessagesDone \/ EventsDone \/ PushAll
           \/ TakeNone \/ TakeCommand \/ TakeEmpty \/ AskNotification \/ ReturnLoop
           \/ (\E r \in Rings : HandleChannel(r))
           \/ ReturnOom \/ FlushWait \/ FlushTimeout \/ StopWait \/ StopTimeout
  <2>1. UNCHANGED <<vm, vcpu, messages, running>>
    BY <1>4 DEF Poll, HandleDispatcher, MessagesDone, EventsDone, PushAll, TakeNone,
       TakeCommand, TakeEmpty, AskNotification, ReturnLoop, HandleChannel, ReturnOom,
       FlushWait, FlushTimeout, StopWait, StopTimeout, guestVars, msgVars, loopVars
  <2>2. pc' = pc \/ pc \notin {"stop", "crashed"}
    BY <1>4 DEF Poll, HandleDispatcher, MessagesDone, EventsDone, PushAll, TakeNone,
       TakeCommand, TakeEmpty, MayTake, AskNotification, ReturnLoop, HandleChannel,
       ReturnOom, FlushWait, FlushTimeout, StopWait, StopTimeout, loopVars
  <2> QED BY <2>1, <2>2, OrderedKept
<1> QED BY <1>1, <1>2, <1>3, <1>4 DEF Worker, Handler

LEMMA OrderedGuest == ASSUME Inv, Ordered, NEW v \in Vcpus, Guest(v) PROVE Ordered'
<1>1. vm = "running"
  <2>1. vcpu[v].at \notin {"guest", "off"} \/ vm = "running"
    BY DEF Guest, Io, Work, TestPending, SetPending, Notify, Request, OutOfMemory,
           PushCommand, Doing
  <2> QED BY <2>1 DEF Ordered
<1>2. CASE \E p \in {"wakeup", "oom", "update", "flush"} : SendMessage(p)
           /\ UNCHANGED <<vm, running, pc>>
  BY <1>1, <1>2, OrderedSent DEF SendMessage, Messages
<1>3. CASE UNCHANGED <<vm, messages, running, pc>>
  BY <1>1, <1>3, OrderedKept
<1>4. UNCHANGED <<vm, running, pc>>
      /\ (UNCHANGED messages \/ \E p \in {"wakeup", "oom", "update", "flush"} : SendMessage(p))
  BY DEF Guest, Io, Work, TestPending, SetPending, Notify, Request, OutOfMemory,
         PushCommand, msgVars, loopVars
<1> QED BY <1>2, <1>3, <1>4

LEMMA OrderedNext == ASSUME Inv, Ordered, [Next]_vars PROVE Ordered'
<1>1. CASE StopVm
  <2>1. /\ vm = "running" /\ vm' = "stopping" /\ messages' = Append(messages, "stop")
        /\ UNCHANGED <<running, pc, vcpu>> /\ "stop" \in Messages
        /\ \A v \in Vcpus : vcpu[v] \in {Guesting, Off}
    BY <1>1 DEF StopVm, SendMessage, loopVars, Messages
  <2>2. \A v \in Vcpus : vcpu'[v].at \in {"guest", "off"}
    BY <2>1 DEF Guesting, Off, Doing
  <2> QED BY <2>1, <2>2, OrderedSent
<1>2. CASE StartVm
  BY <1>2, OrderedSent DEF StartVm, SendMessage, loopVars, Messages
<1>3. CASE \E r \in Rings : Client(r)
  BY <1>3, OrderedKept DEF Client, ClientReads, ClientCloses, guestVars, msgVars, loopVars
<1>4. CASE UNCHANGED vars
  BY <1>4, OrderedKept DEF vars, guestVars, msgVars, loopVars
<1> QED BY <1>1, <1>2, <1>3, <1>4, OrderedWorker, OrderedGuest DEF Next

\* handle_dev_oom, handle_dev_update, handle_dev_stop and handle_dev_start find the
\* machine as they assert it: no notification of a processor is late enough to be
\* handled after the stop, none is handled before the start.
THEOREM AssertionsHold == Spec => []StateAsserted
<1>1. Init => Ordered
  BY DEF Init, Ordered
<1>2. Inv /\ Ordered /\ [Next]_vars => Ordered'
  BY OrderedNext
<1>3. Inv /\ Ordered => StateAsserted
  <2> SUFFICES ASSUME Inv, Ordered, pc = "messages", messages # <<>>
               PROVE  \/ Head(messages) \in {"oom", "stop", "update"} <=> running
                      \/ Head(messages) \in {"wakeup", "flush"}
    BY DEF StateAsserted
  <2>1. /\ messages \in Seq(Messages) /\ Len(messages) \in Nat \ {0}
        /\ Head(messages) = messages[1] /\ messages[1] \in Messages
    BY EmptySeq, HeadTailProperties, ElementOfSeq DEF Inv, Typed
  <2>2. messages[1] = "start" => ~running
    BY <2>1 DEF Ordered
  <2>3. messages[1] # "start" => running
    BY DEF Ordered
  <2> QED BY <2>1, <2>2, <2>3 DEF Messages
<1> QED BY <1>1, <1>2, <1>3, WorkerInvariant, PTL DEF Spec

-----------------------------------------------------------------------------
(***************************************************************************)
(* The worker never sleeps over a command that nobody is going to wake it  *)
(* for (NoCommandLost), for any number of processors, any rings, pipes,    *)
(* windows and sockets.                                                    *)
(*                                                                         *)
(* NoLostCommand speaks of steps to sleep.  The invariant says, of         *)
(* every moment of the loop and of each ring, why the ring will be looked  *)
(* at (Covered): the worker has yet to come to it in this turn, or will    *)
(* not sleep after this turn, or a notification is on its way, or the next *)
(* push will send one, or the pipe is full.  The last is good for a sleep  *)
(* because a push that starts with a full pipe ends with a client that     *)
(* will be heard of (FullPipePushed): this is where the worker's assertion *)
(* that the window is smaller than the pipe is needed.  That the next push *)
(* sends a notification rests on the retry counter (Watched), and that a   *)
(* suppressed notification is not needed on PendingMeansMessage.           *)
(***************************************************************************)

\* A notification of a processor, or any message, is on its way.
Signalled ==
  \/ messages # <<>>
  \/ \E v \in Vcpus : vcpu[v] \in {Doing(at, "wakeup") : at \in {"test", "set", "send"}}

\* The client of a channel, alive or dead, will be heard of, or has been dropped.
Heard(c) ==
  \/ c.gone
  \/ c.connected /\ (c.blocked \/ c.acks > 0 \/ c.sock + c.seen >= Window)

\* In this turn of the loop the worker has yet to come to the ring.
Ahead(r) ==
  \/ pc \in {"events", "messages", "wait", "stop"}
  \/ Processing /\ \/ call.from # "loop"
                   \/ call.ring = "cursor" /\ r = "display"
                   \/ call.ring = r /\ pc # "returned"

Covered(r) ==
  \/ ring[r] = 0 /\ armed[r]
  \/ Signalled
  \/ timeout # "inf"
  \/ Ahead(r)
  \/ pc # "poll" /\ PipeFull(r)
  \/ pc = "poll" /\ (Heard(chan[r]) \/ Streaming)

\* A ring that is no longer polled notifies, or has been pushed into since.
Watched(r) == tries[r] > Retries => armed[r] \/ ring[r] > 0

Counted ==
  /\ ring \in [Rings -> Nat] /\ armed \in [Rings -> BOOLEAN] /\ tries \in [Rings -> Nat]
  /\ pc \in {"poll", "events", "messages", "process", "request", "returned", "push",
             "wait", "stop", "crashed"}

Awake ==
  /\ Counted
  /\ \A r \in Rings : Watched(r)
  /\ running => \A r \in Rings : Covered(r)
  /\ ~cursor => ~chan["cursor"].connected
  /\ pc \in {"stop", "crashed"} => ~running

-----------------------------------------------------------------------------
(* A push that starts with a full pipe.                                    *)

LEMMA MaxOfTwo ==
  ASSUME NEW a \in Int, NEW b \in Int
  PROVE  Max({a, b}) \in Int /\ Max({a, b}) >= a /\ Max({a, b}) >= b
         /\ Max({a, b}) \in {a, b}
<1>1. \E x \in {a, b} : \A y \in {a, b} : x >= y
  <2>1. CASE a >= b
    BY <2>1
  <2>2. CASE b >= a
    BY <2>2
  <2> QED BY <2>1, <2>2
<1> QED BY <1>1 DEF Max

\* The window is used up, or the whole pipe, which is longer than the window, has
\* gone into the socket; unless frames are left out, and then there is a stream.
LEMMA FullPipePushed ==
  ASSUME NEW r \in Rings, NEW c \in Channel, NEW d \in Push(r, c),
         c.connected, c.pipe > PipeMax
  PROVE  Heard(d) \/ (Drops(r) /\ d.connected)
<1> DEFINE flushed == [c EXCEPT !.blocked = FALSE,
                               !.sock = IF c.blocked THEN @ + 1 ELSE @]
           room == SocketSize - flushed.sock
           most == Min({room + 1, Credit(flushed)})
<1>1. CASE c.blocked /\ c.sock = SocketSize
  <2>1. d = c
    BY <1>1 DEF Push
  <2> QED BY <1>1, <2>1 DEF Heard
<1>2. CASE ~(c.blocked /\ c.sock = SocketSize) /\ c.gone
  <2>1. d \in {c, Dropped}
    BY <1>2 DEF Push
  <2>2. Dropped.gone
    BY DEF Dropped, Closed
  <2> QED BY <1>2, <2>1, <2>2 DEF Heard
<1>3. CASE ~(c.blocked /\ c.sock = SocketSize) /\ ~c.gone
  <2>1. /\ c.sock \in 0 .. SocketSize /\ c.pipe \in Nat /\ c.seen \in Nat
        /\ c.acks \in Nat /\ c.blocked \in BOOLEAN
        /\ Window \in Nat \ {0} /\ PipeMax > Window /\ PipeMax \in Nat
    BY WorkerAssumption DEF Channel
  <2>2. PICK s \in 0 .. SocketSize : flushed = [c EXCEPT !.blocked = FALSE, !.sock = s]
    <3>1. (IF c.blocked THEN c.sock + 1 ELSE c.sock) \in 0 .. SocketSize
      BY <1>3, <2>1, Sizes
    <3> QED BY <3>1
  <2>3. /\ flushed \in Channel /\ flushed.sock = s /\ flushed.connected
        /\ flushed.blocked = FALSE /\ flushed.seen = c.seen /\ flushed.acks = c.acks
        /\ flushed.pipe = c.pipe
    BY <2>1, <2>2 DEF Channel
  <2>4. PICK p \in (0 .. c.pipe) \X (0 .. c.pipe) :
          /\ p[2] =< p[1] /\ p[2] =< most
          /\ p[1] = c.pipe \/ p[2] = most
          /\ p[1] = p[2] \/ (Drops(r) /\ most > 0)
          /\ d = [flushed EXCEPT !.pipe = @ - p[1], !.sock = @ + Min({p[2], room}),
                                 !.blocked = p[2] > room]
    BY <1>3, Zenon DEF Push
  <2>5. room \in Nat /\ room = SocketSize - s
    BY <2>2, <2>3, Sizes
  <2>6. p[1] \in Nat /\ p[2] \in Nat
    BY <2>1, <2>4
  <2>7. Credit(flushed) \in Int /\ Credit(flushed) >= 2 * Window + 1 - Unacked(flushed)
    <3>1. Unacked(flushed) \in Int
      BY <2>1, <2>2, <2>3 DEF Unacked
    <3> QED BY <2>1, <3>1, MaxOfTwo DEF Credit
  <2>8. most = Min({room + 1, Credit(flushed)})
    OBVIOUS
  <2> HIDE DEF flushed, room, most
  <2>11. most \in {room + 1, Credit(flushed)} /\ most \in Int
    <3>1. room + 1 \in Int
      BY <2>5
    <3> QED BY <2>7, <2>8, <3>1, MinOfTwo
  <2>9. CASE p[2] > room
    BY <2>3, <2>4, <2>9 DEF Heard, Channel
  <2>10. CASE ~(p[2] > room)
    <3>1. Min({p[2], room}) = p[2]
      <4>1. Min({p[2], room}) =< p[2] /\ Min({p[2], room}) \in {p[2], room}
            /\ Min({p[2], room}) =< room
        <5>1. p[2] \in Int /\ room \in Int
          BY <2>5, <2>6
        <5> QED BY <5>1, MinOfTwo, Zenon
      <4> QED BY <2>5, <2>6, <2>10, <4>1
    <3>2. d.sock = s + p[2] /\ d.seen = c.seen /\ d.acks = c.acks /\ d.connected
      BY <2>3, <2>4, <3>1 DEF Channel
    <3>3. CASE c.acks > 0
      BY <3>2, <3>3 DEF Heard
    <3>4. CASE ~(c.acks > 0) /\ p[2] = most
      <4>1. most = Credit(flushed)
        BY <2>5, <2>6, <2>11, <2>10, <3>4
      <4>2. Unacked(flushed) = s + c.seen
        <5>1. c.acks = 0 /\ Window * 0 = 0
          BY <2>1, <3>4
        <5> QED BY <2>1, <2>3, <5>1 DEF Unacked
      <4>3. d.sock + d.seen >= Window
        BY <2>1, <2>6, <2>7, <3>2, <3>4, <4>1, <4>2
      <4> QED BY <3>2, <4>3 DEF Heard
    <3>5. CASE p[1] = c.pipe /\ p[1] = p[2]
      <4>1. d.sock + d.seen >= Window
        BY <2>1, <2>2, <2>6, <3>2, <3>5
      <4> QED BY <3>2, <4>1 DEF Heard
    <3> QED BY <2>4, <3>2, <3>3, <3>4, <3>5
  <2> QED BY <2>9, <2>10
<1> QED BY <1>1, <1>2, <1>3

\* Who is not connected is left alone.
LEMMA Unconnected ==
  ASSUME NEW r \in Rings, NEW c \in Channel, ~c.connected
  PROVE  Push(r, c) = {c} /\ Serve(r, c) = {c}
BY DEF Push, Serve

LEMMA DroppedIsHeard == Dropped.gone /\ ~Dropped.connected
BY DEF Dropped, Closed

-----------------------------------------------------------------------------
(* The guest, the machine and the clients.                                 *)

\* A step that leaves the worker where it is.
LEMMA CoveredKept ==
  ASSUME NEW r \in Rings, Covered(r), UNCHANGED <<pc, call, timeout>>,
         Signalled => Signalled',
         ring[r] = 0 /\ armed[r] => (ring'[r] = 0 /\ armed'[r]) \/ Signalled',
         PipeFull(r) => PipeFull(r)',
         Heard(chan[r]) => Heard(chan'[r]), Streaming => Streaming'
  PROVE  Covered(r)'
BY DEF Covered, Ahead, Processing

\* A client neither takes the worker's reasons to wake away, nor is it disconnected.
LEMMA ClientKeeps ==
  ASSUME Inv, NEW r \in Rings, Client(r)
  PROVE  /\ UNCHANGED <<ring, armed, tries, pc, call, timeout, running, messages, vcpu,
                        cursor, stream>>
         /\ \A q \in Rings :
               /\ PipeFull(q) => PipeFull(q)'
               /\ Heard(chan[q]) => Heard(chan'[q])
               /\ chan'[q].connected = chan[q].connected
         /\ Signalled => Signalled'
         /\ Streaming => Streaming'
<1>1. /\ UNCHANGED <<ring, armed, tries, pc, call, timeout, running, messages, vcpu,
                     cursor, stream>>
  BY DEF Client, ClientReads, ClientCloses, guestVars, msgVars, loopVars
<1>2. chan \in [Rings -> Channel] /\ Window \in Nat \ {0}
  BY WorkerAssumption DEF Inv, Typed
<1>3. /\ chan'[r].connected = chan[r].connected /\ chan'[r].pipe = chan[r].pipe
      /\ Heard(chan[r]) => Heard(chan'[r])
      /\ \A q \in Rings \ {r} : chan'[q] = chan[q]
  <2>1. CASE ClientReads(r)
    <3>1. PICK n, k, a : /\ chan' = [chan EXCEPT ![r].sock = n, ![r].seen = k, ![r].acks = a]
                         /\ n = chan[r].sock - 1 /\ chan[r].sock > 0
                         /\ \/ k = 0 /\ a = chan[r].acks + 1
                            \/ k = chan[r].seen + 1 /\ a = chan[r].acks
      BY <2>1 DEF ClientReads
    <3>2. /\ chan[r].sock \in Nat /\ chan[r].seen \in Nat /\ chan[r].acks \in Nat
          /\ chan[r] \in Channel
      BY <1>2, Sizes DEF Channel
    <3>3. PICK c : c = [chan[r] EXCEPT !.sock = n, !.seen = k, !.acks = a]
      OBVIOUS
    <3>4. /\ chan'[r] = c /\ \A q \in Rings \ {r} : chan'[q] = chan[q]
      BY <1>2, <3>1, <3>3
    <3>5. /\ c.sock = n /\ c.seen = k /\ c.acks = a /\ c.connected = chan[r].connected
          /\ c.blocked = chan[r].blocked /\ c.gone = chan[r].gone /\ c.pipe = chan[r].pipe
      BY <3>2, <3>3 DEF Channel
    <3>6. chan[r].acks > 0 \/ chan[r].sock + chan[r].seen >= Window =>
            c.acks > 0 \/ c.sock + c.seen >= Window
      BY <1>2, <3>1, <3>2, <3>5
    <3> QED BY <3>4, <3>5, <3>6 DEF Heard
  <2>2. CASE ClientCloses(r)
    BY <1>2, <2>2 DEF ClientCloses, Channel, Heard
  <2> QED BY <2>1, <2>2 DEF Client
<1>4. \A q \in Rings :
        /\ PipeFull(q) => PipeFull(q)'
        /\ Heard(chan[q]) => Heard(chan'[q])
        /\ chan'[q].connected = chan[q].connected
  BY <1>1, <1>3 DEF PipeFull
<1>5. Signalled => Signalled'
  BY <1>1 DEF Signalled
<1>6. Streaming => Streaming'
  BY <1>1, <1>4 DEF Streaming, Rings
<1> QED BY <1>1, <1>4, <1>5, <1>6

LEMMA ClientAwake ==
  ASSUME Inv, Awake, NEW r \in Rings, Client(r)
  PROVE  Awake'
<1>1. running' => \A q \in Rings : Covered(q)'
  BY ClientKeeps, CoveredKept DEF Awake
<1> QED BY <1>1, ClientKeeps DEF Awake, Counted, Watched, Rings

\* Nor does a processor: a push into a ring that asked for it notifies, and a notification
\* is suppressed only because another is there.
LEMMA GuestKeeps ==
  ASSUME Inv, Counted, NEW v \in Vcpus, Guest(v)
  PROVE  /\ UNCHANGED <<pc, call, timeout, tries, running, chan, cursor, stream>>
         /\ ring' \in [Rings -> Nat] /\ armed' \in [Rings -> BOOLEAN]
         /\ Signalled => Signalled'
         /\ \A q \in Rings :
               /\ ring[q] = 0 /\ armed[q] => (ring'[q] = 0 /\ armed'[q]) \/ Signalled'
               /\ ring'[q] > 0 \/ (ring'[q] = ring[q] /\ armed'[q] = armed[q])
<1>1. UNCHANGED <<pc, call, timeout, tries, running, chan, cursor, stream>>
  BY DEF Guest, Io, Work, TestPending, SetPending, Notify, Request, OutOfMemory,
         PushCommand, loopVars, chanVars
<1> USE DEF Doing
<1>2. vcpu \in [Vcpus -> Doings]
  BY DEF Inv, Typed
<1>3. CASE \E r \in Rings : PushCommand(v, r)
  <2>1. PICK r \in Rings : PushCommand(v, r)
    BY <1>3
  <2>2. /\ ring' = [ring EXCEPT ![r] = @ + 1] /\ armed' = [armed EXCEPT ![r] = FALSE]
        /\ vcpu[v] = Guesting /\ messages' = messages
        /\ vcpu' = [vcpu EXCEPT ![v] = IF armed[r] THEN Doing("test", "wakeup") ELSE @]
        /\ ring \in [Rings -> Nat] /\ armed \in [Rings -> BOOLEAN]
    BY <2>1 DEF PushCommand, msgVars, Counted
  <2>3. /\ ring' \in [Rings -> Nat] /\ armed' \in [Rings -> BOOLEAN]
        /\ ring'[r] > 0
        /\ \A q \in Rings \ {r} : ring'[q] = ring[q] /\ armed'[q] = armed[q]
    BY <2>2
  <2>4. (Signalled => Signalled') /\ (armed[r] => Signalled')
    BY <1>2, <2>2 DEF Signalled, Guesting
  <2>5. \A q \in Rings : ring[q] = 0 /\ armed[q] => (ring'[q] = 0 /\ armed'[q]) \/ Signalled'
    BY <2>3, <2>4
  <2> QED BY <1>1, <2>3, <2>4, <2>5
<1>4. CASE ~\E r \in Rings : PushCommand(v, r)
  <2>1. UNCHANGED <<ring, armed>>
    BY <1>4 DEF Guest, Io, Work, TestPending, SetPending, Notify, Request, OutOfMemory
  <2>2. Signalled => Signalled'
    <3>1. CASE messages' # <<>>
      BY <3>1 DEF Signalled
    <3>2. CASE UNCHANGED messages /\ \E p \in {"wakeup", "oom"} : SetPending(v, p)
      BY <1>2, <3>2 DEF SetPending, Signalled
    <3>3. CASE UNCHANGED messages /\ \E p \in {"wakeup", "oom"} : TestPending(v, p)
      <4>1. PICK p \in {"wakeup", "oom"} : TestPending(v, p)
        BY <3>3
      <4>2. CASE p = "wakeup" /\ p \in pending
        <5>1. \/ \E i \in 1 .. Len(messages) : messages[i] = p
              \/ \E w \in Vcpus : vcpu[w] = Doing("send", p)
          BY <4>2 DEF Inv, PendingMeansMessage
        <5>2. CASE \E i \in 1 .. Len(messages) : messages[i] = p
          <6>1. messages # <<>>
            BY <5>2, EmptySeq
          <6> QED BY <3>3, <6>1 DEF Signalled
        <5>3. CASE \E w \in Vcpus : vcpu[w] = Doing("send", p)
          <6>1. PICK w \in Vcpus : vcpu[w] = Doing("send", p)
            BY <5>3
          <6>2. w # v /\ vcpu'[w] = vcpu[w]
            BY <1>2, <4>1, <6>1 DEF TestPending
          <6> QED BY <4>2, <6>1, <6>2 DEF Signalled
        <5> QED BY <5>1, <5>2, <5>3
      <4>3. CASE p = "wakeup" /\ p \notin pending
        BY <1>2, <3>3, <4>1, <4>3 DEF TestPending, Signalled
      <4>4. CASE p = "oom"
        <5>1. \A w \in Vcpus : vcpu[w].bit = "wakeup" => vcpu'[w] = vcpu[w]
          BY <1>2, <4>1, <4>4 DEF TestPending
        <5> QED BY <3>3, <5>1 DEF Signalled
      <4> QED BY <4>2, <4>3, <4>4
    <3>4. CASE UNCHANGED messages /\ OutOfMemory(v)
      <4>1. \A w \in Vcpus : vcpu[w].bit = "wakeup" => vcpu'[w] = vcpu[w]
        BY <1>2, <3>4 DEF OutOfMemory, Guesting
      <4> QED BY <3>4, <4>1 DEF Signalled
    <3>5. \/ messages' # <<>>
          \/ UNCHANGED messages /\ (OutOfMemory(v)
                \/ \E p \in {"wakeup", "oom"} : SetPending(v, p) \/ TestPending(v, p))
      <4>1. \A m \in Messages : SendMessage(m) => messages' # <<>>
        <5>1. messages \in Seq(Messages)
          BY DEF Inv, Typed
        <5> QED BY <5>1, Appended, EmptySeq DEF SendMessage
      <4>2. (\E p \in {"wakeup", "oom", "update", "flush"} : SendMessage(p))
            \/ OutOfMemory(v) \/ \E p \in {"wakeup", "oom"} : SetPending(v, p) \/ TestPending(v, p)
        BY <1>4 DEF Guest, Io, Work, Notify, Request
      <4>3. UNCHANGED messages \/ \E p \in {"wakeup", "oom", "update", "flush"} : SendMessage(p)
        BY <4>2 DEF OutOfMemory, SetPending, TestPending, msgVars
      <4> QED BY <4>1, <4>2, <4>3 DEF Messages
    <3> QED BY <3>1, <3>2, <3>3, <3>4, <3>5
  <2> QED BY <1>1, <2>1, <2>2 DEF Counted
<1> QED BY <1>3, <1>4

LEMMA GuestAwake ==
  ASSUME Inv, Awake, NEW v \in Vcpus, Guest(v)
  PROVE  Awake'
<1>1. /\ UNCHANGED <<pc, call, timeout, tries, running, chan, cursor, stream>>
      /\ ring' \in [Rings -> Nat] /\ armed' \in [Rings -> BOOLEAN]
      /\ Signalled => Signalled'
      /\ \A q \in Rings :
            /\ ring[q] = 0 /\ armed[q] => (ring'[q] = 0 /\ armed'[q]) \/ Signalled'
            /\ ring'[q] > 0 \/ (ring'[q] = ring[q] /\ armed'[q] = armed[q])
  BY GuestKeeps DEF Awake
<1>2. running' => \A q \in Rings : Covered(q)'
  BY <1>1, CoveredKept DEF Awake, PipeFull, Streaming
<1>3. \A q \in Rings : Watched(q)'
  BY <1>1 DEF Awake, Watched
<1> QED BY <1>1, <1>2, <1>3 DEF Awake, Counted

LEMMA MachineAwake ==
  ASSUME Inv, Awake, StopVm \/ StartVm
  PROVE  Awake'
<1>1. UNCHANGED <<ring, armed, pc, call, timeout, tries, running, chan, cursor, stream>>
  BY DEF StopVm, StartVm, loopVars, chanVars
<1>2. messages' # <<>>
  <2>1. messages \in Seq(Messages)
    BY DEF Inv, Typed
  <2> QED BY <2>1, Appended, EmptySeq DEF StopVm, StartVm, SendMessage, Messages
<1>3. running' => \A q \in Rings : Covered(q)'
  BY <1>2 DEF Covered, Signalled
<1> QED BY <1>1, <1>3 DEF Awake, Counted, Watched

-----------------------------------------------------------------------------
(* The worker.                                                             *)

\* A step after which the worker has yet to come to every ring.
LEMMA AheadAwake ==
  ASSUME Awake, UNCHANGED <<ring, armed, tries>>,
         pc' \in {"events", "messages", "process", "push", "wait", "stop", "crashed"},
         running' => \A r \in Rings : Ahead(r)',
         ~cursor' => ~chan'["cursor"].connected,
         pc' \in {"stop", "crashed"} => ~running'
  PROVE  Awake'
BY DEF Awake, Counted, Watched, Covered

\* A closed channel is not opened.
LEMMA StaysClosed ==
  ASSUME Inv, Awake, NEW r \in Rings, NEW c,
         c = Dropped \/ c \in Push(r, chan[r]) \/ c \in Serve(r, chan[r]),
         chan' = [chan EXCEPT ![r] = c], cursor' = cursor
  PROVE  ~cursor' => ~chan'["cursor"].connected
<1>1. chan \in [Rings -> Channel] /\ chan[r] \in Channel
  BY DEF Inv, Typed
<1>2. ~chan[r].connected => ~c.connected
  BY <1>1, Unconnected, DroppedIsHeard
<1> QED BY <1>1, <1>2 DEF Awake

LEMMA LoopAwake ==
  ASSUME Inv, Awake,
         Poll \/ HandleDispatcher \/ MessagesDone \/ EventsDone
         \/ \E r \in Rings : HandleChannel(r)
  PROVE  Awake'
<1>1. UNCHANGED <<ring, armed, tries, running, cursor>>
  BY DEF Poll, HandleDispatcher, MessagesDone, EventsDone, HandleChannel, guestVars, chanVars
<1>2. CASE Poll \/ HandleDispatcher \/ MessagesDone
  <2>1. pc' \in {"events", "messages"} /\ chan' = chan
    BY <1>2 DEF Poll, HandleDispatcher, MessagesDone, chanVars
  <2> QED BY <1>1, <2>1, AheadAwake DEF Ahead, Awake
<1>3. CASE EventsDone
  <2>1. chan' = chan /\ (running => Process("cursor", "loop")) /\ (~running => pc' = "push")
    BY <1>3 DEF EventsDone, chanVars
  <2>2. running => \A r \in Rings : Ahead(r)'
    BY <2>1 DEF Process, Ahead, Processing, Rings
  <2>3. pc' \in {"process", "push"}
    BY <2>1 DEF Process
  <2> QED BY <1>1, <2>1, <2>2, <2>3, AheadAwake DEF Awake
<1>4. CASE \E r \in Rings : HandleChannel(r)
  <2>1. PICK r \in Rings : \E c \in Serve(r, chan[r]) : chan' = [chan EXCEPT ![r] = c]
    BY <1>4 DEF HandleChannel
  <2>2. pc' = "events"
    BY <1>4 DEF HandleChannel
  <2>3. ~cursor' => ~chan'["cursor"].connected
    BY <1>1, <2>1, StaysClosed
  <2> QED BY <1>1, <2>2, <2>3, AheadAwake DEF Ahead
<1> QED BY <1>2, <1>3, <1>4

LEMMA HandlerAwake ==
  ASSUME Inv, Awake, Handler
  PROVE  Awake'
<1>1. UNCHANGED <<ring, armed, tries>>
  BY DEF Handler, HandleWakeup, HandleOom, ReturnOom, HandleFlush, ReturnFlush, FlushWait,
         FlushTimeout, HandleStop, StopWait, StopTimeout, StopSent, HandleStart, guestVars,
         loopVars
<1>2. call.ring \in Rings
  BY DEF Inv, Typed, Call
<1>3. CASE HandleWakeup \/ HandleOom \/ HandleStart \/ HandleStop
           \/ \E m \in {"update", "flush"} : HandleFlush(m)
  <2>1. UNCHANGED <<chan, cursor>> /\ pc = "messages"
    BY <1>3 DEF HandleWakeup, HandleOom, HandleStart, HandleStop, HandleFlush, Receive,
                chanVars
  <2>2. \/ pc' = "messages"
        \/ pc' = "process" /\ call'.from # "loop"
        \/ pc' = "stop" /\ ~running'
    BY <1>3, <2>1 DEF HandleWakeup, HandleOom, HandleStart, HandleStop, HandleFlush,
                Process, loopVars
  <2> QED BY <1>1, <2>1, <2>2, AheadAwake DEF Ahead, Processing, Awake
<1>4. CASE ReturnOom
  <2>1. UNCHANGED <<running, cursor>>
    BY <1>4 DEF ReturnOom
  <2>2. chan' = chan \/ \E c \in Push("display", chan["display"]) :
                            chan' = [chan EXCEPT !["display"] = c]
    BY <1>4 DEF ReturnOom
  <2>3. pc' = "messages" \/ (pc' = "process" /\ call'.from # "loop")
    BY <1>4 DEF ReturnOom, Process
  <2>4. ~cursor' => ~chan'["cursor"].connected
    BY <2>1, <2>2, StaysClosed DEF Awake, Rings
  <2> QED BY <1>1, <2>3, <2>4, AheadAwake DEF Ahead, Processing
<1>5. CASE ReturnFlush
  <2>1. UNCHANGED <<running, cursor>>
    BY <1>5 DEF ReturnFlush
  <2>2. chan' = chan \/ \E c \in Push(call.ring, chan[call.ring]) :
                            chan' = [chan EXCEPT ![call.ring] = c]
    BY <1>5 DEF ReturnFlush
  <2>3. pc' \in {"messages", "wait"} \/ (pc' = "process" /\ call'.from # "loop")
    BY <1>5 DEF ReturnFlush, FlushDone, Process
  <2>4. ~cursor' => ~chan'["cursor"].connected
    BY <1>2, <2>1, <2>2, StaysClosed DEF Awake
  <2> QED BY <1>1, <2>3, <2>4, AheadAwake DEF Ahead, Processing
<1>6. CASE FlushWait
  <2>1. UNCHANGED <<running, cursor>>
    BY <1>6 DEF FlushWait
  <2>2. PICK c \in Serve(call.ring, chan[call.ring]) :
            /\ chan' = [chan EXCEPT ![call.ring] = c]
            /\ pc' = "wait" \/ Process(call.ring, "first")
    BY <1>6 DEF FlushWait
  <2>3. pc' = "wait" \/ (pc' = "process" /\ call'.from # "loop")
    BY <2>2 DEF Process
  <2>4. ~cursor' => ~chan'["cursor"].connected
    BY <1>2, <2>1, <2>2, StaysClosed
  <2> QED BY <1>1, <2>3, <2>4, AheadAwake DEF Ahead, Processing
<1>7. CASE FlushTimeout
  <2>1. /\ chan' = [chan EXCEPT ![call.ring] = Dropped] /\ pc' = "wait"
        /\ cursor' = (cursor /\ call.ring # "cursor") /\ running' = running
    BY <1>7 DEF FlushTimeout, loopVars
  <2>2. ~cursor' => ~chan'["cursor"].connected
    <3>1. chan \in [Rings -> Channel] /\ "cursor" \in Rings
      BY DEF Inv, Typed, Rings
    <3> QED BY <1>2, <2>1, <3>1, DroppedIsHeard DEF Awake
  <2> QED BY <1>1, <2>1, <2>2, AheadAwake DEF Ahead
<1>8. CASE StopWait \/ StopTimeout
  <2>1. /\ UNCHANGED <<running, cursor, pc>> /\ pc = "stop" /\ ~running
    BY <1>8 DEF StopWait, StopTimeout, loopVars, Awake
  <2>2. PICK c : /\ c = Dropped \/ c \in Serve(call.ring, chan[call.ring])
                 /\ chan' = [chan EXCEPT ![call.ring] = c]
    BY <1>8 DEF StopWait, StopTimeout
  <2>3. ~cursor' => ~chan'["cursor"].connected
    BY <1>2, <2>1, <2>2, StaysClosed
  <2> QED BY <1>1, <2>1, <2>3, AheadAwake
<1>9. CASE StopSent
  <2>1. UNCHANGED <<running, chan, cursor>> /\ pc = "stop" /\ ~running
    BY <1>9 DEF StopSent, chanVars, Awake
  <2>2. pc' \in {"stop", "crashed", "messages"}
    BY <1>9 DEF StopSent
  <2> QED BY <1>1, <2>1, <2>2, AheadAwake DEF Awake
<1> QED BY <1>3, <1>4, <1>5, <1>6, <1>7, <1>8, <1>9 DEF Handler

\* The ring that the call is not about.
LEMMA OtherRing ==
  ASSUME NEW r \in Rings, Covered(r), Processing, Processing',
         r # call.ring, UNCHANGED <<vcpu, messages>>,
         call'.from = call.from, call'.ring = call.ring,
         ring'[r] = ring[r], armed'[r] = armed[r], chan'[r] = chan[r],
         timeout # "inf" => timeout' # "inf"
  PROVE  Covered(r)'
<1>1. Signalled => Signalled'
  BY DEF Signalled
<1>2. Ahead(r) => Ahead(r)'
  BY DEF Ahead, Processing
<1>3. pc # "poll" /\ pc' # "poll" /\ (PipeFull(r) => PipeFull(r)')
  BY DEF Processing, PipeFull
<1> QED BY <1>1, <1>2, <1>3 DEF Covered

\* A step of a call: what covers its ring is to be shown for a call of the loop.
LEMMA CallAwake ==
  ASSUME Inv, Awake, Processing, Processing', UNCHANGED <<vcpu, messages, running, cursor>>,
         call'.from = call.from, call'.ring = call.ring, Counted',
         \A r \in Rings \ {call.ring} :
            ring'[r] = ring[r] /\ armed'[r] = armed[r] /\ tries'[r] = tries[r]
            /\ chan'[r] = chan[r],
         chan'[call.ring].connected = chan[call.ring].connected,
         timeout # "inf" => timeout' # "inf",
         Watched(call.ring)',
         running => call.from # "loop" \/ Covered(call.ring)'
  PROVE  Awake'
<1>1. call.ring \in Rings
  BY DEF Inv, Typed, Call
<1>2. ASSUME NEW r \in Rings, running
      PROVE  Covered(r)'
  <2>1. CASE r # call.ring
    BY <1>2, <2>1, OtherRing DEF Awake
  <2>2. CASE call.from # "loop"
    BY <2>2 DEF Covered, Ahead
  <2> QED BY <1>2, <2>1, <2>2
<1>3. \A r \in Rings : Watched(r)'
  BY DEF Awake, Watched
<1>4. ~cursor' => ~chan'["cursor"].connected
  BY <1>1 DEF Awake, Rings
<1> QED BY <1>2, <1>3, <1>4 DEF Awake, Processing

LEMMA TakeAwake ==
  ASSUME Inv, Awake, TakeNone \/ TakeCommand \/ TakeEmpty \/ AskNotification
  PROVE  Awake'
<1>1. /\ UNCHANGED <<vcpu, messages, running, cursor>> /\ Processing /\ Processing'
      /\ call'.from = call.from /\ call'.ring = call.ring
  <2>1. call \in Call
    BY DEF Inv, Typed
  <2> QED BY <2>1 DEF TakeNone, TakeCommand, TakeEmpty, AskNotification, MayTake, Call,
                      Processing, guestVars, msgVars, chanVars
<1>2. call.ring \in Rings /\ chan \in [Rings -> Channel] /\ Retries \in Nat
  BY WorkerAssumption DEF Inv, Typed, Call
<1>3. /\ ring \in [Rings -> Nat] /\ armed \in [Rings -> BOOLEAN] /\ tries \in [Rings -> Nat]
  BY DEF Awake, Counted
<1>4. CASE TakeNone
  <2>1. UNCHANGED <<ring, armed, tries, chan, timeout>> /\ (running => PipeFull(call.ring))
    BY <1>4 DEF TakeNone, guestVars, chanVars
  <2>2. running => Covered(call.ring)'
    BY <1>1, <2>1 DEF Covered, PipeFull, Processing
  <2> QED BY <1>1, <1>2, <2>1, <2>2, CallAwake DEF Awake, Counted, Watched, Processing
<1>5. CASE TakeCommand
  <2>1. /\ ring' = [ring EXCEPT ![call.ring] = @ - 1] /\ ring[call.ring] > 0
        /\ tries' = [tries EXCEPT ![call.ring] = 0] /\ armed' = armed
        /\ pc' = "process" \/ timeout' = "zero"
        /\ timeout # "inf" => timeout' # "inf"
    BY <1>5 DEF TakeCommand
  <2>2. PICK n \in {0, 1} : chan' = [chan EXCEPT ![call.ring].pipe = @ + n]
    BY <1>5 DEF TakeCommand
  <2>3. /\ chan'[call.ring].connected = chan[call.ring].connected
        /\ \A r \in Rings \ {call.ring} : chan'[r] = chan[r]
    BY <1>2, <2>2 DEF Channel
  <2>4. Counted'
    BY <1>1, <1>2, <1>3, <2>1 DEF Counted, Processing
  <2>5. Watched(call.ring)'
    BY <1>1, <1>2, <1>3, <2>1 DEF Watched
  <2>6. call.from # "loop" \/ Covered(call.ring)'
    BY <1>1, <2>1 DEF Covered, Ahead
  <2> QED BY <1>1, <1>2, <1>3, <2>1, <2>3, <2>4, <2>5, <2>6, CallAwake
<1>6. CASE TakeEmpty
  <2>1. /\ UNCHANGED <<ring, armed, chan>> /\ ring[call.ring] = 0
        /\ timeout # "inf" => timeout' # "inf"
    BY <1>6 DEF TakeEmpty, guestVars, chanVars
  <2>2. \/ /\ tries[call.ring] < Retries
           /\ tries' = [tries EXCEPT ![call.ring] = @ + 1] /\ timeout' # "inf"
        \/ tries[call.ring] > Retries /\ tries' = tries
        \/ pc' = "request" /\ tries[call.ring] = Retries /\ tries' = tries
    BY <1>6 DEF TakeEmpty
  <2>3. Counted'
    BY <1>1, <1>2, <1>3, <2>1, <2>2 DEF Counted, Processing
  <2>4. Watched(call.ring)
    BY <1>2 DEF Awake
  <2>5. Watched(call.ring)'
    BY <1>1, <1>2, <1>3, <2>1, <2>2, <2>4 DEF Watched
  <2>6. call.from # "loop" \/ Covered(call.ring)'
    BY <1>1, <2>1, <2>2, <2>4 DEF Covered, Ahead, Watched
  <2>7. \A r \in Rings \ {call.ring} : tries'[r] = tries[r]
    BY <1>3, <2>2
  <2> QED BY <1>1, <1>2, <2>1, <2>3, <2>5, <2>6, <2>7, CallAwake
<1>7. CASE AskNotification
  <2>1. /\ UNCHANGED <<ring, chan, timeout>> /\ armed' = [armed EXCEPT ![call.ring] = TRUE]
        /\ \/ /\ ring[call.ring] = 0 /\ tries' = [tries EXCEPT ![call.ring] = @ + 1]
           \/ pc' = "process" /\ tries' = tries
    BY <1>7 DEF AskNotification, chanVars
  <2>2. Counted'
    BY <1>1, <1>2, <1>3, <2>1 DEF Counted, Processing
  <2>3. armed'[call.ring]
    BY <1>2, <1>3, <2>1
  <2>4. Watched(call.ring)'
    BY <1>1, <2>3 DEF Watched
  <2>5. call.from # "loop" \/ Covered(call.ring)'
    BY <1>1, <2>1, <2>3 DEF Covered, Ahead
  <2>6. \A r \in Rings \ {call.ring} : tries'[r] = tries[r] /\ armed'[r] = armed[r]
    BY <1>3, <2>1
  <2> QED BY <1>1, <1>2, <2>1, <2>2, <2>4, <2>5, <2>6, CallAwake
<1> QED BY <1>4, <1>5, <1>6, <1>7

LEMMA ReturnLoopAwake ==
  ASSUME Inv, Awake, ReturnLoop
  PROVE  Awake'
<1>1. /\ UNCHANGED <<ring, armed, tries, vcpu, messages, running, timeout, chan, cursor>>
      /\ pc = "returned" /\ call.from = "loop" /\ call.ring \in Rings
  BY DEF ReturnLoop, guestVars, msgVars, chanVars, Inv, Typed, Call
<1>2. \/ call.ring = "cursor" /\ Process("display", "loop")
      \/ call.ring = "display" /\ pc' = "push"
  BY <1>1 DEF ReturnLoop, Rings
<1>3. ASSUME NEW r \in Rings, running
      PROVE  Covered(r)'
  <2>1. CASE r = "display" /\ call.ring = "cursor"
    BY <1>2, <2>1 DEF Covered, Ahead, Processing, Process
  <2>2. CASE ~(r = "display" /\ call.ring = "cursor")
    <3>1. ~Ahead(r)
      BY <1>1, <2>2 DEF Ahead, Processing, Rings
    <3>2. (ring[r] = 0 /\ armed[r]) \/ Signalled \/ timeout # "inf" \/ PipeFull(r)
      BY <1>1, <1>3, <3>1 DEF Awake, Covered
    <3>3. pc' # "poll"
      BY <1>2 DEF Process
    <3> QED BY <1>1, <3>2, <3>3 DEF Covered, Signalled, PipeFull
  <2> QED BY <2>1, <2>2
<1>4. pc' \in {"process", "push"}
  BY <1>2 DEF Process
<1> QED BY <1>1, <1>3, <1>4 DEF Awake, Counted, Watched

\* The worker goes to sleep only after this step.
LEMMA PushAllAwake ==
  ASSUME Inv, Awake, PushAll
  PROVE  Awake'
<1>1. /\ UNCHANGED <<ring, armed, tries, vcpu, messages, running, timeout, cursor, stream>>
      /\ pc = "push" /\ pc' = "poll"
  BY DEF PushAll, guestVars, msgVars
<1>2. PICK c \in Push("cursor", chan["cursor"]), d \in Push("display", chan["display"]) :
        chan' = [chan EXCEPT !["cursor"] = IF cursor THEN c ELSE @, !["display"] = d]
  BY DEF PushAll
<1>3. chan \in [Rings -> Channel] /\ chan["cursor"] \in Channel /\ chan["display"] \in Channel
  BY DEF Inv, Typed, Rings
<1>4. /\ chan'["cursor"] = IF cursor THEN c ELSE chan["cursor"]
      /\ chan'["display"] = d
  BY <1>2, <1>3 DEF Rings
<1>5. ~cursor => ~chan["cursor"].connected
  BY DEF Awake
<1>6. ASSUME NEW r \in Rings, PipeFull(r)
      PROVE  Heard(chan'[r]) \/ Streaming'
  <2>1. chan[r] \in Channel /\ chan[r].connected /\ chan[r].pipe > PipeMax
    BY <1>3, <1>6 DEF PipeFull
  <2>2. chan'[r] \in Push(r, chan[r])
    BY <1>4, <1>5, <2>1 DEF Rings
  <2>3. Heard(chan'[r]) \/ (Drops(r) /\ chan'[r].connected)
    BY <2>1, <2>2, FullPipePushed
  <2> QED BY <1>1, <2>3 DEF Drops, Streaming
<1>7. ASSUME NEW r \in Rings, running
      PROVE  Covered(r)'
  <2>1. ~Ahead(r)
    BY <1>1 DEF Ahead, Processing
  <2>2. (ring[r] = 0 /\ armed[r]) \/ Signalled \/ timeout # "inf" \/ PipeFull(r)
    BY <1>1, <1>7, <2>1 DEF Awake, Covered
  <2> QED BY <1>1, <1>6, <2>2 DEF Covered, Signalled
<1>8. ~cursor' => ~chan'["cursor"].connected
  BY <1>1, <1>4, <1>5
<1> QED BY <1>1, <1>7, <1>8 DEF Awake, Counted, Watched

-----------------------------------------------------------------------------
(* The theorem.                                                            *)

LEMMA InitAwake == ASSUME Init PROVE Awake
<1>1. /\ ring = [r \in Rings |-> 0] /\ armed = [r \in Rings |-> TRUE]
      /\ tries = [r \in Rings |-> 0] /\ pc = "poll" /\ cursor
  BY DEF Init
<1>2. Retries \in Nat
  BY WorkerAssumption
<1> QED BY <1>1, <1>2 DEF Awake, Counted, Watched, Covered

LEMMA NextAwake == ASSUME Inv, Awake, [Next]_vars PROVE Awake'
<1>1. CASE Worker
  BY <1>1, LoopAwake, PushAllAwake, TakeAwake, ReturnLoopAwake, HandlerAwake DEF Worker
<1>2. CASE StopVm \/ StartVm
  BY <1>2, MachineAwake
<1>3. CASE \E v \in Vcpus : Guest(v)
  BY <1>3, GuestAwake
<1>4. CASE \E r \in Rings : Client(r)
  BY <1>4, ClientAwake
<1>5. CASE UNCHANGED vars
  <2>1. UNCHANGED <<ring, armed, tries, vcpu, messages, running, timeout, pc, call, chan,
                    cursor, stream>>
    BY <1>5 DEF vars, guestVars, msgVars, loopVars, chanVars
  <2>2. \A r \in Rings : (Covered(r) => Covered(r)') /\ (Watched(r) => Watched(r)')
    BY <2>1 DEF Covered, Watched, Signalled, Ahead, Processing, PipeFull, Streaming
  <2> QED BY <2>1, <2>2 DEF Awake, Counted
<1> QED BY <1>1, <1>2, <1>3, <1>4, <1>5 DEF Next

\* A step that leaves the worker where it is, and takes no reason to wake away.
LEMMA NotForgotten ==
  ASSUME NEW r \in Rings, UNCHANGED <<pc, timeout, running>>,
         Signalled => Signalled',
         ring[r] = 0 /\ armed[r] => (ring'[r] = 0 /\ armed'[r]) \/ Signalled',
         AckComing(r) => AckComing(r)', Streaming => Streaming',
         Forgotten(r)', ring[r] \in Nat
  PROVE  Forgotten(r)
<1>1. Notified => Notified'
  BY DEF Notified, Signalled
<1>2. Signalled' => Notified'
  BY DEF Notified, Signalled
<1> QED BY <1>1, <1>2 DEF Forgotten, Asleep

\* The worker comes to poll by red_push alone.
LEMMA OnlyPushPolls ==
  ASSUME Inv, Worker, pc' = "poll"
  PROVE  PushAll
<1>1. ~(Poll \/ HandleDispatcher \/ MessagesDone \/ EventsDone \/ \E r \in Rings : HandleChannel(r))
  BY DEF Poll, HandleDispatcher, MessagesDone, EventsDone, HandleChannel, Process
<1>2. ~(TakeNone \/ TakeCommand \/ TakeEmpty \/ AskNotification \/ ReturnLoop)
  BY DEF TakeNone, TakeCommand, TakeEmpty, AskNotification, ReturnLoop, Process
<1>3. ~Handler
  BY DEF Handler, HandleWakeup, HandleOom, ReturnOom, HandleFlush, ReturnFlush, FlushWait,
         FlushTimeout, HandleStop, StopWait, StopTimeout, StopSent, HandleStart, FlushDone,
         Process, Receive, loopVars
<1> QED BY <1>1, <1>2, <1>3 DEF Worker

LEMMA PushForgets ==
  ASSUME Inv, Awake, Awake', PushAll, NEW r \in Rings, Forgotten(r)'
  PROVE  pc = "push" /\ PipeFull(r) /\ ~chan'[r].connected
<1>1. /\ UNCHANGED <<ring, armed, vcpu, messages, running, timeout>>
      /\ pc = "push" /\ pc' = "poll"
  BY DEF PushAll, guestVars, msgVars
<1>2. /\ running /\ timeout = "inf" /\ ~Signalled /\ ~(ring[r] = 0 /\ armed[r])
      /\ ~Signalled' /\ ~Streaming'
  BY <1>1 DEF Forgotten, Asleep, Notified, Signalled
<1>3. PipeFull(r)
  BY <1>1, <1>2 DEF Awake, Covered, Ahead, Processing
<1>4. Heard(chan'[r])
  BY <1>1, <1>2 DEF Awake, Covered, Ahead, Processing
<1>5. ~chan'[r].connected
  BY <1>4 DEF Forgotten, AckComing, Heard
<1> QED BY <1>1, <1>3, <1>5

LEMMA NextForgets ==
  ASSUME Inv, Awake, Awake', Next, NEW r \in Rings, Forgotten(r)'
  PROVE  Forgotten(r) \/ (pc = "push" /\ PipeFull(r) /\ ~chan'[r].connected)
<1>1. CASE Worker
  <2>1. PushAll
    BY <1>1, OnlyPushPolls DEF Forgotten, Asleep
  <2> QED BY <2>1, PushForgets
<1>2. CASE StopVm \/ StartVm
  <2>1. messages' # <<>>
    <3>1. messages \in Seq(Messages)
      BY DEF Inv, Typed
    <3> QED BY <1>2, <3>1, Appended, EmptySeq DEF StopVm, StartVm, SendMessage, Messages
  <2> QED BY <2>1 DEF Forgotten, Notified
<1>3. ring[r] \in Nat
  BY DEF Awake, Counted
<1>4. CASE \E v \in Vcpus : Guest(v)
  <2>1. PICK v \in Vcpus : Guest(v)
    BY <1>4
  <2>2. /\ UNCHANGED <<pc, timeout, running, chan, stream>>
        /\ Signalled => Signalled'
        /\ ring[r] = 0 /\ armed[r] => (ring'[r] = 0 /\ armed'[r]) \/ Signalled'
    BY <2>1, GuestKeeps DEF Awake
  <2>3. (AckComing(r) => AckComing(r)') /\ (Streaming => Streaming')
    BY <2>2 DEF AckComing, Streaming
  <2> QED BY <1>3, <2>2, <2>3, NotForgotten
<1>5. CASE \E q \in Rings : Client(q)
  <2>1. PICK q \in Rings : Client(q)
    BY <1>5
  <2>2. /\ UNCHANGED <<pc, timeout, running, ring, armed>>
        /\ (Signalled => Signalled') /\ (Streaming => Streaming')
        /\ Heard(chan[r]) => Heard(chan'[r])
        /\ chan'[r].connected = chan[r].connected
    BY <2>1, ClientKeeps
  <2>3. AckComing(r) => AckComing(r)'
    BY <2>2 DEF AckComing, Heard
  <2> QED BY <1>3, <2>2, <2>3, NotForgotten
<1> QED BY <1>1, <1>2, <1>4, <1>5 DEF Next

\* The worker of a running machine does not come to sleep over a ring, unless a notification
\* is on its way for it, or the client of the full pipe will be heard of, or red_push has
\* just found that this client's connection failed: red_worker_main "ensure wakeup by ack
\* message", red_dispatcher_set_pending "not atomic but not an issue", and the retries
\* before req_cmd_notification, together.
THEOREM NoCommandLost == Spec => NoLostCommand
<1>1. Init => Inv /\ Awake
  BY InitInv, InitAwake
<1>2. Inv /\ Awake /\ [Next]_vars => Inv' /\ Awake'
  BY NextInv, NextAwake
<1>3. Inv /\ Awake /\ Awake' /\ [Next]_vars =>
        [\A r \in Rings : Forgotten(r)' =>
            Forgotten(r) \/ (pc = "push" /\ PipeFull(r) /\ ~chan'[r].connected)]_vars
  BY NextForgets
<1> QED BY <1>1, <1>2, <1>3, PTL DEF Spec, NoLostCommand

-----------------------------------------------------------------------------
(***************************************************************************)
(* A flush sees all (FlushComplete): an update, or a flush of both rings,  *)
(* is answered only after every command that was in the rings when it was  *)
(* sent has been processed, for any number of processors, rings and pipes. *)
(*                                                                         *)
(* The commands owed are the oldest of their ring (OwedInRing), so a ring  *)
(* seen empty owes none.  The handler takes its rings one after the other  *)
(* and the worker is the only one to empty them: what has been seen stays  *)
(* seen (Seen), because no other request is sent while one is waited for   *)
(* and the machine is neither stopped nor started in between.              *)
(***************************************************************************)

OwedInRing ==
  /\ ring \in [Rings -> Nat] /\ owed \in [Rings -> Nat]
  /\ \A r \in Rings : owed[r] =< ring[r]

\* The handler of a flush, its rings so far and the one it is at.
Seen ==
  /\ waiting = "update" => owed["cursor"] = 0
  /\ Flushing =>
       /\ job = waiting
       /\ job = "update" => call.ring = "display"
       /\ running /\ call.empty => owed[call.ring] = 0
       /\ running /\ call.ring = "cursor" => owed["display"] = 0

Owing == OwedInRing /\ Seen

-----------------------------------------------------------------------------

LEMMA MaxZero ==
  ASSUME NEW a \in Int
  PROVE  Max({0, a}) \in Nat /\ Max({0, a}) \in {0, a}
<1>1. \E x \in {0, a} : \A y \in {0, a} : x >= y
  <2>1. CASE a >= 0
    BY <2>1
  <2>2. CASE a =< 0
    BY <2>2
  <2> QED BY <2>1, <2>2
<1> QED BY <1>1 DEF Max

\* A step of the processors that asks for nothing, or of a client.
LEMMA OwingKept ==
  ASSUME Owing, UNCHANGED <<owed, waiting, job, call, running, pc>>,
         ring' \in [Rings -> Nat], \A r \in Rings : ring'[r] >= ring[r]
  PROVE  Owing'
<1>1. OwedInRing'
  BY DEF Owing, OwedInRing
<1>2. Seen'
  BY DEF Owing, Seen, Flushing, Processing
<1> QED BY <1>1, <1>2 DEF Owing

\* A step of the worker that leaves the rings alone and is not part of a flush.
LEMMA OtherStep ==
  ASSUME Owing, UNCHANGED <<owed, ring>>, waiting' \in {waiting, "none"}, ~Flushing'
  PROVE  Owing'
BY DEF Owing, OwedInRing, Seen

LEMMA ClientOwing ==
  ASSUME Owing, NEW r \in Rings, Client(r)
  PROVE  Owing'
<1>1. UNCHANGED <<owed, ring, waiting, job, call, running, pc>>
  BY DEF Client, ClientReads, ClientCloses, guestVars, msgVars, loopVars
<1> QED BY <1>1, OwingKept DEF Owing, OwedInRing

\* A synchronous message is sent when none is waited for, so none is handled.
LEMMA NotFlushing ==
  ASSUME Inv, waiting = "none", UNCHANGED <<pc, call>>
  PROVE  ~Flushing'
BY DEF Inv, SyncHandled, Flushing, Processing

LEMMA MachineOwing ==
  ASSUME Inv, Owing, StopVm \/ StartVm
  PROVE  Owing'
<1>1. UNCHANGED <<owed, ring, job, call, running, pc>>
  BY DEF StopVm, StartVm, loopVars
<1>2. CASE StopVm
  <2>1. waiting = "none" /\ waiting' = "stop"
    BY <1>2 DEF StopVm, SendMessage
  <2>2. ~Flushing'
    BY <1>1, <2>1, NotFlushing
  <2> QED BY <1>1, <2>1, <2>2 DEF Owing, OwedInRing, Seen
<1>3. CASE StartVm
  <2>1. waiting' = waiting
    BY <1>3 DEF StartVm
  <2> QED BY <1>1, <2>1, OwingKept DEF Owing, OwedInRing
<1> QED BY <1>2, <1>3

LEMMA GuestOwing ==
  ASSUME Inv, Owing, NEW v \in Vcpus, Guest(v)
  PROVE  Owing'
<1>1. UNCHANGED <<job, call, running, pc>>
  BY DEF Guest, Io, Work, TestPending, SetPending, Notify, Request, OutOfMemory,
         PushCommand, loopVars
<1>2. ring \in [Rings -> Nat]
  BY DEF Owing, OwedInRing
<1>3. CASE \E r \in Rings : PushCommand(v, r)
  <2>1. PICK r \in Rings : ring' = [ring EXCEPT ![r] = @ + 1] /\ UNCHANGED <<owed, waiting>>
    BY <1>3 DEF PushCommand, msgVars
  <2>2. ring' \in [Rings -> Nat] /\ \A q \in Rings : ring'[q] >= ring[q]
    BY <1>2, <2>1
  <2> QED BY <1>1, <2>1, <2>2, OwingKept
<1>4. CASE \E m \in {"update", "flush"} : Request(v, m)
  <2>1. PICK m \in {"update", "flush"} :
          /\ waiting = "none" /\ waiting' = m /\ ring' = ring
          /\ owed' = [r \in Rings |-> IF m = "update" /\ r = "cursor" THEN 0 ELSE ring[r]]
    BY <1>4 DEF Request, SendMessage
  <2>2. ~Flushing'
    BY <1>1, <2>1, NotFlushing
  <2>3. OwedInRing'
    BY <1>2, <2>1 DEF OwedInRing
  <2>4. waiting' = "update" => owed'["cursor"] = 0
    BY <2>1 DEF Rings
  <2> QED BY <2>2, <2>3, <2>4 DEF Owing, Seen
<1>5. CASE OutOfMemory(v) \/ Io(v)
  <2>1. UNCHANGED <<ring, owed, waiting>>
    BY <1>5 DEF Io, TestPending, SetPending, Notify, OutOfMemory, msgVars
  <2> QED BY <1>1, <1>2, <2>1, OwingKept
<1> QED BY <1>3, <1>4, <1>5 DEF Guest, Work

-----------------------------------------------------------------------------
(* The worker.                                                             *)

LEMMA TakeOwing ==
  ASSUME Inv, Owing, TakeNone \/ TakeCommand \/ TakeEmpty \/ AskNotification
  PROVE  Owing'
<1>1. /\ UNCHANGED <<waiting, job, running>> /\ Processing /\ Processing'
      /\ call'.from = call.from /\ call'.ring = call.ring /\ call.ring \in Rings
      /\ pc' # "wait" /\ pc # "wait"
  <2>1. call \in Call
    BY DEF Inv, Typed
  <2> QED BY <2>1 DEF TakeNone, TakeCommand, TakeEmpty, AskNotification, MayTake, Call,
                      Processing, guestVars, msgVars
<1>2. Flushing' = Flushing
  BY <1>1 DEF Flushing
<1>3. /\ OwedInRing'
      /\ \A r \in Rings : owed[r] = 0 => owed'[r] = 0
  <2>1. CASE TakeCommand
    <3>1. /\ ring' = [ring EXCEPT ![call.ring] = @ - 1] /\ ring[call.ring] > 0
          /\ owed' = [owed EXCEPT ![call.ring] = Max({0, @ - 1})]
      BY <2>1 DEF TakeCommand
    <3>2. /\ ring[call.ring] \in Nat /\ owed[call.ring] \in Nat
          /\ owed[call.ring] =< ring[call.ring]
      BY <1>1 DEF Owing, OwedInRing
    <3>3. PICK n \in Nat : n = Max({0, owed[call.ring] - 1})
      <4>1. owed[call.ring] - 1 \in Int
        BY <3>2
      <4>2. Max({0, owed[call.ring] - 1}) \in Nat
        BY <4>1, MaxZero
      <4> QED BY <4>2
    <3>4. n =< ring[call.ring] - 1 /\ (owed[call.ring] = 0 => n = 0)
      <4>1. owed[call.ring] - 1 \in Int
        BY <3>2
      <4>2. n = 0 \/ n = owed[call.ring] - 1
        BY <3>3, <4>1, MaxZero
      <4> QED BY <3>1, <3>2, <3>3, <4>2
    <3>5. owed' = [owed EXCEPT ![call.ring] = n]
      BY <3>1, <3>3
    <3> QED BY <1>1, <3>1, <3>2, <3>4, <3>5 DEF Owing, OwedInRing
  <2>2. CASE ~TakeCommand
    <3>1. UNCHANGED <<ring, owed>>
      BY <2>2 DEF TakeNone, TakeEmpty, AskNotification, guestVars, msgVars
    <3> QED BY <3>1 DEF Owing, OwedInRing
  <2> QED BY <2>1, <2>2
<1>4. running /\ call'.empty => call.empty \/ owed'[call.ring] = 0
  <2>1. CASE TakeEmpty
    <3>1. ring[call.ring] = 0 /\ owed' = owed
      BY <2>1 DEF TakeEmpty, MayTake, msgVars
    <3> QED BY <1>1, <3>1 DEF Owing, OwedInRing
  <2>2. CASE ~TakeEmpty
    <3>1. call \in Call
      BY DEF Inv, Typed
    <3> QED BY <2>2, <3>1 DEF TakeNone, TakeCommand, AskNotification, Call
  <2> QED BY <2>1, <2>2
<1>5. Seen'
  BY <1>1, <1>2, <1>3, <1>4 DEF Owing, Seen, Rings
<1> QED BY <1>3, <1>5 DEF Owing

LEMMA FlushOwing ==
  ASSUME Inv, Owing, (\E m \in {"update", "flush"} : HandleFlush(m)) \/ ReturnFlush
                     \/ FlushWait \/ FlushTimeout
  PROVE  Owing'
<1>1. UNCHANGED <<owed, ring, running>>
  BY DEF HandleFlush, ReturnFlush, FlushWait, FlushTimeout, guestVars, msgVars, loopVars
<1>2. OwedInRing'
  BY <1>1 DEF Owing, OwedInRing
<1>3. CASE \E m \in {"update", "flush"} : HandleFlush(m)
  <2>1. PICK m \in {"update", "flush"} : HandleFlush(m)
    BY <1>3
  <2>2. waiting = m
    <3>1. Len(messages) \in Nat \ {0} /\ messages[1] = m
      BY <2>1, Taken DEF Inv, Typed, HandleFlush
    <3> QED BY <3>1 DEF Inv, SyncQueued, Synchronous
  <2>3. /\ waiting' = waiting /\ job' = m /\ call'.ring = "display" /\ ~call'.empty
    BY <2>1 DEF HandleFlush, Process
  <2>4. Seen'
    BY <1>1, <2>2, <2>3 DEF Owing, Seen
  <2> QED BY <1>2, <2>4 DEF Owing
<1>4. CASE FlushWait \/ FlushTimeout
  <2>1. /\ UNCHANGED <<waiting, job>> /\ pc = "wait"
        /\ call' = call \/ (call'.ring = call.ring /\ ~call'.empty)
    BY <1>4 DEF FlushWait, FlushTimeout, Process, loopVars, msgVars
  <2>2. Flushing
    BY <2>1 DEF Flushing, Inv, SyncHandled
  <2>3. Seen'
    BY <1>1, <2>1, <2>2 DEF Owing, Seen
  <2> QED BY <1>2, <2>3 DEF Owing
<1>5. CASE ReturnFlush
  <2>1. Flushing /\ call.ring \in Rings
    BY <1>5 DEF ReturnFlush, Flushing, Processing, Inv, Typed, Call
  <2>2. CASE Flushed /\ FlushDone /\ call.ring = "display" /\ job = "flush"
    <3>1. /\ UNCHANGED <<job, waiting>> /\ call'.ring = "cursor" /\ ~call'.empty /\ call.empty
      BY <2>2 DEF FlushDone, Flushed, Process
    <3>2. running => owed["display"] = 0
      BY <2>1, <2>2, <3>1 DEF Owing, Seen
    <3>3. Seen'
      BY <1>1, <2>1, <2>2, <3>1, <3>2 DEF Owing, Seen
    <3> QED BY <1>2, <3>3 DEF Owing
  <2>3. CASE Flushed /\ FlushDone /\ ~(call.ring = "display" /\ job = "flush")
    <3>1. pc' = "messages" /\ waiting' = "none"
      BY <2>3 DEF FlushDone, Answer
    <3>2. ~Flushing'
      BY <3>1 DEF Flushing, Processing
    <3> QED BY <1>1, <3>1, <3>2, OtherStep
  <2>4. CASE ~(Flushed /\ FlushDone)
    <3>1. /\ UNCHANGED <<job, waiting>>
          /\ call' = call \/ (call'.ring = call.ring /\ ~call'.empty)
      BY <1>5, <2>4 DEF ReturnFlush, Process
    <3>2. Seen'
      BY <1>1, <2>1, <3>1 DEF Owing, Seen
    <3> QED BY <1>2, <3>2 DEF Owing
  <2> QED BY <2>2, <2>3, <2>4
<1> QED BY <1>3, <1>4, <1>5

LEMMA OtherOwing ==
  ASSUME Inv, Owing,
         Poll \/ HandleDispatcher \/ MessagesDone \/ EventsDone \/ PushAll
         \/ (\E r \in Rings : HandleChannel(r)) \/ ReturnLoop \/ HandleWakeup \/ HandleOom
         \/ ReturnOom \/ HandleStop \/ StopWait \/ StopTimeout \/ StopSent \/ HandleStart
  PROVE  Owing'
<1>1. UNCHANGED <<owed, ring>> /\ waiting' \in {waiting, "none"}
  BY DEF Poll, HandleDispatcher, MessagesDone, EventsDone, PushAll, HandleChannel, ReturnLoop,
         HandleWakeup, HandleOom, ReturnOom, HandleStop, StopWait, StopTimeout, StopSent,
         HandleStart, Answer, guestVars, msgVars
<1>2. \/ pc' \in {"events", "messages", "push", "poll", "stop", "crashed"}
      \/ pc' = "process" /\ call'.from \in {"loop", "oom"}
  <2>1. CASE Poll \/ HandleDispatcher \/ MessagesDone \/ EventsDone \/ PushAll
             \/ (\E r \in Rings : HandleChannel(r)) \/ ReturnLoop
    BY <2>1 DEF Poll, HandleDispatcher, MessagesDone, EventsDone, PushAll, HandleChannel,
                ReturnLoop, Process
  <2>2. CASE HandleWakeup \/ HandleOom \/ ReturnOom \/ HandleStart
    BY <2>2 DEF HandleWakeup, HandleOom, ReturnOom, HandleStart, Receive, Process, loopVars
  <2>3. CASE HandleStop \/ StopWait \/ StopTimeout \/ StopSent
    BY <2>3 DEF HandleStop, StopWait, StopTimeout, StopSent, loopVars
  <2> QED BY <2>1, <2>2, <2>3
<1>3. ~Flushing'
  BY <1>2 DEF Flushing, Processing
<1> QED BY <1>1, <1>3, OtherStep

-----------------------------------------------------------------------------
(* The theorem.                                                            *)

LEMMA InitOwing == ASSUME Init PROVE Owing
BY DEF Init, Owing, OwedInRing, Seen, Flushing, Processing, NoCall

LEMMA NextOwing == ASSUME Inv, Owing, [Next]_vars PROVE Owing'
<1>1. CASE Worker
  BY <1>1, TakeOwing, FlushOwing, OtherOwing DEF Worker, Handler
<1>2. CASE StopVm \/ StartVm
  BY <1>2, MachineOwing
<1>3. CASE \E v \in Vcpus : Guest(v)
  BY <1>3, GuestOwing
<1>4. CASE \E r \in Rings : Client(r)
  BY <1>4, ClientOwing
<1>5. CASE UNCHANGED vars
  <2>1. UNCHANGED <<owed, ring, waiting, job, call, running, pc>>
    BY <1>5 DEF vars, guestVars, msgVars, loopVars
  <2> QED BY <2>1, OwingKept DEF Owing, OwedInRing
<1> QED BY <1>1, <1>2, <1>3, <1>4, <1>5 DEF Next

\* Only the end of a flush answers an update or a flush, and it has seen every ring it
\* was to see.
LEMMA AnswerComplete ==
  ASSUME Inv, Owing, [Next]_vars, waiting \in {"update", "flush"}, waiting' = "none", running
  PROVE  \A r \in Rings : owed[r] = 0
<1>1. CASE ReturnFlush
  <2>1. Flushed /\ ~(call.ring = "display" /\ job = "flush")
    BY <1>1 DEF ReturnFlush, FlushDone
  <2>2. Flushing /\ call.ring \in Rings /\ call.empty
    BY <1>1, <2>1 DEF ReturnFlush, Flushing, Processing, Flushed, Inv, Typed, Call
  <2> QED BY <2>1, <2>2 DEF Owing, Seen, Rings
<1>2. CASE StopSent
  BY <1>2 DEF StopSent, Inv, SyncHandled
<1>3. ReturnFlush \/ StopSent
  <2>1. CASE Worker
    BY <2>1 DEF Worker, Handler, Poll, HandleDispatcher, MessagesDone, EventsDone, PushAll,
       HandleChannel, TakeNone, TakeCommand, TakeEmpty, AskNotification, ReturnLoop,
       HandleWakeup, HandleOom, ReturnOom, HandleFlush, FlushWait, FlushTimeout, HandleStop,
       StopWait, StopTimeout, HandleStart, msgVars
  <2>2. CASE ~Worker
    BY <2>2 DEF Next, StopVm, StartVm, Guest, Io, Work, TestPending, SetPending, Notify,
       Request, OutOfMemory, PushCommand, Client, ClientReads, ClientCloses, SendMessage,
       msgVars, vars
  <2> QED BY <2>1, <2>2
<1> QED BY <1>1, <1>2, <1>3

\* handle_dev_update and flush_all_qxl_commands: the guest reads its screen, or frees what
\* its commands refer to, when it gets the answer.
THEOREM FlushComplete == Spec => FlushSeesAll
<1>1. Init => Inv /\ Owing
  BY InitInv, InitOwing
<1>2. Inv /\ Owing /\ [Next]_vars => Inv' /\ Owing'
  BY NextInv, NextOwing
<1>3. Inv /\ Owing /\ [Next]_vars =>
        [(waiting \in {"update", "flush"} /\ waiting' = "none" /\ running)
            => \A r \in Rings : owed[r] = 0]_vars
  BY AnswerComplete
<1> QED BY <1>1, <1>2, <1>3, PTL DEF Spec, FlushSeesAll

-----------------------------------------------------------------------------
(***************************************************************************)
(* The types, with the limits of rings, pipes, windows and retries.        *)
(***************************************************************************)

\* A channel within its limits: one command more than a full pipe, one message more
\* than two windows.
Within(c) == c.pipe =< PipeMax + 1 /\ c.seen < Window /\ Unacked(c) =< 2 * Window + 1

\* Notification is asked for at the last retry, and that counts as one.
Tried == /\ tries \in [Rings -> 0 .. Retries + 1]
         /\ pc = "request" => tries[call.ring] = Retries

Plain ==
  /\ vm \in {"running", "stopping", "stopped"} /\ vcpu \in [Vcpus -> Vcpu]
  /\ armed \in [Rings -> BOOLEAN] /\ waiting \in {"none", "update", "flush", "stop"}
  /\ pc \in {"poll", "events", "messages", "process", "request", "returned", "push",
             "wait", "stop", "crashed"}
  /\ job \in {"none", "oom", "update", "flush"}
  /\ ready \subseteq Rings \union {"dispatcher"}
  /\ running \in BOOLEAN /\ timeout \in {"zero", "poll", "inf"}
  /\ cursor \in BOOLEAN /\ stream \in BOOLEAN

Limits == Plain /\ Tried /\ (\A r \in Rings : ring[r] =< RingSize[r] /\ Within(chan[r]))

LEMMA Constants ==
  /\ Window \in Nat \ {0} /\ Retries \in Nat /\ PipeMax \in Nat /\ SocketSize \in Nat \ {0}
  /\ \A r \in Rings : RingSize[r] \in Nat
BY WorkerAssumption

\* Two windows and a message are not four acknowledgements.
LEMMA AcksFew ==
  ASSUME NEW a \in Nat, Window * a =< 2 * Window + 1
  PROVE  a =< 3
<1>1. Window \in Nat /\ Window >= 1
  BY Constants
<1>2. ASSUME a >= 4 PROVE FALSE
  <2>1. PICK k \in Nat : a = 4 + k
    <3>1. a - 4 \in Nat /\ a = 4 + (a - 4)
      BY <1>2
    <3> QED BY <3>1
  <2>2. Window * (4 + k) = 4 * Window + Window * k /\ Window * k >= 0
    BY <1>1
  <2> QED BY <1>1, <2>1, <2>2
<1> QED BY <1>2

LEMMA WindowTimes ==
  /\ \A a \in Nat : Window * a \in Nat /\ Window * (a + 1) = Window * a + Window
  /\ Window * 0 = 0
BY Constants

LEMMA ChannelLimits ==
  ASSUME NEW c \in Channel, Within(c)
  PROVE  c \in [connected : BOOLEAN, gone : BOOLEAN, pipe : 0 .. PipeMax + 1,
                blocked : BOOLEAN, sock : 0 .. SocketSize,
                seen : 0 .. Window - 1, acks : 0 .. 3]
<1>1. /\ c.pipe \in Nat /\ c.sock \in 0 .. SocketSize /\ c.sock \in Nat
      /\ c.seen \in Nat /\ c.acks \in Nat /\ c.blocked \in BOOLEAN
  BY Constants DEF Channel
<1>2. Window * c.acks \in Nat
  BY <1>1, WindowTimes
<1>3. Window * c.acks =< 2 * Window + 1
  BY <1>1, <1>2, Constants DEF Within, Unacked
<1>4. c.acks \in 0 .. 3
  BY <1>1, <1>3, AcksFew
<1>5. c.pipe \in 0 .. PipeMax + 1 /\ c.seen \in 0 .. Window - 1
  BY <1>1, Constants DEF Within
<1> QED BY <1>1, <1>4, <1>5 DEF Channel

LEMMA DroppedWithin == Within(Dropped) /\ Within(Closed) /\ Within(Opened)
                       /\ {Dropped, Closed, Opened} \subseteq Channel
<1>1. Window * 0 = 0 /\ SocketSize \in Nat
  BY WindowTimes, Constants
<1>2. Unacked(Dropped) = 0 /\ Unacked(Closed) = 0 /\ Unacked(Opened) = 0
  BY <1>1 DEF Unacked, Dropped, Closed, Opened
<1>3. {Dropped, Closed, Opened} \subseteq Channel
  <2>1. 0 \in Nat /\ 0 \in 0 .. SocketSize
    BY <1>1
  <2>2. Closed \in Channel
    BY <2>1 DEF Closed, Channel
  <2>3. Opened \in Channel
    BY <2>2 DEF Opened, Channel
  <2> QED BY <2>2, <2>3, DroppedType
<1>4. \A c \in {Dropped, Closed, Opened} : c.pipe = 0 /\ c.seen = 0
  BY DEF Dropped, Closed, Opened
<1>5. 0 =< PipeMax + 1 /\ 0 < Window /\ 0 =< 2 * Window + 1
  BY Constants
<1> QED BY <1>2, <1>3, <1>4, <1>5 DEF Within

LEMMA PushWithin ==
  ASSUME NEW r \in Rings, NEW c \in Channel, Within(c), NEW d \in Push(r, c)
  PROVE  Within(d)
<1> DEFINE flushed == [c EXCEPT !.blocked = FALSE,
                               !.sock = IF c.blocked THEN @ + 1 ELSE @]
           room == SocketSize - flushed.sock
           most == Min({room + 1, Credit(flushed)})
<1>1. CASE ~c.connected \/ (c.blocked /\ c.sock = SocketSize) \/ c.gone
  <2>1. d = c \/ d = Dropped
    BY <1>1 DEF Push
  <2> QED BY <2>1, DroppedWithin
<1>2. CASE ~(~c.connected \/ (c.blocked /\ c.sock = SocketSize) \/ c.gone)
  <2>1. /\ c.sock \in 0 .. SocketSize /\ c.pipe \in Nat /\ c.seen \in Nat
        /\ c.acks \in Nat /\ c.blocked \in BOOLEAN
    BY DEF Channel
  <2>2. PICK s \in 0 .. SocketSize : /\ flushed = [c EXCEPT !.blocked = FALSE, !.sock = s]
                                     /\ s = IF c.blocked THEN c.sock + 1 ELSE c.sock
    <3>1. (IF c.blocked THEN c.sock + 1 ELSE c.sock) \in 0 .. SocketSize
      BY <1>2, <2>1, Sizes
    <3> QED BY <3>1
  <2>3. /\ flushed \in Channel /\ flushed.sock = s /\ flushed.blocked = FALSE
        /\ flushed.seen = c.seen /\ flushed.acks = c.acks /\ flushed.pipe = c.pipe
    BY <2>1, <2>2 DEF Channel
  <2>4. PICK p \in (0 .. c.pipe) \X (0 .. c.pipe) :
          /\ p[2] =< most
          /\ d = [flushed EXCEPT !.pipe = @ - p[1], !.sock = @ + Min({p[2], room}),
                                 !.blocked = p[2] > room]
    BY <1>2, Zenon DEF Push
  <2>5. room \in Nat /\ room = SocketSize - s
    BY <2>2, <2>3, Sizes
  <2>6. p[1] \in Nat /\ p[2] \in Nat
    BY <2>1, <2>4
  <2>7. PICK x \in Nat : x = Window * c.acks
    BY <2>1, WindowTimes
  <2>8. /\ Unacked(c) = (IF c.blocked THEN 1 ELSE 0) + c.sock + c.seen + x
        /\ Unacked(flushed) = s + c.seen + x
    BY <2>3, <2>7, <2>1, <2>2 DEF Unacked
  <2>9. Unacked(flushed) = Unacked(c) /\ Unacked(c) \in Nat
    BY <2>1, <2>2, <2>8
  <2>10. most = Min({room + 1, Credit(flushed)})
    OBVIOUS
  <2> HIDE DEF flushed, room, most
  <2>11. /\ Credit(flushed) \in Int
         /\ Credit(flushed) = 0 \/ Credit(flushed) = 2 * Window + 1 - Unacked(flushed)
    <3>1. 2 * Window + 1 - Unacked(flushed) \in Int
      BY <2>9, Constants
    <3> QED BY <3>1, MaxZero DEF Credit
  <2>12. p[2] =< room + 1 /\ p[2] =< Credit(flushed)
    <3>1. most =< room + 1 /\ most =< Credit(flushed) /\ most \in Int
      <4>1. room + 1 \in Int
        BY <2>5
      <4> QED BY <2>10, <2>11, <4>1, MinOfTwo
    <3> QED BY <2>4, <2>5, <2>6, <2>11, <3>1
  <2>13. Min({p[2], room}) = IF p[2] > room THEN room ELSE p[2]
    <3>1. p[2] \in Int /\ room \in Int
      BY <2>5, <2>6
    <3>2. Min({p[2], room}) =< p[2] /\ Min({p[2], room}) \in {p[2], room}
          /\ Min({p[2], room}) =< room
      BY <3>1, MinOfTwo, Zenon
    <3> QED BY <3>1, <3>2
  <2>14. PICK n, k : n = flushed.sock + Min({p[2], room}) /\ k = flushed.pipe - p[1]
    OBVIOUS
  <2>15. d = [flushed EXCEPT !.pipe = k, !.sock = n, !.blocked = p[2] > room]
    BY <2>4, <2>14
  <2>16. /\ d.pipe = k /\ d.sock = n /\ d.blocked = (p[2] > room)
         /\ d.seen = c.seen /\ d.acks = c.acks
    BY <2>3, <2>15 DEF Channel
  <2>17. n + (IF p[2] > room THEN 1 ELSE 0) = s + p[2] /\ n \in Nat
    BY <2>3, <2>5, <2>6, <2>12, <2>13, <2>14
  <2>18. Unacked(d) = Unacked(c) + p[2]
    <3>1. Unacked(d) = (IF p[2] > room THEN 1 ELSE 0) + n + c.seen + x
      BY <2>7, <2>16 DEF Unacked
    <3> QED BY <2>1, <2>5, <2>6, <2>8, <2>9, <2>17, <3>1
  <2>19. Unacked(d) =< 2 * Window + 1
    BY <2>6, <2>9, <2>11, <2>12, <2>18, Constants DEF Within
  <2>20. d.pipe =< PipeMax + 1
    BY <2>1, <2>3, <2>6, <2>14, <2>16, Constants DEF Within
  <2> QED BY <2>16, <2>19, <2>20 DEF Within
<1> QED BY <1>1, <1>2

LEMMA ServeWithin ==
  ASSUME NEW r \in Rings, NEW c \in Channel, Within(c), NEW d \in Serve(r, c)
  PROVE  Within(d)
<1>1. CASE ~c.connected \/ c.gone
  BY <1>1, DroppedWithin DEF Serve
<1>2. CASE c.connected /\ ~c.gone
  <2>1. PICK e \in Channel : e = [c EXCEPT !.acks = 0]
    BY DEF Channel
  <2>2. Within(e)
    <3>1. /\ c.sock \in Nat /\ c.seen \in Nat /\ c.acks \in Nat /\ Window * c.acks \in Nat
      BY WindowTimes, Constants DEF Channel
    <3>2. e.pipe = c.pipe /\ e.seen = c.seen /\ e.sock = c.sock /\ e.blocked = c.blocked /\ e.acks = 0
      BY <2>1 DEF Channel
    <3>3. Unacked(e) =< Unacked(c) /\ Unacked(e) \in Nat /\ Unacked(c) \in Nat
      BY <3>1, <3>2, WindowTimes DEF Unacked
    <3> QED BY <3>2, <3>3, Constants DEF Within
  <2>3. d \in Push(r, e)
    BY <1>2, <2>1 DEF Serve
  <2> QED BY <2>2, <2>3, PushWithin
<1> QED BY <1>1, <1>2


-----------------------------------------------------------------------------
(* The steps.                                                              *)

\* A channel is pushed, served or dropped.
LEMMA WithinMoves ==
  ASSUME Inv, Limits, NEW r \in Rings, NEW c,
         c = Dropped \/ c \in Push(r, chan[r]) \/ c \in Serve(r, chan[r]),
         chan' = [chan EXCEPT ![r] = c]
  PROVE  \A q \in Rings : Within(chan'[q])
<1>1. chan \in [Rings -> Channel]
  BY DEF Inv, Typed
<1>2. Within(c)
  BY <1>1, DroppedWithin, PushWithin, ServeWithin DEF Limits
<1> QED BY <1>1, <1>2 DEF Limits

\* Steps that leave the rings and the retries alone.
LEMMA LimitsKept ==
  ASSUME Limits, Plain', UNCHANGED <<ring, tries>>, \A r \in Rings : Within(chan'[r]),
         pc' = "request" => pc = "request" /\ call'.ring = call.ring
  PROVE  Limits'
BY DEF Limits, Tried

LEMMA ClientLimits ==
  ASSUME Inv, Limits, NEW r \in Rings, Client(r)
  PROVE  Limits'
<1>1. chan \in [Rings -> Channel]
  BY DEF Inv, Typed
<1>2. /\ UNCHANGED <<vm, vcpu, ring, armed, waiting, pc, call, job, ready, running, timeout, tries,
                     cursor, stream>>
  BY DEF Client, ClientReads, ClientCloses, guestVars, msgVars, loopVars
<1>3. PICK old \in Channel : old = chan[r]
  BY <1>1
<1>4. /\ old.sock \in 0 .. SocketSize /\ old.sock \in Nat /\ old.pipe \in Nat /\ old.seen \in Nat
      /\ old.acks \in Nat /\ old.blocked \in BOOLEAN
  BY Constants DEF Channel
<1>5. Within(old)
  BY <1>3 DEF Limits
<1>6. PICK x \in Nat : x = Window * old.acks /\ Window * (old.acks + 1) = x + Window
  BY <1>4, WindowTimes
<1>7. Unacked(old) = (IF old.blocked THEN 1 ELSE 0) + old.sock + old.seen + x
  BY <1>6 DEF Unacked
<1>8. \A q \in Rings : Within(chan'[q])
  <2>1. CASE ClientReads(r)
    <3>1. PICK n, k, a : /\ chan' = [chan EXCEPT ![r].sock = n, ![r].seen = k, ![r].acks = a]
                         /\ n = old.sock - 1 /\ old.sock > 0
                         /\ \/ old.seen + 1 = Window /\ k = 0 /\ a = old.acks + 1
                            \/ old.seen + 1 # Window /\ k = old.seen + 1 /\ a = old.acks
      BY <1>3, <2>1 DEF ClientReads
    <3>2. PICK c : c = [old EXCEPT !.sock = n, !.seen = k, !.acks = a]
      OBVIOUS
    <3>3. chan' = [chan EXCEPT ![r] = c]
      BY <1>1, <1>3, <3>1, <3>2
    <3>4. /\ c.sock = n /\ c.seen = k /\ c.acks = a
          /\ c.blocked = old.blocked /\ c.pipe = old.pipe
      BY <3>2 DEF Channel
    <3>5. PICK y : y = Window * a
      OBVIOUS
    <3>6. Unacked(c) = (IF old.blocked THEN 1 ELSE 0) + n + k + y
      BY <3>4, <3>5 DEF Unacked
    <3>7. \/ old.seen + 1 = Window /\ k = 0 /\ y = x + Window
          \/ old.seen + 1 # Window /\ k = old.seen + 1 /\ y = x
      BY <1>6, <3>1, <3>5
    <3>8. Unacked(c) = Unacked(old) /\ k < Window
      BY <1>4, <1>5, <1>7, <3>1, <3>6, <3>7, Constants DEF Within
    <3>9. Within(c)
      BY <1>5, <3>4, <3>8 DEF Within
    <3> QED BY <1>1, <3>3, <3>9 DEF Limits
  <2>2. CASE ClientCloses(r)
    <3>1. PICK c : c = [old EXCEPT !.gone = TRUE, !.sock = 0, !.seen = 0, !.acks = 0]
      OBVIOUS
    <3>2. chan' = [chan EXCEPT ![r] = c]
      BY <1>3, <2>2, <3>1 DEF ClientCloses
    <3>3. c.sock = 0 /\ c.seen = 0 /\ c.acks = 0 /\ c.blocked = old.blocked /\ c.pipe = old.pipe
      BY <3>1 DEF Channel
    <3>4. Unacked(c) = IF old.blocked THEN 1 ELSE 0
      BY <3>3, WindowTimes DEF Unacked
    <3>5. Within(c)
      BY <1>5, <3>3, <3>4, Constants DEF Within
    <3> QED BY <1>1, <3>2, <3>5 DEF Limits
  <2> QED BY <2>1, <2>2 DEF Client
<1> QED BY <1>2, <1>8, LimitsKept DEF Limits, Plain

LEMMA VcpuTypes ==
  /\ Guesting \in Vcpu /\ Waits \in Vcpu /\ Off \in Vcpu
  /\ \A at \in {"test", "set", "send"}, bit \in {"wakeup", "oom"} : Doing(at, bit) \in Vcpu
BY DEF Vcpu, Doing, Guesting, Waits, Off

LEMMA GuestLimits ==
  ASSUME Inv, Owing, Limits, NEW v \in Vcpus, Guest(v)
  PROVE  Limits'
<1>1. /\ UNCHANGED <<vm, pc, call, job, ready, running, timeout, tries, cursor, chan, stream>>
      /\ waiting' \in {waiting, "update", "flush"}
  BY DEF Guest, Io, Work, TestPending, SetPending, Notify, Request, OutOfMemory, PushCommand,
     msgVars, loopVars, chanVars
<1>2. \E w \in Vcpu : vcpu' = [vcpu EXCEPT ![v] = w]
  <2>1. CASE Io(v)
    BY <2>1, VcpuTypes DEF Io, TestPending, SetPending, Notify
  <2>2. CASE Work(v)
    BY <2>2, VcpuTypes DEF Work, Request, OutOfMemory, PushCommand
  <2> QED BY <2>1, <2>2 DEF Guest
<1>3. vcpu' \in [Vcpus -> Vcpu]
  BY <1>2 DEF Limits, Plain
<1>4. /\ armed' \in [Rings -> BOOLEAN]
      /\ \A r \in Rings : ring'[r] =< RingSize[r]
  <2>1. CASE \E q \in Rings : PushCommand(v, q)
    <3>1. PICK q \in Rings : PushCommand(v, q)
      BY <2>1
    <3>2. /\ ring[q] < RingSize[q] /\ ring' = [ring EXCEPT ![q] = ring[q] + 1]
          /\ armed' = [armed EXCEPT ![q] = FALSE]
      BY <3>1 DEF PushCommand
    <3>3. ring \in [Rings -> Nat] /\ \A r \in Rings : ring[r] =< RingSize[r] /\ RingSize[r] \in Nat
      BY Constants DEF Owing, OwedInRing, Limits
    <3>4. \A r \in Rings : ring'[r] =< RingSize[r]
      BY <3>2, <3>3
    <3> QED BY <3>2, <3>4 DEF Limits, Plain
  <2>2. CASE ~\E q \in Rings : PushCommand(v, q)
    <3>1. UNCHANGED <<ring, armed>>
      BY <2>2 DEF Guest, Io, Work, TestPending, SetPending, Notify, Request, OutOfMemory
    <3> QED BY <3>1 DEF Limits, Plain
  <2> QED BY <2>1, <2>2
<1> QED BY <1>1, <1>3, <1>4 DEF Limits, Plain, Tried

LEMMA MachineLimits ==
  ASSUME Limits, StopVm \/ StartVm
  PROVE  Limits'
<1>1. /\ UNCHANGED <<vcpu, ring, armed, pc, call, job, ready, running, timeout, tries, cursor,
                     chan, stream>>
      /\ waiting' \in {waiting, "stop"} /\ vm' \in {"stopping", "running"}
  BY DEF StopVm, StartVm, loopVars, chanVars
<1> QED BY <1>1 DEF Limits, Plain, Tried


\* The loop, and what serves or drops the clients.
LEMMA LoopLimits ==
  ASSUME Inv, Limits,
         Poll \/ HandleDispatcher \/ MessagesDone \/ EventsDone \/ PushAll \/ ReturnLoop
         \/ FlushWait \/ FlushTimeout \/ StopWait \/ StopTimeout
         \/ \E r \in Rings : HandleChannel(r)
  PROVE  Limits'
<1>1. /\ UNCHANGED <<vm, vcpu, armed, waiting, job, running, stream, ring, tries>>
      /\ pc' \in {pc, "poll", "events", "messages", "process", "push"}
      /\ pc' = "request" => pc = "request" /\ call'.ring = call.ring
      /\ timeout' \in {timeout, "inf"} /\ cursor' \in BOOLEAN
  BY DEF Poll, HandleDispatcher, MessagesDone, EventsDone, PushAll, ReturnLoop, FlushWait,
     FlushTimeout, StopWait, StopTimeout, HandleChannel, Process, Limits, Plain,
     guestVars, msgVars, loopVars, chanVars
<1>2. ready' \subseteq Rings \union {"dispatcher"}
  BY DEF Poll, HandleDispatcher, MessagesDone, EventsDone, PushAll, ReturnLoop, FlushWait,
     FlushTimeout, StopWait, StopTimeout, HandleChannel, Limits, Plain, loopVars
<1>3. \A r \in Rings : Within(chan'[r])
  <2>1. CASE Poll \/ HandleDispatcher \/ MessagesDone \/ EventsDone \/ ReturnLoop
    BY <2>1 DEF Poll, HandleDispatcher, MessagesDone, EventsDone, ReturnLoop, chanVars, Limits
  <2>2. CASE FlushWait \/ FlushTimeout \/ StopWait \/ StopTimeout
             \/ \E r \in Rings : HandleChannel(r)
    <3>1. \E r \in Rings : \E c \in {Dropped} \cup Serve(r, chan[r]) : chan' = [chan EXCEPT ![r] = c]
      BY <2>2 DEF FlushWait, FlushTimeout, StopWait, StopTimeout, HandleChannel, Inv, Typed, Call
    <3> QED BY <3>1, WithinMoves
  <2>3. CASE PushAll
    <3>1. PICK c \in Push("cursor", chan["cursor"]), d \in Push("display", chan["display"]) :
            chan' = [chan EXCEPT !["cursor"] = IF cursor THEN c ELSE @, !["display"] = d]
      BY <2>3 DEF PushAll
    <3>2. chan["cursor"] \in Channel /\ chan["display"] \in Channel
          /\ chan \in [Rings -> Channel]
      BY DEF Inv, Typed, Rings
    <3>3. Within(chan["cursor"]) /\ Within(chan["display"])
      BY DEF Limits, Rings
    <3>4. Within(c) /\ Within(d)
      BY <3>2, <3>3, PushWithin DEF Rings
    <3> QED BY <3>1, <3>2, <3>3, <3>4 DEF Rings
  <2> QED BY <2>1, <2>2, <2>3
<1>4. Plain'
  BY <1>1, <1>2 DEF Limits, Plain
<1> QED BY <1>1, <1>3, <1>4, LimitsKept

\* The calls.  A command is taken only when the pipe is not full, and the notification
\* is asked for once, by the retry after the last.
LEMMA TakeLimits ==
  ASSUME Inv, Owing, Limits, TakeNone \/ TakeCommand \/ TakeEmpty \/ AskNotification
  PROVE  Limits'
<1>1. chan \in [Rings -> Channel] /\ call.ring \in Rings /\ call \in Call
      /\ tries \in [Rings -> 0 .. Retries + 1] /\ Retries \in Nat
  BY Constants DEF Inv, Typed, Call, Limits, Tried
<1>2. UNCHANGED <<vm, vcpu, waiting, job, ready, running, cursor, stream>>
  BY DEF TakeNone, TakeCommand, TakeEmpty, AskNotification, guestVars, msgVars, chanVars
<1>3. call'.ring = call.ring
  <2>1. call' \in {call, [call EXCEPT !.empty = TRUE], [call EXCEPT !.n = TRUE]}
    BY DEF TakeNone, TakeCommand, TakeEmpty, AskNotification
  <2>2. /\ [call EXCEPT !.empty = TRUE].ring = call.ring
        /\ [call EXCEPT !.n = TRUE].ring = call.ring
    BY <1>1 DEF Call
  <2> QED BY <2>1, <2>2
<1>4. CASE TakeNone
  <2>1. UNCHANGED <<armed, ring, timeout, tries, chan>> /\ pc' = "returned"
    BY <1>4 DEF TakeNone, guestVars, chanVars
  <2> QED BY <1>2, <2>1, LimitsKept DEF Limits, Plain
<1>5. CASE TakeCommand
  <2> DEFINE r == call.ring
  <2>a. ~PipeFull(r) /\ ring[r] > 0 /\ ring' = [ring EXCEPT ![r] = ring[r] - 1]
    BY <1>5 DEF TakeCommand, MayTake
  <2>b. tries' = [tries EXCEPT ![r] = 0]
    BY <1>5 DEF TakeCommand
  <2>c. \E n \in IF chan[r].connected THEN {0, 1} ELSE {0} :
           chan' = [chan EXCEPT ![r].pipe = @ + n]
    BY <1>5 DEF TakeCommand
  <2>1. PICK n \in {0, 1} : /\ n = 1 => chan[r].connected
                            /\ chan' = [chan EXCEPT ![r].pipe = @ + n]
    <3>1. PICK m \in IF chan[r].connected THEN {0, 1} ELSE {0} :
             chan' = [chan EXCEPT ![r].pipe = @ + m]
      BY <2>c
    <3>2. m \in {0, 1} /\ (m = 1 => chan[r].connected)
      BY <3>1
    <3> QED BY <3>1, <3>2
  <2>r. r \in Rings
    BY <1>1
  <2> HIDE DEF r
  <2>2. pc' \in {"process", "returned"} /\ timeout' \in {timeout, "zero"} /\ armed' = armed
    BY <1>5 DEF TakeCommand
  <2>3. \A q \in Rings : ring'[q] =< RingSize[q]
    <3>1. ring \in [Rings -> Nat] /\ \A q \in Rings : ring[q] =< RingSize[q] /\ RingSize[q] \in Nat
      BY Constants DEF Owing, OwedInRing, Limits
    <3> QED BY <2>a, <2>r, <3>1
  <2>4. tries' \in [Rings -> 0 .. Retries + 1]
    BY <1>1, <2>b, <2>r, Constants
  <2>5. \A q \in Rings : Within(chan'[q])
    <3>a. PICK old \in Channel : old = chan[r]
      BY <1>1, <2>r
    <3>b. PICK c : c = [old EXCEPT !.pipe = @ + n]
      OBVIOUS
    <3>1. old \in Channel /\ old = chan[r] /\ c = [old EXCEPT !.pipe = @ + n]
      BY <3>a, <3>b
    <3>2. chan' = [chan EXCEPT ![r] = c]
      BY <1>1, <2>1, <3>1
    <3>3. PICK k : k = old.pipe + n
      OBVIOUS
    <3>4. c = [old EXCEPT !.pipe = k]
      BY <3>1, <3>3
    <3>5. c.pipe = k /\ c.seen = old.seen /\ c.sock = old.sock
          /\ c.acks = old.acks /\ c.blocked = old.blocked
      BY <3>4 DEF Channel
    <3>6. Unacked(c) = Unacked(old)
      BY <3>5 DEF Unacked
    <3>7. Within(old) /\ old.pipe \in Nat /\ (n = 1 => ~(old.pipe > PipeMax))
      BY <2>a, <2>r, <2>1, <3>1 DEF Limits, PipeFull, Channel
    <3>8. k =< PipeMax + 1
      BY <3>3, <3>7, Constants DEF Within
    <3>9. Within(c)
      BY <3>5, <3>6, <3>7, <3>8 DEF Within
    <3> QED BY <1>1, <2>r, <3>2, <3>9 DEF Limits
  <2> QED BY <1>2, <2>2, <2>3, <2>4, <2>5 DEF Limits, Plain, Tried
<1>6. CASE TakeEmpty
  <2>1. UNCHANGED <<armed, ring, chan>> /\ timeout' \in {timeout, "poll"}
        /\ pc' \in {"returned", "request"}
    BY <1>6 DEF TakeEmpty, guestVars, chanVars
  <2>2. \/ /\ tries[call.ring] < Retries /\ pc' = "returned"
           /\ tries' = [tries EXCEPT ![call.ring] = tries[call.ring] + 1]
        \/ pc' = "returned" /\ tries' = tries
        \/ pc' = "request" /\ tries' = tries /\ tries[call.ring] = Retries
    BY <1>6 DEF TakeEmpty
  <2>3. tries' \in [Rings -> 0 .. Retries + 1] /\ (pc' = "request" => tries'[call'.ring] = Retries)
    BY <1>1, <1>3, <2>2
  <2> QED BY <1>2, <2>1, <2>3 DEF Limits, Plain, Tried
<1>7. CASE AskNotification
  <2>1. UNCHANGED <<ring, chan, timeout>> /\ armed' = [armed EXCEPT ![call.ring] = TRUE]
        /\ pc' \in {"returned", "process"} /\ pc = "request"
        /\ tries' \in {tries, [tries EXCEPT ![call.ring] = tries[call.ring] + 1]}
    BY <1>7 DEF AskNotification, chanVars
  <2>2. tries \in [Rings -> 0 .. Retries + 1] /\ call.ring \in Rings
        /\ tries[call.ring] = Retries
    BY <1>1, <2>1 DEF Limits, Tried
  <2>a. PICK r \in Rings : r = call.ring
    BY <2>2
  <2>b. PICK k : k = tries[r] + 1
    OBVIOUS
  <2>3. k \in 0 .. Retries + 1
    BY <2>2, <2>a, <2>b, Constants
  <2>c. tries' = tries \/ tries' = [tries EXCEPT ![r] = k]
    BY <2>1, <2>a, <2>b
  <2>4. tries' \in [Rings -> 0 .. Retries + 1]
    BY <2>2, <2>3, <2>c
  <2>5. Tried'
    BY <2>1, <2>4 DEF Tried
  <2>6. armed' \in [Rings -> BOOLEAN]
    BY <2>1, <2>2 DEF Limits, Plain
  <2>7. Plain'
    BY <1>2, <2>1, <2>6 DEF Limits, Plain
  <2> QED BY <1>2, <2>1, <2>5, <2>7 DEF Limits, Within, Unacked
<1> QED BY <1>4, <1>5, <1>6, <1>7

\* The handlers.
LEMMA HandlerLimits ==
  ASSUME Inv, Limits,
         HandleWakeup \/ HandleOom \/ ReturnOom \/ ReturnFlush \/ HandleStop \/ StopSent
         \/ HandleStart \/ \E m \in {"update", "flush"} : HandleFlush(m)
  PROVE  Limits'
<1>1. /\ UNCHANGED <<ring, armed, ready, timeout, tries, cursor, stream>>
      /\ pc' \in {"messages", "process", "wait", "stop", "crashed"}
      /\ vm' \in {vm, "stopped"} /\ waiting' \in {waiting, "none"}
      /\ job' \in {job, "none", "oom", "update", "flush"} /\ running' \in BOOLEAN
  BY DEF HandleWakeup, HandleOom, ReturnOom, ReturnFlush, HandleStop, StopSent, HandleStart,
     HandleFlush, FlushDone, Process, Answer, Receive, Limits, Plain,
     guestVars, loopVars, chanVars
<1>2. vcpu' = vcpu \/ Answer
  BY DEF HandleWakeup, HandleOom, ReturnOom, ReturnFlush, HandleStop, StopSent, HandleStart,
     HandleFlush, FlushDone, guestVars
<1>3. vcpu' \in [Vcpus -> Vcpu]
  BY <1>2, VcpuTypes DEF Answer, Limits, Plain
<1>4. \A r \in Rings : Within(chan'[r])
  <2>1. chan' = chan \/ \E r \in Rings : \E c \in Push(r, chan[r]) : chan' = [chan EXCEPT ![r] = c]
    BY DEF HandleWakeup, HandleOom, ReturnOom, ReturnFlush, HandleStop, StopSent, HandleStart,
       HandleFlush, chanVars, Inv, Typed, Call, Rings
  <2> QED BY <2>1, WithinMoves DEF Limits
<1>5. Plain'
  BY <1>1, <1>3 DEF Limits, Plain
<1> QED BY <1>1, <1>4, <1>5, LimitsKept

LEMMA InitLimits == ASSUME Init PROVE Limits
<1>1. PICK start \in Starts :
        /\ chan = [r \in Rings |-> IF r \in start.open THEN Opened ELSE Closed]
        /\ vcpu = [v \in Vcpus |-> IF v \in start.online THEN Guesting ELSE Off]
        /\ stream = start.stream
  BY DEF Init
<1>2. vcpu \in [Vcpus -> Vcpu] /\ stream \in BOOLEAN
  BY <1>1, VcpuTypes, WorkerAssumption
<1>3. \A r \in Rings : Within(chan[r])
  BY <1>1, DroppedWithin
<1>4. /\ vm = "running" /\ ring = [r \in Rings |-> 0] /\ armed = [r \in Rings |-> TRUE]
      /\ waiting = "none" /\ pc = "poll" /\ job = "none" /\ ready = {} /\ running = TRUE
      /\ timeout = "inf" /\ tries = [r \in Rings |-> 0] /\ cursor = TRUE
  BY DEF Init
<1>5. Plain
  BY <1>2, <1>4 DEF Plain
<1> QED BY <1>3, <1>4, <1>5, Constants DEF Limits, Tried

LEMMA NextLimits == ASSUME Inv, Owing, Limits, [Next]_vars PROVE Limits'
<1>1. CASE Worker
  BY <1>1, LoopLimits, TakeLimits, HandlerLimits DEF Worker, Handler
<1>2. CASE StopVm \/ StartVm
  BY <1>2, MachineLimits
<1>3. CASE \E v \in Vcpus : Guest(v)
  BY <1>3, GuestLimits
<1>4. CASE \E r \in Rings : Client(r)
  BY <1>4, ClientLimits
<1>5. CASE UNCHANGED vars
  BY <1>5 DEF vars, guestVars, msgVars, loopVars, chanVars, Limits, Plain, Tried
<1> QED BY <1>1, <1>2, <1>3, <1>4, <1>5 DEF Next

LEMMA LimitsMean == ASSUME Inv, Owing, Limits PROVE TypeOK
<1>1. \A r \in Rings :
        /\ ring[r] \in 0 .. RingSize[r] /\ owed[r] \in 0 .. ring[r]
        /\ chan[r] \in [connected : BOOLEAN, gone : BOOLEAN, pipe : 0 .. PipeMax + 1,
                        blocked : BOOLEAN, sock : 0 .. SocketSize,
                        seen : 0 .. Window - 1, acks : 0 .. 3]
        /\ Unacked(chan[r]) =< 2 * Window + 1
  <2>1. ASSUME NEW r \in Rings
        PROVE  /\ ring[r] \in 0 .. RingSize[r] /\ owed[r] \in 0 .. ring[r]
               /\ chan[r] \in Channel /\ Within(chan[r])
    <3>1. ring[r] \in Nat /\ owed[r] \in Nat /\ owed[r] =< ring[r] /\ ring[r] =< RingSize[r]
      BY DEF Owing, OwedInRing, Limits
    <3> QED BY <3>1, Constants DEF Inv, Typed, Limits
  <2> QED BY <2>1, ChannelLimits DEF Within
<1>2. /\ pending \subseteq {"wakeup", "oom"}
      /\ messages \in Seq({"wakeup", "oom", "update", "flush", "stop", "start"})
      /\ call \in [ring : Rings, from : {"loop", "oom", "first", "drain"},
                   n : BOOLEAN, empty : BOOLEAN]
  BY DEF Inv, Typed, Messages, Call
<1> QED BY <1>1, <1>2 DEF TypeOK, Limits, Plain, Tried

\* The rings, the pipes, the sockets and what the clients have still to acknowledge stay
\* within their limits: a pipe holds one item more than MAX_PIPE_SIZE, and a client owes
\* the acknowledgement of one message more than two windows.
THEOREM WorkerTypes == Spec => []TypeOK
<1>1. Init => Inv /\ Owing /\ Limits
  BY InitInv, InitOwing, InitLimits
<1>2. (Inv /\ Owing /\ Limits) /\ [Next]_vars => (Inv /\ Owing /\ Limits)'
  BY NextInv, NextOwing, NextLimits
<1>3. Inv /\ Owing /\ Limits => TypeOK
  BY LimitsMean
<1> QED BY <1>1, <1>2, <1>3, PTL DEF Spec

=============================================================================

--------------------------- MODULE CharDeviceReading --------------------------
(***************************************************************************)
(* What is read from the guest and waits to be sent to the clients, for    *)
(* any number of clients, read buffers and messages.                       *)
(*                                                                         *)
(* The removal of a client, the reset or the end of the device and a send  *)
(* loop never lie over a read or another send loop on the stack of calls   *)
(* (Rooted), so none of them finds a queue half changed.  A message waits  *)
(* for a client only while the client lacks tokens or its send loop is at  *)
(* work, and no more is read than some client has tokens for (QueueInv):   *)
(* one client alone never has a queue (SingleAlways), tokens never come to *)
(* a client that has some and a queue too (NoTokensAlways), and a client   *)
(* with a queue has a timeout running, or what follows on the stack will   *)
(* see to it (WatchInv, WatchedAlways).                                    *)
(***************************************************************************)
EXTENDS CharDeviceWriting
-----------------------------------------------------------------------------
(* Removals, resets, the end of the device and the send loop are called by *)
(* the main loop, or by each other: never by the read loop or a send loop. *)

PushOps  == {"push", "pushed", "shrink"}
RootOps  == {"free", "destroy", "reset", "reset2", "absorb"} \cup PushOps
InnerOps == {"read", "read0", "free"} \cup PushOps

Rooted(s) == NoOver(RootOps, InnerOps, s)

\* Frames of no such call on a stack, or one of them where it may be.
LEMMA RootedSteps ==
  /\ Rooted(<<>>) /\ \A f : Rooted(<<f>>)
  /\ \A fs \in Only(Ops \ RootOps), s \in Seq(Frame) : Rooted(s) => Rooted(fs \o s)
  /\ \A f \in Frame, s \in Seq(Frame) :
        Rooted(s) /\ NoneOf(InnerOps, s) => Rooted(<<f>> \o s)
  /\ \A s \in Seq(Frame) : s # <<>> /\ Rooted(s) =>
        /\ Rooted(Tail(s))
        /\ Head(s).op \in RootOps => NoneOf(InnerOps, Tail(s))
<1>1. Rooted(<<>>)
  BY DEF Rooted, NoOver
<1>2. ASSUME NEW f PROVE Rooted(<<f>>)
  BY DEF Rooted, NoOver
<1>3. ASSUME NEW fs \in Only(Ops \ RootOps), NEW s \in Seq(Frame), Rooted(s)
      PROVE  Rooted(fs \o s)
  <2>1. fs \in Seq(Frame) /\ NoneOf(RootOps, fs)
    BY DEF Only, NoneOf
  <2> QED BY <1>3, <2>1, OverSteps DEF Rooted
<1>4. ASSUME NEW f \in Frame, NEW s \in Seq(Frame), Rooted(s), NoneOf(InnerOps, s)
      PROVE  Rooted(<<f>> \o s)
  <2>1. <<f>> \in Seq(Frame) /\ Rooted(<<f>>)
    BY <1>2, SeqFacts
  <2> QED BY <1>4, <2>1, OverSteps DEF Rooted
<1>5. ASSUME NEW s \in Seq(Frame), s # <<>>, Rooted(s)
      PROVE  Rooted(Tail(s)) /\ (Head(s).op \in RootOps => NoneOf(InnerOps, Tail(s)))
  BY <1>5, OverSteps DEF Rooted
<1> QED BY <1>1, <1>2, <1>3, <1>4, <1>5

LEMMA MovesRooted ==
  ASSUME TypeOK, NEW A, NEW T, Moves(A, T), A \subseteq Ops \ RootOps, Rooted(stack)
  PROVE  Rooted(stack')
<1>1. stack \in Seq(Frame) /\ (stack # <<>> => Tail(stack) \in Seq(Frame))
  BY StackFacts
<1>2. PICK fs \in Only(A) : stack' = fs \o stack \/ (stack # <<>> /\ stack' = fs \o Tail(stack))
  BY DEF Moves
<1>3. fs \in Only(Ops \ RootOps)
  BY <1>2, OnlyWider
<1> QED BY <1>1, <1>2, <1>3, RootedSteps

\* A call f over a stack t that has none of the loops, and frames gs over it.
LEMMA Rises ==
  ASSUME NEW t \in Seq(Frame), Rooted(t), NoneOf(InnerOps, t), NEW f \in Frame,
         NEW gs \in Only(Ops \ RootOps)
  PROVE  Rooted(gs \o (<<f>> \o t)) /\ gs \o (<<f>> \o t) \in Seq(Frame)
<1>1. <<f>> \in Seq(Frame) /\ gs \in Seq(Frame)
  BY SeqFacts DEF Only
<1>2. <<f>> \o t \in Seq(Frame) /\ gs \o (<<f>> \o t) \in Seq(Frame)
  BY <1>1, SeqFacts
<1> QED BY <1>2, RootedSteps

-----------------------------------------------------------------------------
(* What removals and the device's coming and going put on the stack.       *)

EndOps == {"free", "removed", "gone", "destroy", "reset", "reset2"}

LEMMA RemovingMoves ==
  ASSUME ConstantsOK, TypeOK, RemovedEnd \/ \E c \in Clients : Removing(c)
  PROVE  Moves(WakeOps, EndOps)
<1>0. WakeOps \in SUBSET Ops /\ {"write?", "read?"} \subseteq WakeOps
  BY DEF Ops, WakeOps
<1>1. CASE RemovedEnd
  <2>1. stack # <<>> /\ Top.op \in EndOps /\ (Return \/ Become(<<F("read?")>>))
    BY <1>1 DEF RemovedEnd, At, Top, EndOps
  <2> QED BY <1>0, <2>1, OnlyFacts, MovesSteps
<1>2. CASE \E c \in Clients : FreeQueued(c)
  <2>1. \E b : Unref(b, stack)
    BY <1>2 DEF FreeQueued
  <2> QED BY <1>0, <2>1, UnrefOver DEF Moves
<1>3. CASE \E c \in Clients : FreeWritten(c)
  <2>1. stack' = stack
    BY <1>3 DEF FreeWritten
  <2> QED BY <1>0, <2>1, MovesSteps
<1>4. CASE \E c \in Clients : FreeEnd(c)
  <2>1. stack # <<>> /\ Top.op \in EndOps /\ Return
    BY <1>4 DEF FreeEnd, At, Top, EndOps
  <2> QED BY <1>0, <2>1, MovesSteps
<1>5. CASE \E c \in Clients : Gone(c)
  <2>1. stack # <<>> /\ Top.op \in EndOps /\ (Return \/ Become(<<F("write?")>>))
    BY <1>5 DEF Gone, At, Top, EndOps
  <2> QED BY <1>0, <2>1, OnlyFacts, MovesSteps
<1> QED BY <1>1, <1>2, <1>3, <1>4, <1>5 DEF Removing

LEMMA EndingMoves ==
  ASSUME ConstantsOK, TypeOK,
         \/ Stop \/ Detach \/ Destroy \/ ResetRelease \/ ResetQueues
         \/ \E c \in Clients \cup {None}, vm \in BOOLEAN : Attach(c, vm)
  PROVE  Moves({"flush", "start"} \cup EndOps, EndOps)
<1> DEFINE A == {"flush", "start"} \cup EndOps
<1>0. A \in SUBSET Ops /\ {"start", "destroy", "reset", "free"} \subseteq A
  BY DEF Ops, EndOps
<1> HIDE DEF A
<1>1. CASE Stop
  <2>1. stack' = stack
    BY <1>1 DEF Stop
  <2> QED BY <1>0, <2>1, MovesSteps DEF A
<1>2. CASE Detach \/ Destroy
  <2>1. \/ Call(<<F("destroy")>>) \/ Call(<<F("reset")>>) \/ \E c \in clients : Call(<<FC("free", c)>>)
        \/ stack # <<>> /\ Top.op \in EndOps /\ Return
    BY <1>2 DEF Detach, Destroy, At, Top, EndOps
  <2>2. clients \subseteq Clients
    BY DEF TypeOK, DeviceTypes
  <2> QED BY <1>0, <2>1, <2>2, OnlyFacts, MovesSteps DEF A
<1>3. CASE ResetRelease
  <2>1. Moves({"flush", "reset2"}, {"reset"})
    BY <1>3, ResetMoves
  <2> QED BY <2>1, MovesWider DEF EndOps
<1>4. CASE ResetQueues
  <2>1. stack # <<>> /\ Top.op \in EndOps /\ Return
    BY <1>4 DEF ResetQueues, At, Top, EndOps
  <2> QED BY <1>0, <2>1, MovesSteps DEF A
<1>5. CASE \E c \in Clients \cup {None}, vm \in BOOLEAN : Attach(c, vm)
  <2>1. stack = <<>> /\ stack' \in {<<>>, <<F("start")>>}
    BY <1>5 DEF Attach, Idle
  <2>2. <<>> \in Only(A) /\ <<F("start")>> \in Only(A)
    BY <1>0, OnlyFacts
  <2>3. <<F("start")>> \o <<>> = <<F("start")>>
    BY <2>2, ConcatEmptySeq DEF Only
  <2>4. stack' = stack \/ Call(<<F("start")>>)
    BY <2>1, <2>3 DEF Call
  <2> QED BY <1>0, <2>2, <2>4, MovesSteps DEF A
<1> QED BY <1>1, <1>2, <1>3, <1>4, <1>5

\* A client leaves, from the main loop: its removal, if it is attached, comes first.
LEMMA LeavingMoves ==
  ASSUME ConstantsOK, TypeOK, NEW c \in Clients, ClientDisconnect(c) \/ RestoreNone(c)
  PROVE  /\ stack = <<>>
         /\ \E s \in Only({"hangup", "gone", "removed"}) :
              stack' = s \/ stack' = <<FC("free", c)>> \o s
<1> DEFINE R    == {"hangup", "gone", "removed"}
           free == <<FC("free", c), F("removed")>>
           end  == <<F("removed")>>
           hang == <<FC("hangup", c)>>
           gone == <<FC("gone", c)>>
<1>0. R \in SUBSET Ops /\ {"hangup", "gone", "removed"} \subseteq R
  BY DEF Ops
<1>1. /\ {<<>>, hang, gone, end} \subseteq Only(R)
      /\ \A fs, gs \in Only(R) : fs \o gs \in Only(R)
      /\ \A fs \in Only(R) : fs \in Seq(Frame)
  BY <1>0, OnlyFacts
<1>2. free = <<FC("free", c)>> \o end /\ <<FC("free", c)>> \in Seq(Frame) /\ free \in Seq(Frame)
  <2>1. {"free", "removed"} \subseteq Ops
    BY DEF Ops
  <2> QED BY <2>1, FrameFacts
<1> HIDE DEF R, free, end, hang, gone
<1>3. \A s \in Only(R) : free \o s = <<FC("free", c)>> \o (end \o s) /\ end \o s \in Only(R)
  <2> TAKE s \in Only(R)
  <2>1. end \in Seq(Frame) /\ s \in Seq(Frame) /\ end \o s \in Only(R)
    BY <1>1
  <2>2. \A y, z \in Seq(Frame) : (<<FC("free", c)>> \o y) \o z = <<FC("free", c)>> \o (y \o z)
    BY <1>2, ConcatFrames
  <2> QED BY <1>2, <2>1, <2>2
<1>4. \A s \in Only(R) : s \o <<>> = s /\ (<<>> \o s = s) /\ (free \o s) \o <<>> = free \o s
  <2> TAKE s \in Only(R)
  <2>1. s \in Seq(Frame) /\ free \o s \in Seq(Frame)
    BY <1>1, <1>2, SeqFacts
  <2> QED BY <2>1, ConcatEmptySeq
<1>5. CASE ClientDisconnect(c)
  <2> DEFINE a == IF exists /\ c \in clients THEN free ELSE <<>>
             b == IF Linked(c) THEN hang ELSE <<>>
  <2>1. stack = <<>> /\ stack' = (a \o b \o gone) \o <<>>
    BY <1>5 DEF ClientDisconnect, Idle, Call, free, hang, gone
  <2>2. a \in {free, <<>>} /\ b \in Only(R) /\ gone \in Only(R)
    BY <1>1
  <2> HIDE DEF a, b
  <2>3. (a \o b) \o gone = a \o (b \o gone) /\ b \o gone \in Only(R)
    <3>1. a \in Seq(Frame) /\ b \in Seq(Frame) /\ gone \in Seq(Frame) /\ b \o gone \in Only(R)
      BY <1>1, <1>2, <2>2
    <3>2. \A y, z \in Seq(Frame) : (a \o y) \o z = a \o (y \o z)
      BY <3>1, ConcatFrames
    <3> QED BY <3>1, <3>2
  <2>4. CASE a = free
    <3>1. stack' = free \o (b \o gone)
      BY <1>4, <2>1, <2>3, <2>4
    <3>2. stack' = <<FC("free", c)>> \o (end \o (b \o gone)) /\ end \o (b \o gone) \in Only(R)
      BY <1>3, <2>3, <3>1
    <3> QED BY <2>1, <3>2 DEF R
  <2>5. CASE a = <<>>
    <3>1. stack' = b \o gone
      BY <1>4, <2>1, <2>3, <2>5
    <3> QED BY <2>1, <2>3, <3>1 DEF R
  <2> QED BY <2>2, <2>4, <2>5
<1>6. CASE RestoreNone(c)
  <2>1. stack = <<>> /\ (stack' = free \o <<>> \/ stack' = <<>> \o <<>>)
    BY <1>6 DEF RestoreNone, Idle, Call, free
  <2>2. stack' = <<FC("free", c)>> \o end \/ stack' = <<>>
    <3>1. free \o <<>> = free /\ <<>> \in Only(R)
      BY <1>1, <1>2, ConcatEmptySeq
    <3>2. <<>> \o <<>> = <<>>
      BY <1>4, <3>1
    <3> QED BY <1>2, <2>1, <3>1, <3>2
  <2> QED BY <1>1, <2>1, <2>2 DEF R
<1> QED BY <1>5, <1>6

-----------------------------------------------------------------------------
(* The frames of a stack whose top is one of these calls.                  *)

LEMMA RootTop ==
  ASSUME TypeOK, Rooted(stack), stack # <<>>
  PROVE  /\ Active = {Top} \cup Frames(Tail(stack)) /\ Top \in Active
         /\ Tail(stack) \in Seq(Frame) /\ Rooted(Tail(stack))
         /\ Frames(Tail(stack)) \subseteq Frame
         /\ Top.op \in RootOps =>
              /\ NoneOf(InnerOps, Tail(stack))
              /\ \A f \in Frames(Tail(stack)) : f.op \notin InnerOps
         /\ Return => Active' = Frames(Tail(stack)) /\ Rooted(stack')
<1>1. stack \in Seq(Frame) /\ Tail(stack) \in Seq(Frame) /\ Rooted(Tail(stack))
  BY StackFacts, RootedSteps
<1>2. Active = {Top} \cup Frames(Tail(stack)) /\ Top \in Active /\ \A f \in Active : f \in Frame
  BY HasFrames
<1>3. Top.op \in RootOps => NoneOf(InnerOps, Tail(stack))
  BY <1>1, RootedSteps DEF Top
<1>4. NoneOf(InnerOps, Tail(stack)) => \A f \in Frames(Tail(stack)) : f.op \notin InnerOps
  BY DEF NoneOf, Frames
<1>5. Return => Active' = Frames(Tail(stack)) /\ Rooted(stack')
  BY <1>1, FrameSteps DEF Return
<1> QED BY <1>1, <1>2, <1>3, <1>4, <1>5

\* It turns into a frame f, with frames gs over it.
LEMMA RootTurn ==
  ASSUME TypeOK, Rooted(stack), stack # <<>>, Top.op \in RootOps, NEW f \in Frame,
         NEW A \in SUBSET (Ops \ RootOps), NEW gs \in Only(A)
  PROVE  LET s == <<f>> \o Tail(stack)
         IN  /\ stack' = gs \o s =>
                  /\ Rooted(stack') /\ Active' = Frames(gs) \cup {f} \cup Frames(Tail(stack))
                  /\ \A g \in Frames(gs) : g.op \in A
             /\ stack' = s => Rooted(stack') /\ Active' = {f} \cup Frames(Tail(stack))
<1> DEFINE t == Tail(stack)
           s == <<f>> \o t
<1>1. t \in Seq(Frame) /\ Rooted(t) /\ NoneOf(InnerOps, t)
  BY RootTop
<1>2. gs \in Seq(Frame) /\ gs \in Only(Ops \ RootOps) /\ <<>> \in Only(Ops \ RootOps)
      /\ <<f>> \in Seq(Frame)
  BY OnlyWider, OnlyFacts, SeqFacts DEF Only
<1> HIDE DEF t
<1>3. Rooted(gs \o s) /\ Rooted(s) /\ s \in Seq(Frame)
  <2>1. s \in Seq(Frame) /\ Rooted(s)
    BY <1>1, <1>2, RootedSteps, SeqFacts
  <2> QED BY <1>1, <1>2, <2>1, Rises
<1>4. Frames(s) = {f} \cup Frames(t)
  <2>1. Frames(<<f>>) = {f}
    BY FramesOf
  <2>2. \A u \in Seq(Frame) : Frames(<<f>> \o u) = Frames(<<f>>) \cup Frames(u)
    BY <1>2, FramesOf
  <2> QED BY <1>1, <2>1, <2>2
<1> HIDE DEF s
<1>5. Frames(gs \o s) = Frames(gs) \cup Frames(s)
  BY <1>2, <1>3, FramesOf
<1>6. \A g \in Frames(gs) : g.op \in A
  BY DEF Only, Frames
<1> QED BY <1>3, <1>4, <1>5, <1>6 DEF s, t, Active

-----------------------------------------------------------------------------
(* Messages.                                                               *)

\* A message is sent to clients only by the read loop, and only to attached ones;
\* none waits for another; and a send loop serves an attached client.
MessageInv ==
  /\ Rooted(stack)
  /\ msg # None => Has({"read"})
  /\ todo \subseteq clients
  /\ \A c \in Clients \ clients : sendQueue[c] = <<>> /\ queueSize[c] = 0
  /\ \A f \in Active : f.op \in PushOps => f.c \in clients /\ FlowControl
  /\ \A f \in Active : f.op = "free" => f = FC("free", f.c)

\* Most steps leave alone what the reading side is about, and these frames.
KeepOps == RootOps \cup ReadOps
Open    == {"open", "mig", "late"}

Still ==
  /\ Moves(Ops \ KeepOps, Ops \ KeepOps)
  /\ UNCHANGED <<clients, sendVars, serial, lastRead, msg, todo, max>>
  /\ \A c \in clients : conn'[c] \in Open => conn[c] \in Open

LEMMA StillFrames ==
  ASSUME TypeOK, Moves(Ops \ KeepOps, Ops \ KeepOps)
  PROVE  /\ \A f : f.op \in KeepOps => (f \in Active' <=> f \in Active)
         /\ \A L \in SUBSET KeepOps : Has(L)' <=> Has(L)
<1>1. \A f \in Active : f.op \notin Ops \ KeepOps => f \in Active'
  BY MovesFrames
<1>2. \A f \in Active' : f.op \notin Ops \ KeepOps => f \in Active
  BY MovesFrames
<1>3. \A f : f.op \in KeepOps => (f \in Active' <=> f \in Active)
  BY <1>1, <1>2
<1> QED BY <1>3 DEF Has

\* The steps of the channels and of the write loop, and most events.
LEMMA StillMoves ==
  \A A, T \in SUBSET (Ops \ KeepOps) : Moves(A, T) => Moves(Ops \ KeepOps, Ops \ KeepOps)
BY MovesWider

LEMMA ChannelStill ==
  ASSUME TypeOK, NEW c \in Clients, Channel(c) \/ Writable(c) \/ PeerCloses(c)
  PROVE  Still
<1>1. Moves(Ops \ KeepOps, Ops \ KeepOps)
  <2>1. {WakeOps \cup ChannelOps, ChannelOps} \subseteq SUBSET (Ops \ KeepOps)
    BY DEF WakeOps, ChannelOps, KeepOps, RootOps, PushOps, ReadOps, Ops
  <2> QED BY <2>1, ChannelMoves, StillMoves
<1>2. UNCHANGED <<clients, sendVars, serial, lastRead, msg, todo, max>>
  BY DEF Channel, FlushSend, FlushStop, FlushFail, HangupItem, HangupEnd, Writable, PeerCloses,
         poolVars, guestVars, readLocals
<1>3. conn' = conn \/ conn' = [conn EXCEPT ![c] = "closed"]
  BY DEF Channel, FlushSend, FlushStop, FlushFail, HangupItem, HangupEnd, Writable, PeerCloses,
         chanVars
<1>4. \A d \in clients : conn'[d] \in Open => conn[d] \in Open
  BY <1>3 DEF TypeOK, DeviceTypes, ChanTypes, Open
<1> QED BY <1>1, <1>2, <1>4 DEF Still

LEMMA WritingStill ==
  ASSUME ConstantsOK, TypeOK, Writing
  PROVE  Still
<1>1. Moves(Ops \ KeepOps, Ops \ KeepOps)
  <2>1. {WakeOps \cup WritingOps \cup {"flush"}, WritingOps} \subseteq SUBSET (Ops \ KeepOps)
    BY DEF WakeOps, WritingOps, KeepOps, RootOps, PushOps, ReadOps, Ops
  <2> QED BY <2>1, WritingMoves, StillMoves
<1>2. UNCHANGED <<clients, sendVars, serial, lastRead, msg, todo, max, conn>>
  <2>1. CASE WriteRefused \/ WriteNested \/ WriteBegin
    BY <2>1 DEF WriteRefused, WriteNested, WriteBegin, poolVars, chanVars, guestVars, readLocals
  <2>2. CASE WriteAll \/ WritePart \/ WriteNone
    BY <2>2 DEF WriteAll, WritePart, WriteNone, WriteSome, poolVars, chanVars, guestVars,
                readLocals
  <2>3. CASE WriteRelease
    BY <2>3 DEF WriteRelease, poolVars, guestVars, readLocals
  <2>4. CASE WriteAgain \/ WriteEnd
    BY <2>4 DEF WriteAgain, WriteEnd, poolVars, chanVars, guestVars, readLocals
  <2> QED BY <2>1, <2>2, <2>3, <2>4 DEF Writing
<1> QED BY <1>1, <1>2 DEF Still

\* Calls from the main loop that bring no tokens and no client.
LEMMA EventsStill ==
  ASSUME ConstantsOK, TypeOK, DeviceInv,
         \/ WriteRetry \/ MouseEvent \/ GuestWrites \/ Start \/ StartLoop \/ Stop
         \/ \E c \in Clients : \/ BufGet(c) \/ BufStale(c) \/ BufAdd(c) \/ BufGiveBack(c)
                               \/ Connect(c) \/ RestoreLate(c)
  PROVE  Still
<1>1. Moves(Ops \ KeepOps, Ops \ KeepOps)
  <2>1. /\ WakeOps \cup {"flush", "start", "startW", "startR"} \in SUBSET (Ops \ KeepOps)
        /\ {"start", "startW", "startR"} \in SUBSET (Ops \ KeepOps)
        /\ Ops \ KeepOps \in SUBSET Ops
    BY DEF WakeOps, KeepOps, RootOps, PushOps, ReadOps, Ops
  <2>2. CASE Stop
    <3>1. stack' = stack
      BY <2>2 DEF Stop
    <3> QED BY <2>1, <3>1, MovesSteps
  <2>3. CASE ~Stop
    <3>1. Moves(WakeOps \cup {"flush", "start", "startW", "startR"}, {"start", "startW", "startR"})
      BY <2>3, CallingMoves
    <3> QED BY <2>1, <3>1, StillMoves
  <2> QED BY <2>2, <2>3
<1>2. UNCHANGED <<clients, sendVars, serial, lastRead, msg, todo, max>>
  <2>1. CASE WriteRetry \/ MouseEvent \/ GuestWrites \/ Start \/ StartLoop \/ Stop
    BY <2>1 DEF WriteRetry, MouseEvent, GuestWrites, Start, StartLoop, Stop, poolVars, guestVars,
                readLocals
  <2>2. CASE \E c \in Clients : BufGet(c) \/ BufStale(c) \/ BufAdd(c) \/ BufGiveBack(c)
    BY <2>2 DEF BufGet, BufStale, BufAdd, BufGiveBack, poolVars, guestVars, readLocals
  <2>3. CASE \E c \in Clients : Connect(c) \/ RestoreLate(c)
    BY <2>3 DEF Connect, RestoreLate, poolVars, guestVars, readLocals
  <2> QED BY <2>1, <2>2, <2>3
<1>3. \A c \in clients : conn'[c] \in Open => conn[c] \in Open
  <2>1. CASE WriteRetry \/ MouseEvent \/ GuestWrites \/ Start \/ StartLoop \/ Stop
    BY <2>1 DEF WriteRetry, MouseEvent, GuestWrites, Start, StartLoop, Stop, chanVars
  <2>2. CASE \E c \in Clients : BufGet(c) \/ BufStale(c) \/ BufAdd(c) \/ BufGiveBack(c)
    BY <2>2 DEF BufGet, BufStale, BufAdd, BufGiveBack, chanVars
  <2>3. ASSUME NEW c \in Clients, Connect(c) PROVE \A d \in clients : conn'[d] = conn[d]
    <3>1. conn[c] = "none" /\ conn' = [conn EXCEPT ![c] = "open"]
      BY <2>3 DEF Connect
    <3> QED BY <3>1 DEF DeviceInv, TypeOK, DeviceTypes, ChanTypes
  <2>4. ASSUME NEW c \in Clients, RestoreLate(c), NEW d \in clients, conn'[d] \in Open
        PROVE  conn[d] \in Open
    <3>1. conn[c] = "late" /\ conn' = [conn EXCEPT ![c] = "open"]
      BY <2>4 DEF RestoreLate
    <3> QED BY <2>4, <3>1 DEF TypeOK, DeviceTypes, ChanTypes, Open
  <2> QED BY <2>1, <2>2, <2>3, <2>4
<1> QED BY <1>1, <1>2, <1>3 DEF Still

\* A client's buffers are dropped, and its removal and its end are reported.
LEMMA RemovingStill ==
  ASSUME ConstantsOK, TypeOK, RemovalInv, NEW c \in Clients, RemovedEnd \/ FreeWritten(c) \/ Gone(c)
  PROVE  Still
<1> DEFINE A == Ops \ KeepOps
<1>0. A \in SUBSET Ops /\ {"write?", "read?", "removed", "gone"} \subseteq A
  BY DEF Ops, KeepOps, RootOps, PushOps, ReadOps
<1>1. Moves(A, A)
  <2>1. \/ stack' = stack
        \/ stack # <<>> /\ Top.op \in {"removed", "gone"}
           /\ (Return \/ Become(<<F("read?")>>) \/ Become(<<F("write?")>>))
    BY DEF RemovedEnd, FreeWritten, Gone, At, Top
  <2> HIDE DEF A
  <2> QED BY <1>0, <2>1, OnlyFacts, MovesSteps
<1>2. UNCHANGED <<clients, sendVars, serial, lastRead, msg, todo, max>>
  BY DEF RemovedEnd, FreeWritten, Gone, poolVars, guestVars, readLocals
<1>3. \A d \in clients : conn'[d] \in Open => conn[d] \in Open
  <2>1. CASE RemovedEnd \/ FreeWritten(c)
    BY <2>1 DEF RemovedEnd, FreeWritten, chanVars
  <2>2. CASE Gone(c)
    BY <2>2 DEF Gone, TypeOK, DeviceTypes, ChanTypes, Open
  <2> QED BY <2>1, <2>2
<1> QED BY <1>1, <1>2, <1>3 DEF Still

LEMMA MessageStill ==
  ASSUME TypeOK, MessageInv, Still
  PROVE  MessageInv'
<1>1. Rooted(stack')
  <2>1. Ops \ KeepOps \subseteq Ops \ RootOps
    BY DEF KeepOps
  <2> QED BY <2>1, MovesRooted DEF Still, MessageInv
<1>2. \A f : f.op \in KeepOps => (f \in Active' <=> f \in Active)
  BY StillFrames DEF Still
<1>3. Has({"read"})' <=> Has({"read"})
  BY <1>2 DEF Has, KeepOps, ReadOps
<1>4. \A f \in Active' : /\ f.op \in PushOps => f.c \in clients' /\ FlowControl
                         /\ f.op = "free" => f = FC("free", f.c)
  <2>1. PushOps \cup {"free"} \subseteq KeepOps
    BY DEF KeepOps, RootOps
  <2>2. \A f \in Active' : f.op \in PushOps \cup {"free"} => f \in Active
    BY <1>2, <2>1
  <2>3. clients' = clients
    BY DEF Still
  <2>4. \A f \in Active : /\ f.op \in PushOps => f.c \in clients /\ FlowControl
                          /\ f.op = "free" => f = FC("free", f.c)
    BY DEF MessageInv
  <2> QED BY <2>2, <2>3, <2>4
<1>5. UNCHANGED <<clients, msg, todo, sendQueue, queueSize>>
  BY DEF Still, sendVars
<1> QED BY <1>1, <1>3, <1>4, <1>5 DEF MessageInv

\* The frames that a step of the read loop leaves.
LEMMA ReadingFrames ==
  ASSUME TypeOK, Rooted(stack), Reading
  PROVE  /\ Rooted(stack') /\ stack # <<>>
         /\ \A f : f.op \in RootOps => (f \in Active' <=> f \in Active)
         /\ \A f \in Active : f \in Active' \/ f = Top
         /\ SendDone \/ ReadMsg \/ ReadDiscard
            \/ (\E c \in Clients : SendNow(c) \/ SendOverflow(c) \/ SendLater(c))
              => Top \in Active /\ Top.op = "read" /\ Active \subseteq Active'
<1> DEFINE A == WakeOps \cup ReadingOps \cup {"flush"}
<1>0. A \subseteq Ops \ RootOps /\ ReadingOps \subseteq Ops \ RootOps /\ A \in SUBSET Ops
      /\ WakeOps \subseteq A /\ "flush" \in A
  BY DEF WakeOps, ReadingOps, RootOps, PushOps, Ops
<1>1. Moves(A, ReadingOps)
  BY ReadingMoves
<1> HIDE DEF A
<1>2. stack # <<>>
  BY DEF Reading, ReadRefused, ReadNested, ReadBegin, ReadMsg, ReadDiscard, ReadNothing, ReadAgain,
         ReadEnd, SendNow, SendOverflow, SendLater, SendDone, DropMsg, At
<1>3. Rooted(stack')
  BY <1>0, <1>1, MovesRooted
<1>4. \A f : f.op \in RootOps => (f \in Active' <=> f \in Active)
  BY <1>0, <1>1, MovesFrames
<1>5. Active = {Top} \cup Frames(Tail(stack)) /\ Top \in Active /\ Tail(stack) \in Seq(Frame)
  BY <1>2, RootTop
<1>6. \A fs \in Only(A) : /\ stack' = fs \o stack => Active' = Frames(fs) \cup Active
                          /\ stack' = fs \o Tail(stack) => Active' = Frames(fs) \cup Frames(Tail(stack))
  BY <1>2, FrameSteps DEF Only, Call, Become
<1>7. \A f \in Active : f \in Active' \/ f = Top
  BY <1>1, <1>5, <1>6 DEF Moves
<1>8. ASSUME SendDone \/ ReadMsg \/ ReadDiscard
             \/ (\E c \in Clients : SendNow(c) \/ SendOverflow(c) \/ SendLater(c))
      PROVE  Top.op = "read" /\ Active \subseteq Active'
  <2>1. Top.op = "read"
    BY <1>8 DEF ReadMsg, ReadDiscard, SendNow, SendOverflow, SendLater, SendDone, DropMsg, At, Top
  <2>2. CASE SendDone
    <3>1. Unref(msg, stack)
      BY <2>2 DEF SendDone, DropMsg
    <3> QED BY <1>0, <1>6, <2>1, <3>1, UnrefOver
  <2>3. CASE ReadMsg \/ \E c \in Clients : SendOverflow(c) \/ SendLater(c)
    <3>1. stack' = stack
      BY <2>3 DEF ReadMsg, SendOverflow, SendLater
    <3> QED BY <2>1, <3>1 DEF Active
  <2>4. CASE ReadDiscard
    <3>1. Call(Wakeup)
      BY <2>4 DEF ReadDiscard
    <3>2. Wakeup \in Only(A)
      BY <1>0, OnlyFacts
    <3> QED BY <1>6, <2>1, <3>1, <3>2 DEF Call
  <2>5. ASSUME NEW c \in Clients, SendNow(c) PROVE Active \subseteq Active'
    <3>1. \E item : PushItem(c, item, stack)
      BY <2>5 DEF SendNow, SendMsg
    <3> QED BY <1>0, <1>6, <3>1, PushItemOver
  <2> QED BY <1>8, <2>1, <2>2, <2>3, <2>4, <2>5
<1> QED BY <1>2, <1>3, <1>4, <1>5, <1>7, <1>8

LEMMA ReadingMessage ==
  ASSUME ConstantsOK, TypeOK, MessageInv, Reading
  PROVE  MessageInv'
<1>1. clients' = clients
  BY DEF Reading, ReadRefused, ReadNested, ReadBegin, ReadMsg, ReadDiscard, ReadNothing, ReadAgain,
         ReadEnd, SendNow, SendOverflow, SendLater, SendDone, DropMsg
<1>2. /\ Rooted(stack') /\ stack # <<>>
      /\ \A f \in Active' : f.op \in PushOps => f.c \in clients /\ FlowControl
      /\ \A f \in Active' : f.op = "free" => f = FC("free", f.c)
  BY ReadingFrames DEF MessageInv, RootOps
<1>3. todo' \subseteq clients'
  BY <1>1 DEF MessageInv, Reading, ReadRefused, ReadNested, ReadBegin, ReadMsg, ReadDiscard,
         ReadNothing, ReadAgain, ReadEnd, SendNow, SendOverflow, SendLater, SendDone, DropMsg,
         readLocals
<1>4. msg' # None => Has({"read"})'
  <2>1. CASE SendDone
    BY <2>1 DEF SendDone, DropMsg
  <2>2. CASE ReadMsg \/ ReadDiscard
             \/ \E c \in Clients : SendNow(c) \/ SendOverflow(c) \/ SendLater(c)
    BY <2>2, ReadingFrames DEF MessageInv, Has
  <2>3. CASE ReadRefused \/ ReadNested \/ ReadBegin \/ ReadNothing \/ ReadAgain \/ ReadEnd
    <3>1. msg' = msg /\ (Top.op # "read" \/ msg = None)
      BY <2>3 DEF ReadRefused, ReadNested, ReadBegin, ReadNothing, ReadAgain, ReadEnd, readLocals,
                  At, Top
    <3>2. \A f \in Active : f \in Active' \/ f = Top
      BY ReadingFrames DEF MessageInv
    <3> QED BY <3>1, <3>2 DEF MessageInv, Has
  <2> QED BY <2>1, <2>2, <2>3 DEF Reading
<1>5. \A c \in Clients \ clients' : sendQueue'[c] = <<>> /\ queueSize'[c] = 0
  <2>1. ASSUME NEW d \in Clients, SendLater(d), NEW c \in Clients \ clients
        PROVE  sendQueue'[c] = <<>> /\ queueSize'[c] = 0
    <3>1. d \in todo /\ c # d
      BY <2>1 DEF SendLater, MessageInv
    <3>2. sendQueue' = [sendQueue EXCEPT ![d] = Enqueue(@, msg)]
          /\ queueSize' = [queueSize EXCEPT ![d] = @ + 1]
      BY <2>1 DEF SendLater
    <3> QED BY <3>1, <3>2 DEF MessageInv, TypeOK, SendTypes
  <2>2. CASE \A d \in Clients : ~SendLater(d)
    <3>1. UNCHANGED <<sendQueue, queueSize>>
      BY <2>2 DEF Reading, ReadRefused, ReadNested, ReadBegin, ReadMsg, ReadDiscard, ReadNothing,
             ReadAgain, ReadEnd, SendNow, SendOverflow, SendDone, DropMsg, sendVars
    <3> QED BY <1>1, <3>1 DEF MessageInv
  <2> QED BY <1>1, <2>1, <2>2
<1> QED BY <1>1, <1>2, <1>3, <1>4, <1>5 DEF MessageInv

-----------------------------------------------------------------------------
(* The frames that the other steps leave.                                  *)

LEMMA PushingFrames ==
  ASSUME TypeOK, Rooted(stack), NEW c \in Clients, Pushing(c)
  PROVE  LET R == Frames(Tail(stack))
         IN  /\ stack # <<>> /\ Top.c = c /\ Top.op \in PushingOps /\ Rooted(stack')
             /\ Active = {Top} \cup R /\ \A f \in R : f \in Frame /\ f.op \notin InnerOps
             /\ PushOne(c) =>
                  \E G : /\ Active' = G \cup {[op |-> "pushed", c |-> c, b |-> Head(sendQueue[c])]} \cup R
                         /\ \A g \in G : g.op = "flush"
             /\ PushUnref(c) => \E G : /\ Active' = G \cup {FC("shrink", c)} \cup R
                                       /\ \A g \in G : g.op \in WakeOps
             /\ PushShrink(c) => Active' = {FC("push", c)} \cup R
             /\ PushEnd(c) => Active' = R
             /\ AbsorbEnd(c) => \/ ~CanSend(c) /\ Active' = R
                                \/ CanSend(c) /\ Active' = {F("read?")} \cup R
<1> DEFINE R == Frames(Tail(stack))
<1>1. stack # <<>> /\ Top.c = c /\ Top.op \in PushingOps /\ Top.op \in RootOps
  BY DEF Pushing, PushOne, PushUnref, PushShrink, PushEnd, AbsorbEnd, At, Top, PushingOps, RootOps,
         PushOps
<1>2. /\ Active = {Top} \cup R /\ \A f \in R : f \in Frame /\ f.op \notin InnerOps
      /\ Return => Active' = R /\ Rooted(stack')
  BY <1>1, RootTop
<1>3. /\ {{"flush"}, WakeOps, {"read?"}} \subseteq SUBSET (Ops \ RootOps)
      /\ {"push", "shrink", "pushed", "read?"} \subseteq Ops
      /\ {{"flush"}, WakeOps, {"read?"}} \subseteq SUBSET Ops
  BY DEF WakeOps, RootOps, PushOps, Ops
<1>4. ASSUME PushOne(c)
      PROVE  /\ Rooted(stack')
             /\ \E G : /\ Active' = G \cup {[op |-> "pushed", c |-> c, b |-> Head(sendQueue[c])]} \cup R
                       /\ \A g \in G : g.op = "flush"
  <2> DEFINE b == Head(sendQueue[c])
             f == [op |-> "pushed", c |-> c, b |-> b]
  <2>1. b \in Bufs /\ f \in Frame
    <3>1. sendQueue[c] # <<>> /\ sendQueue[c] \in Seq(Bufs)
      BY <1>4 DEF PushOne, TypeOK, SendTypes
    <3>2. b \in Bufs
      BY <3>1, SeqFacts
    <3> QED BY <1>3, <3>2 DEF Frame
  <2>2. PushItem(c, DataItem(b), <<f>> \o Tail(stack))
    BY <1>4 DEF PushOne, SendMsg
  <2> HIDE DEF b, f
  <2>3. PICK gs \in Only({"flush"}) : stack' = gs \o (<<f>> \o Tail(stack))
    BY <1>3, <2>2, PushItemOver
  <2>4. /\ Rooted(stack') /\ Active' = Frames(gs) \cup {f} \cup R
        /\ \A g \in Frames(gs) : g.op \in {"flush"}
    BY <1>1, <1>3, <2>1, <2>3, RootTurn
  <2> QED BY <2>4 DEF f, b
<1>5. ASSUME PushUnref(c)
      PROVE  /\ Rooted(stack')
             /\ \E G : /\ Active' = G \cup {FC("shrink", c)} \cup R /\ \A g \in G : g.op \in WakeOps
  <2> DEFINE f == FC("shrink", c)
  <2>1. f \in Frame
    BY <1>3 DEF FC, Frame
  <2>2. Unref(Top.b, <<f>> \o Tail(stack))
    BY <1>5 DEF PushUnref
  <2> HIDE DEF f
  <2>3. PICK gs \in Only(WakeOps) : stack' = gs \o (<<f>> \o Tail(stack))
    BY <1>3, <2>2, UnrefOver
  <2>4. /\ Rooted(stack') /\ Active' = Frames(gs) \cup {f} \cup R
        /\ \A g \in Frames(gs) : g.op \in WakeOps
    BY <1>1, <1>3, <2>1, <2>3, RootTurn
  <2> QED BY <2>4 DEF f
<1>6. ASSUME PushShrink(c) PROVE Rooted(stack') /\ Active' = {FC("push", c)} \cup R
  <2>1. FC("push", c) \in Frame /\ stack' = <<FC("push", c)>> \o Tail(stack)
    BY <1>3, <1>6 DEF FC, Frame, PushShrink, Become
  <2>2. <<>> \in Only(WakeOps)
    BY <1>3, OnlyFacts
  <2> QED BY <1>1, <1>3, <2>1, <2>2, RootTurn
<1>7. ASSUME PushEnd(c) PROVE Rooted(stack') /\ Active' = R
  BY <1>2, <1>7 DEF PushEnd
<1>8. ASSUME AbsorbEnd(c)
      PROVE  /\ Rooted(stack')
             /\ \/ ~CanSend(c) /\ Active' = R
                \/ CanSend(c) /\ Active' = {F("read?")} \cup R
  <2>1. CASE CanSend(c) /\ Become(<<F("read?")>>)
    <3>1. <<F("read?")>> \in Only({"read?"}) /\ <<F("read?")>> \in Seq(Frame)
      BY <1>3, OnlyFacts
    <3>2. Moves({"read?"}, PushingOps)
      BY <1>1, <1>3, <2>1, <3>1, MovesSteps
    <3>3. Rooted(stack')
      BY <1>3, <3>2, MovesRooted
    <3>4. Active' = Frames(<<F("read?")>>) \cup R
      BY <1>1, <2>1, <3>1, FrameSteps
    <3> QED BY <2>1, <3>3, <3>4, FramesOf
  <2>2. CASE ~CanSend(c) /\ Return
    BY <1>2, <2>2
  <2> QED BY <1>8, <2>1, <2>2 DEF AbsorbEnd
<1> QED BY <1>1, <1>2, <1>4, <1>5, <1>6, <1>7, <1>8 DEF Pushing

\* What events of the main loop put on the empty stack.
LEMMA IdleFrames ==
  ASSUME TypeOK, stack = <<>>
  PROVE  /\ Active = {}
         /\ stack' = stack => Active' = {} /\ Rooted(stack')
         /\ \A f \in Frame : Call(<<f>>) \/ stack' = <<f>> => Active' = {f} /\ Rooted(stack')
         /\ Call(Wakeup) => Active' = {F("write?"), F("read?")} /\ Rooted(stack')
<1>1. Active = {}
  BY HasFrames
<1>2. stack' = stack => Active' = {} /\ Rooted(stack')
  BY FramesOf, RootedSteps DEF Active
<1>3. ASSUME NEW f \in Frame, Call(<<f>>) \/ stack' = <<f>> PROVE Active' = {f} /\ Rooted(stack')
  <2>1. <<f>> \in Seq(Frame) /\ Frames(<<f>>) = {f}
    BY SeqFacts, FramesOf
  <2>2. stack' = <<f>>
    BY <1>3, <2>1, ConcatEmptySeq DEF Call
  <2> QED BY <2>1, <2>2, RootedSteps DEF Active
<1>4. ASSUME Call(Wakeup) PROVE Active' = {F("write?"), F("read?")} /\ Rooted(stack')
  <2>1. Wakeup \in Seq(Frame) /\ Frames(Wakeup) = {F("write?"), F("read?")}
    BY FrameFacts, FramesOf DEF Wakeup
  <2>2. stack' = Wakeup
    BY <1>4, <2>1, ConcatEmptySeq DEF Call
  <2>3. Wakeup \in Only(WakeOps) /\ WakeOps \subseteq Ops \ RootOps
    BY OnlyFacts DEF WakeOps, Ops, RootOps, PushOps
  <2>4. Wakeup \in Only(Ops \ RootOps) /\ Wakeup \o <<>> = Wakeup /\ <<>> \in Seq(Frame)
    BY <2>1, <2>3, OnlyWider, ConcatEmptySeq, SeqFacts
  <2>5. Rooted(Wakeup)
    BY <2>4, RootedSteps
  <2> QED BY <2>1, <2>2, <2>5 DEF Active
<1> QED BY <1>1, <1>2, <1>3, <1>4

LEMMA TokensFrames ==
  ASSUME TypeOK, NEW c \in Clients, \E n \in 0..MaxSend : TokensSet(c, n) \/ TokensAdd(c, n)
  PROVE  /\ stack = <<>> /\ Active = {} /\ Rooted(stack')
         /\ \/ queueSize[c] > 0 /\ Active' = {FC("push", c), FC("absorb", c)}
            \/ ~(queueSize[c] > 0) /\ Active' = {FC("absorb", c)}
<1> DEFINE p == IF queueSize[c] > 0 THEN <<FC("push", c)>> ELSE <<>>
           a == <<FC("absorb", c)>>
<1>1. stack = <<>> /\ Call(p \o a)
  BY DEF TokensSet, TokensAdd, Absorb, Idle
<1>2. FC("push", c) \in Frame /\ FC("absorb", c) \in Frame
  BY DEF FC, Frame, Ops
<1>3. a \in Seq(Frame) /\ <<FC("push", c)>> \in Seq(Frame) /\ Rooted(a) /\ NoneOf(InnerOps, a)
  <2>1. a \in Seq(Frame) /\ <<FC("push", c)>> \in Seq(Frame)
    BY <1>2, SeqFacts
  <2>2. Rooted(a) /\ NoneOf(InnerOps, a)
    BY RootedSteps DEF NoneOf, InnerOps, PushOps, FC
  <2> QED BY <2>1, <2>2
<1>4. CASE queueSize[c] > 0
  <2>1. p = <<FC("push", c)>> /\ Frames(p) = {FC("push", c)} /\ Frames(a) = {FC("absorb", c)}
    BY <1>4, FramesOf
  <2>2. p \o a \in Seq(Frame) /\ Rooted(p \o a)
    BY <1>2, <1>3, <2>1, RootedSteps, SeqFacts
  <2> HIDE DEF p, a
  <2>3. stack' = p \o a
    BY <1>1, <2>2, ConcatEmptySeq DEF Call
  <2>4. Frames(p \o a) = Frames(p) \cup Frames(a)
    BY <1>3, <2>1, FramesOf
  <2>5. Active' = {FC("push", c), FC("absorb", c)}
    BY <2>1, <2>3, <2>4 DEF Active
  <2> QED BY <1>1, <1>4, <2>2, <2>3, <2>5, IdleFrames
<1>5. CASE ~(queueSize[c] > 0)
  <2>1. p = <<>>
    BY <1>5
  <2> HIDE DEF p
  <2>2. p \o a = a
    BY <1>3, <2>1, ConcatEmptySeq
  <2> QED BY <1>1, <1>2, <1>5, <2>2, IdleFrames
<1> QED BY <1>4, <1>5

LEMMA LeavingFrames ==
  ASSUME ConstantsOK, TypeOK, NEW c \in Clients, ClientDisconnect(c) \/ RestoreNone(c)
  PROVE  /\ stack = <<>> /\ Active = {} /\ Rooted(stack')
         /\ \A f \in Active' : f = FC("free", c) \/ f.op \in {"hangup", "gone", "removed"}
<1> DEFINE O == {"hangup", "gone", "removed"}
           f == FC("free", c)
<1>1. PICK s \in Only(O) : stack' = s \/ stack' = <<f>> \o s
  BY LeavingMoves
<1>2. stack = <<>> /\ Active = {}
  BY LeavingMoves, HasFrames
<1>3. f \in Frame /\ O \in SUBSET (Ops \ RootOps) /\ O \cap InnerOps = {}
  BY DEF Ops, RootOps, PushOps, InnerOps, FC, Frame
<1> HIDE DEF O, f
<1>4. s \in Seq(Frame) /\ NoneOf(InnerOps, s) /\ \A g \in Frames(s) : g.op \in O
  BY <1>3 DEF Only, NoneOf, Frames
<1>5. Rooted(s)
  <2>1. s \in Only(Ops \ RootOps) /\ <<>> \in Seq(Frame) /\ s \o <<>> = s
    BY <1>3, <1>4, OnlyWider, SeqFacts, ConcatEmptySeq
  <2> QED BY <2>1, RootedSteps
<1>6. Rooted(<<f>> \o s)
  BY <1>3, <1>4, <1>5, RootedSteps
<1>7. Frames(<<f>> \o s) = {f} \cup Frames(s)
  <2>1. <<f>> \in Seq(Frame) /\ Frames(<<f>>) = {f}
    BY <1>3, SeqFacts, FramesOf
  <2>2. \A t \in Seq(Frame) : Frames(<<f>> \o t) = Frames(<<f>>) \cup Frames(t)
    BY <2>1, FramesOf
  <2> QED BY <1>4, <2>1, <2>2
<1> QED BY <1>1, <1>2, <1>4, <1>5, <1>6, <1>7 DEF Active, O, f

LEMMA FreeFrames ==
  ASSUME TypeOK, Rooted(stack), NEW c \in Clients, FreeQueued(c) \/ FreeEnd(c)
  PROVE  LET R == Frames(Tail(stack))
         IN  /\ stack # <<>> /\ Top.op = "free" /\ Top.c = c /\ Rooted(stack')
             /\ Active = {Top} \cup R /\ \A f \in R : f \in Frame /\ f.op \notin InnerOps
             /\ FreeQueued(c) => \E G : Active' = G \cup Active /\ \A g \in G : g.op \in WakeOps
             /\ FreeEnd(c) => Active' = R
<1> DEFINE R == Frames(Tail(stack))
<1>1. stack # <<>> /\ Top.op = "free" /\ Top.c = c /\ Top.op \in RootOps
  BY DEF FreeQueued, FreeEnd, At, Top, RootOps
<1>2. /\ Active = {Top} \cup R /\ \A f \in R : f \in Frame /\ f.op \notin InnerOps
      /\ Return => Active' = R /\ Rooted(stack')
  BY <1>1, RootTop
<1>3. WakeOps \in SUBSET (Ops \ RootOps) /\ WakeOps \in SUBSET Ops
  BY DEF WakeOps, RootOps, PushOps, Ops
<1>4. ASSUME FreeQueued(c)
      PROVE  Rooted(stack') /\ \E G : Active' = G \cup Active /\ \A g \in G : g.op \in WakeOps
  <2>1. PICK gs \in Only(WakeOps) : stack' = gs \o stack
    BY <1>3, <1>4, UnrefOver DEF FreeQueued
  <2>2. Rooted(stack')
    <3>1. Moves(WakeOps, {})
      BY <2>1 DEF Moves
    <3> QED BY <1>3, <3>1, MovesRooted
  <2>3. gs \in Seq(Frame) /\ \A g \in Frames(gs) : g.op \in WakeOps
    BY DEF Only, Frames
  <2>4. Active' = Frames(gs) \cup Active
    BY <2>1, <2>3, FrameSteps DEF Call
  <2> QED BY <2>2, <2>3, <2>4
<1> QED BY <1>1, <1>2, <1>4 DEF FreeEnd

\* The end of the device, and of its reset, and the clients it is left with.
LEMMA EndingFrames ==
  ASSUME ConstantsOK, TypeOK, Rooted(stack), Detach \/ Destroy \/ ResetRelease \/ ResetQueues
  PROVE  LET R == Frames(Tail(stack))
         IN  /\ Rooted(stack')
             /\ Detach => /\ stack = <<>> /\ Active = {}
                          /\ Active' = {F("destroy")} \/ Active' = {F("reset")}
             /\ ~Detach => /\ stack # <<>> /\ Active = {Top} \cup R
                           /\ \A f \in R : f \in Frame /\ f.op \notin InnerOps
             /\ Destroy => /\ Top.op = "destroy"
                           /\ \/ clients = {} /\ Active' = R
                              \/ \E c \in clients : Active' = {FC("free", c)} \cup Active
             /\ ResetRelease => \E G : /\ Active' = G \cup R
                                       /\ \A g \in G : g.op \in {"flush", "reset", "reset2"}
             /\ ResetQueues => Active' = R
<1> DEFINE R == Frames(Tail(stack))
<1>0. {F("destroy"), F("reset"), F("reset2")} \subseteq Frame
  BY DEF F, Frame, Ops
<1>1. CASE Detach
  <2>1. stack = <<>> /\ (Call(<<F("destroy")>>) \/ Call(<<F("reset")>>))
    BY <1>1 DEF Detach, Idle
  <2> QED BY <1>0, <2>1, IdleFrames DEF Detach, Destroy, ResetRelease, ResetQueues, At
<1>2. CASE Destroy
  <2>1. stack # <<>> /\ Top.op = "destroy" /\ ~Idle /\ Top.op \in RootOps
        /\ ~ResetRelease /\ ~ResetQueues /\ ~Detach
    BY <1>2 DEF Destroy, At, Top, Idle, RootOps, ResetRelease, ResetQueues, Detach
  <2>2. /\ Active = {Top} \cup R /\ \A f \in R : f \in Frame /\ f.op \notin InnerOps
        /\ Return => Active' = R /\ Rooted(stack')
        /\ NoneOf(InnerOps, Tail(stack)) /\ Tail(stack) \in Seq(Frame)
    BY <2>1, RootTop
  <2>3. CASE clients = {}
    BY <1>2, <2>1, <2>2, <2>3 DEF Destroy
  <2>4. CASE clients # {}
    <3>1. PICK c \in clients : Call(<<FC("free", c)>>)
      BY <1>2, <2>4 DEF Destroy
    <3>2. FC("free", c) \in Frame /\ <<FC("free", c)>> \in Seq(Frame)
      <4>1. FC("free", c) \in Frame
        BY DEF FC, Frame, Ops, TypeOK, DeviceTypes
      <4> QED BY <4>1, SeqFacts
    <3>3. Active' = {FC("free", c)} \cup Active
      BY <3>1, <3>2, FrameSteps, FramesOf
    <3>4. NoneOf(InnerOps, stack)
      <4>1. \A f \in Active : f.op \notin InnerOps
        BY <2>1, <2>2 DEF InnerOps, PushOps
      <4> QED BY <4>1, HasFrames DEF Has
    <3>5. Rooted(stack')
      <4>1. stack \in Seq(Frame)
        BY StackFacts
      <4> QED BY <3>1, <3>2, <3>4, <4>1, RootedSteps DEF Call
    <3> QED BY <2>1, <2>2, <3>3, <3>5
  <2> QED BY <2>3, <2>4
<1>3. CASE ResetRelease
  <2>1. stack # <<>> /\ Top.op = "reset" /\ ~Idle /\ Top.op \in RootOps
        /\ ~Destroy /\ ~ResetQueues /\ ~Detach
    BY <1>3 DEF Destroy, At, Top, Idle, RootOps, ResetRelease, ResetQueues, Detach
  <2>2. /\ Active = {Top} \cup R /\ \A f \in R : f \in Frame /\ f.op \notin InnerOps
        /\ Tail(stack) \in Seq(Frame) /\ <<F("reset2")>> \o Tail(stack) \in Seq(Frame)
    <3>1. <<F("reset2")>> \in Seq(Frame)
      BY <1>0, SeqFacts
    <3> QED BY <2>1, <3>1, RootTop, SeqFacts
  <2>3. {"flush"} \in SUBSET (Ops \ RootOps) /\ {"flush"} \in SUBSET Ops /\ stack \in Seq(Frame)
    BY StackFacts DEF RootOps, PushOps, Ops
  <2>4. \E gs \in Only({"flush"}) : \/ stack' = gs \o stack
                                    \/ stack' = gs \o (<<F("reset2")>> \o Tail(stack))
    <3>1. CASE \E buf, q : Release(buf, q, stack)
      BY <2>3, <3>1, ReleaseOver
    <3>2. CASE \E buf, q : Release(buf, q, <<F("reset2")>> \o Tail(stack))
      BY <2>2, <2>3, <3>2, ReleaseOver
    <3>3. CASE Become(<<F("reset2")>>)
      <4>1. <<>> \in Only({"flush"})
        BY <2>3, OnlyFacts
      <4>2. <<>> \o (<<F("reset2")>> \o Tail(stack)) = <<F("reset2")>> \o Tail(stack)
        BY <2>2, ConcatEmptySeq
      <4> QED BY <3>3, <4>1, <4>2 DEF Become
    <3> QED BY <1>3, <3>1, <3>2, <3>3 DEF ResetRelease
  <2>5. PICK gs \in Only({"flush"}) : \/ stack' = gs \o stack
                                      \/ stack' = gs \o (<<F("reset2")>> \o Tail(stack))
    BY <2>4
  <2>6. \A g \in Frames(gs) : g.op = "flush"
    BY DEF Only, Frames
  <2>7. CASE stack' = gs \o stack
    <3>1. Active' = Frames(gs) \cup Active
      BY <2>7, FrameSteps DEF Call, Only
    <3>2. Rooted(stack')
      <4>1. Moves({"flush"}, {})
        BY <2>7 DEF Moves
      <4> QED BY <2>3, <4>1, MovesRooted
    <3>3. Active' = (Frames(gs) \cup {Top}) \cup R
      BY <2>2, <3>1
    <3> QED BY <2>1, <2>2, <2>6, <3>2, <3>3
  <2>8. CASE stack' = gs \o (<<F("reset2")>> \o Tail(stack))
    <3>1. Rooted(stack') /\ Active' = Frames(gs) \cup {F("reset2")} \cup R
      BY <1>0, <2>1, <2>3, <2>8, RootTurn
    <3>2. F("reset2").op = "reset2"
      BY DEF F
    <3> QED BY <2>1, <2>2, <2>6, <3>1, <3>2
  <2> QED BY <2>5, <2>7, <2>8
<1>4. CASE ResetQueues
  <2>1. stack # <<>> /\ Top.op = "reset2" /\ ~Idle /\ Top.op \in RootOps /\ Return
        /\ ~Destroy /\ ~ResetRelease /\ ~Detach
    BY <1>4 DEF Destroy, At, Top, Idle, RootOps, ResetRelease, ResetQueues, Detach
  <2> QED BY <2>1, RootTop
<1> QED BY <1>1, <1>2, <1>3, <1>4

\* Clients are added, and migration data arrives, on the empty stack.
LEMMA AddingFrames ==
  ASSUME ConstantsOK, TypeOK,
         \/ \E c \in Clients, n \in 0..MaxSend : ClientAdd(c, n)
         \/ \E c \in Clients \cup {None}, vm \in BOOLEAN : Attach(c, vm)
         \/ Migrated
  PROVE  /\ stack = <<>> /\ Active = {} /\ Rooted(stack')
         /\ \A f \in Active' : f.op \in {"write?", "read?", "start"}
         /\ (\E c \in Clients, n \in 0..MaxSend : ClientAdd(c, n)) \/ Migrated => F("read?") \in Active'
         /\ \/ running' => F("start") \in Active'
            \/ F("read?") \in Active'
<1>1. /\ F("start") \in Frame
      /\ F("start").op = "start" /\ F("read?").op = "read?" /\ F("write?").op = "write?"
  BY DEF F, Frame, Ops
<1>2. CASE (\E c \in Clients, n \in 0..MaxSend : ClientAdd(c, n)) \/ Migrated
  <2>1. stack = <<>> /\ Call(Wakeup)
    BY <1>2 DEF ClientAdd, Migrated, Restore, Idle
  <2> QED BY <1>1, <2>1, IdleFrames
<1>3. CASE ~((\E c \in Clients, n \in 0..MaxSend : ClientAdd(c, n)) \/ Migrated)
  <2>1. PICK c \in Clients \cup {None}, vm \in BOOLEAN : Attach(c, vm)
    BY <1>3
  <2>2. stack = <<>> /\ running' = vm /\ stack' = IF vm THEN <<F("start")>> ELSE <<>>
    BY <2>1 DEF Attach, Idle
  <2>3. CASE vm
    BY <1>1, <1>3, <2>2, <2>3, IdleFrames
  <2>4. CASE ~vm
    BY <1>3, <2>2, <2>4, IdleFrames
  <2> QED BY <2>3, <2>4
<1> QED BY <1>2, <1>3

-----------------------------------------------------------------------------
(* Messages, continued.                                                    *)

LEMMA NoMessage ==
  ASSUME TypeOK, MessageInv, ~Has({"read"})
  PROVE  msg = None /\ todo = {}
BY DEF MessageInv, TypeOK, ReadTypes

LEMMA PushingMessage ==
  ASSUME ConstantsOK, TypeOK, MessageInv, NEW c \in Clients, Pushing(c)
  PROVE  MessageInv' /\ msg = None /\ clients' = clients
         /\ (~AbsorbEnd(c) => c \in clients /\ FlowControl)
<1> DEFINE R == Frames(Tail(stack))
<1>1. /\ stack # <<>> /\ Top.c = c /\ Top.op \in PushingOps /\ Rooted(stack')
      /\ Active = {Top} \cup R /\ \A f \in R : f \in Frame /\ f.op \notin InnerOps
  BY PushingFrames DEF MessageInv
<1>2. msg = None /\ todo = {}
  <2>1. ~Has({"read"})
    BY <1>1 DEF Has, InnerOps, PushOps, PushingOps
  <2> QED BY <2>1, NoMessage
<1>3. UNCHANGED <<clients, msg, todo>>
  BY DEF Pushing, PushOne, PushUnref, PushShrink, PushEnd, AbsorbEnd, readLocals
<1>4. ~AbsorbEnd(c) => c \in clients /\ FlowControl
  <2>1. ~AbsorbEnd(c) => Top.op \in PushOps
    BY DEF Pushing, PushOne, PushUnref, PushShrink, PushEnd, At, Top, PushOps
  <2> QED BY <1>1, <2>1 DEF MessageInv
<1>5. \A f \in Active' : \/ f \in R \/ f.op \in {"flush", "write?", "read?"}
                         \/ ~AbsorbEnd(c) /\ f.c = c /\ f.op \in PushOps
  <2> HIDE DEF R
  <2>1. CASE PushOne(c)
    <3>1. ~AbsorbEnd(c)
      BY <2>1 DEF PushOne, AbsorbEnd, At
    <3>2. \E G : /\ Active' = G \cup {[op |-> "pushed", c |-> c, b |-> Head(sendQueue[c])]} \cup R
                 /\ \A g \in G : g.op = "flush"
      BY <2>1, PushingFrames DEF MessageInv, R
    <3> QED BY <3>1, <3>2 DEF PushOps
  <2>2. CASE PushUnref(c)
    <3>1. ~AbsorbEnd(c)
      BY <2>2 DEF PushUnref, AbsorbEnd, At
    <3>2. \E G : Active' = G \cup {FC("shrink", c)} \cup R /\ \A g \in G : g.op \in WakeOps
      BY <2>2, PushingFrames DEF MessageInv, R
    <3> QED BY <3>1, <3>2 DEF PushOps, FC, WakeOps
  <2>3. CASE PushShrink(c)
    <3>1. ~AbsorbEnd(c)
      BY <2>3 DEF PushShrink, AbsorbEnd, At
    <3>2. Active' = {FC("push", c)} \cup R
      BY <2>3, PushingFrames DEF MessageInv, R
    <3> QED BY <3>1, <3>2 DEF PushOps, FC
  <2>4. CASE PushEnd(c) \/ AbsorbEnd(c)
    <3>1. Active' = R \/ Active' = {F("read?")} \cup R
      BY <2>4, PushingFrames DEF MessageInv, R
    <3> QED BY <3>1 DEF F
  <2> QED BY <2>1, <2>2, <2>3, <2>4 DEF Pushing
<1>6. \A f \in Active' : /\ f.op \in PushOps => f.c \in clients' /\ FlowControl
                         /\ f.op = "free" => f = FC("free", f.c)
  <2>1. PushOps \cup {"free"} \subseteq InnerOps /\ PushOps \cap {"flush", "write?", "read?", "free"} = {}
    BY DEF PushOps, InnerOps
  <2> QED BY <1>1, <1>3, <1>4, <1>5, <2>1
<1>7. \A d \in Clients \ clients' : sendQueue'[d] = <<>> /\ queueSize'[d] = 0
  <2>1. \/ sendQueue' = sendQueue
        \/ c \in clients /\ sendQueue' = [sendQueue EXCEPT ![c] = Tail(@)]
    BY <1>4 DEF Pushing, PushOne, PushUnref, PushShrink, PushEnd, AbsorbEnd, sendVars, At
  <2>2. \/ queueSize' = queueSize
        \/ c \in clients /\ queueSize' = [queueSize EXCEPT ![c] = @ - 1]
    BY <1>4 DEF Pushing, PushOne, PushUnref, PushShrink, PushEnd, AbsorbEnd, sendVars, At
  <2>3. \A d \in Clients \ clients : sendQueue'[d] = sendQueue[d] /\ queueSize'[d] = queueSize[d]
    BY <2>1, <2>2 DEF TypeOK, SendTypes
  <2> QED BY <1>3, <2>3 DEF MessageInv
<1> QED BY <1>1, <1>2, <1>3, <1>4, <1>6, <1>7 DEF MessageInv

LEMMA TokensMessage ==
  ASSUME ConstantsOK, TypeOK, MessageInv, NEW c \in Clients,
         WaitTimeout(c) \/ \E n \in 0..MaxSend : TokensSet(c, n) \/ TokensAdd(c, n)
  PROVE  MessageInv' /\ msg = None
<1>1. UNCHANGED <<clients, msg, todo, sendQueue, queueSize>>
  BY DEF WaitTimeout, TokensSet, TokensAdd, Absorb, readLocals
<1>2. CASE WaitTimeout(c)
  <2>1. stack = <<>> /\ stack' = stack
    BY <1>2 DEF WaitTimeout, Idle
  <2>2. Active = {} /\ Active' = {} /\ Rooted(stack')
    BY <2>1, IdleFrames
  <2>3. msg = None
    BY <2>2, NoMessage DEF Has
  <2> QED BY <1>1, <2>2, <2>3 DEF MessageInv
<1>3. CASE \E n \in 0..MaxSend : TokensSet(c, n) \/ TokensAdd(c, n)
  <2>1. /\ Active = {} /\ Rooted(stack')
        /\ Active' \subseteq {FC("push", c), FC("absorb", c)}
    BY <1>3, TokensFrames
  <2>2. msg = None
    BY <2>1, NoMessage DEF Has
  <2>3. c \in clients /\ FlowControl
    BY <1>3 DEF TokensSet, TokensAdd, Absorb
  <2>4. \A f \in Active' : /\ f.op \in PushOps => f.c \in clients' /\ FlowControl
                           /\ f.op = "free" => f = FC("free", f.c)
    BY <1>1, <2>1, <2>3 DEF FC
  <2> QED BY <1>1, <2>1, <2>2, <2>4 DEF MessageInv
<1> QED BY <1>2, <1>3

LEMMA LeavingMessage ==
  ASSUME ConstantsOK, TypeOK, MessageInv, NEW c \in Clients, ClientDisconnect(c) \/ RestoreNone(c)
  PROVE  MessageInv' /\ msg = None
<1>1. UNCHANGED <<clients, msg, todo, sendQueue, queueSize>>
  BY DEF ClientDisconnect, RestoreNone, sendVars, readLocals
<1>2. /\ Active = {} /\ Rooted(stack')
      /\ \A f \in Active' : f = FC("free", c) \/ f.op \in {"hangup", "gone", "removed"}
  BY LeavingFrames
<1>3. msg = None
  BY <1>2, NoMessage DEF Has
<1>4. \A f \in Active' : f.op \notin PushOps /\ (f.op = "free" => f = FC("free", f.c))
  BY <1>2 DEF FC, PushOps
<1> QED BY <1>1, <1>2, <1>3, <1>4 DEF MessageInv

LEMMA FreeMessage ==
  ASSUME ConstantsOK, TypeOK, MessageInv, NEW c \in Clients, FreeQueued(c) \/ FreeEnd(c)
  PROVE  MessageInv' /\ msg = None /\ ~Has(ReadOps) /\ ~Has(PushOps) /\ Top = FC("free", c)
<1> DEFINE R == Frames(Tail(stack))
<1>1. /\ stack # <<>> /\ Top.op = "free" /\ Top.c = c /\ Rooted(stack')
      /\ Active = {Top} \cup R /\ \A f \in R : f \in Frame /\ f.op \notin InnerOps
      /\ FreeQueued(c) => \E G : Active' = G \cup Active /\ \A g \in G : g.op \in WakeOps
      /\ FreeEnd(c) => Active' = R
  BY FreeFrames DEF MessageInv
<1> HIDE DEF R
<1>2. ~Has(ReadOps) /\ ~Has(PushOps) /\ ~Has({"read"})
  BY <1>1 DEF Has, ReadOps, InnerOps, PushOps
<1>3. msg = None /\ todo = {} /\ Top = FC("free", c)
  BY <1>1, <1>2, NoMessage DEF MessageInv
<1>4. UNCHANGED <<msg, todo>>
  BY DEF FreeQueued, FreeEnd, readLocals
<1>5. \A f \in Active' : f.op \notin PushOps /\ (f.op = "free" => f = FC("free", f.c))
  <2>1. \A f \in Active' : f = Top \/ f \in R \/ f.op \in WakeOps
    BY <1>1
  <2> QED BY <1>1, <1>3, <2>1 DEF WakeOps, PushOps, InnerOps
<1>6. \A d \in Clients \ clients' : sendQueue'[d] = <<>> /\ queueSize'[d] = 0
  <2>1. CASE FreeQueued(c)
    <3>1. /\ sendQueue[c] # <<>> /\ sendQueue' = [sendQueue EXCEPT ![c] = Tail(@)]
          /\ UNCHANGED <<queueSize, clients>>
      BY <2>1 DEF FreeQueued
    <3> QED BY <3>1 DEF MessageInv, TypeOK, SendTypes
  <2>2. CASE FreeEnd(c)
    <3>1. /\ sendQueue[c] = <<>> /\ sendQueue' = sendQueue
          /\ queueSize' = [queueSize EXCEPT ![c] = 0] /\ clients' = clients \ {c}
      BY <2>2 DEF FreeEnd
    <3> QED BY <3>1 DEF MessageInv, TypeOK, SendTypes
  <2> QED BY <2>1, <2>2
<1> QED BY <1>1, <1>2, <1>3, <1>4, <1>5, <1>6 DEF MessageInv

LEMMA EndingMessage ==
  ASSUME ConstantsOK, TypeOK, MessageInv, Detach \/ Destroy \/ ResetRelease \/ ResetQueues
  PROVE  /\ MessageInv' /\ msg = None /\ ~Has(InnerOps)
         /\ \A f \in Active' : f.op \notin InnerOps \/ \E c \in clients : f = FC("free", c)
<1> DEFINE R == Frames(Tail(stack))
<1>1. /\ Rooted(stack') /\ ~Has(InnerOps)
      /\ \A f \in Active' : \/ f.op \notin InnerOps
                            \/ \E c \in clients : f = FC("free", c)
  <2>1. CASE Detach
    <3>1. Rooted(stack') /\ Active = {} /\ (Active' = {F("destroy")} \/ Active' = {F("reset")})
      BY <2>1, EndingFrames DEF MessageInv
    <3> QED BY <3>1 DEF Has, F, InnerOps, PushOps
  <2>2. CASE ~Detach
    <3>1. /\ Rooted(stack') /\ Active = {Top} \cup R /\ \A f \in R : f \in Frame /\ f.op \notin InnerOps
          /\ Destroy => /\ Top.op = "destroy"
                        /\ \/ clients = {} /\ Active' = R
                           \/ \E c \in clients : Active' = {FC("free", c)} \cup Active
          /\ ResetRelease => \E G : /\ Active' = G \cup R
                                    /\ \A g \in G : g.op \in {"flush", "reset", "reset2"}
          /\ ResetQueues => Active' = R
      BY <2>2, EndingFrames DEF MessageInv
    <3> HIDE DEF R
    <3>2. Top.op \notin InnerOps
      BY <2>2 DEF Destroy, ResetRelease, ResetQueues, At, Top, InnerOps, PushOps
    <3>3. {"flush", "reset", "reset2"} \cap InnerOps = {}
      BY DEF InnerOps, PushOps
    <3>4. ~Has(InnerOps)
      BY <3>1, <3>2 DEF Has
    <3>5. CASE Destroy
      <4>1. CASE Active' = R
        BY <3>1, <3>4, <4>1
      <4>2. ASSUME NEW c \in clients, Active' = {FC("free", c)} \cup Active
            PROVE  \A f \in Active' : f.op \notin InnerOps \/ f = FC("free", c)
        BY <3>4, <4>2 DEF Has
      <4> QED BY <3>1, <3>4, <3>5, <4>1, <4>2
    <3>6. CASE ResetRelease \/ ResetQueues
      <4>1. CASE Active' = R
        BY <3>1, <3>4, <4>1
      <4>2. ASSUME NEW G, Active' = G \cup R, \A g \in G : g.op \in {"flush", "reset", "reset2"}
            PROVE  \A f \in Active' : f.op \notin InnerOps
        BY <3>1, <3>3, <4>2
      <4> QED BY <3>1, <3>4, <3>6, <4>1, <4>2
    <3> QED BY <2>2, <3>1, <3>4, <3>5, <3>6
  <2> QED BY <2>1, <2>2
<1>2. msg = None /\ todo = {}
  <2>1. ~Has({"read"})
    BY <1>1 DEF Has, InnerOps
  <2> QED BY <2>1, NoMessage
<1>3. UNCHANGED <<clients, msg, todo>>
  BY DEF Detach, Destroy, ResetRelease, ResetQueues, readLocals
<1>4. \A f \in Active' : f.op \notin PushOps /\ (f.op = "free" => f = FC("free", f.c))
  BY <1>1 DEF InnerOps, PushOps, FC
<1>5. \A d \in Clients \ clients' : sendQueue'[d] = <<>> /\ queueSize'[d] = 0
  <2>1. CASE ResetQueues
    BY <1>3, <2>1 DEF ResetQueues, MessageInv
  <2>2. CASE ~ResetQueues
    <3>1. UNCHANGED <<sendQueue, queueSize>>
      BY <2>2 DEF Detach, Destroy, ResetRelease, sendVars
    <3> QED BY <1>3, <3>1 DEF MessageInv
  <2> QED BY <2>1, <2>2
<1> QED BY <1>1, <1>2, <1>3, <1>4, <1>5 DEF MessageInv

LEMMA AddingMessage ==
  ASSUME ConstantsOK, TypeOK, MessageInv,
         \/ \E c \in Clients, n \in 0..MaxSend : ClientAdd(c, n)
         \/ \E c \in Clients \cup {None}, vm \in BOOLEAN : Attach(c, vm)
         \/ Migrated
  PROVE  MessageInv' /\ msg = None
<1>1. /\ Active = {} /\ Rooted(stack') /\ \A f \in Active' : f.op \in {"write?", "read?", "start"}
  BY AddingFrames
<1>2. msg = None /\ todo = {}
  BY <1>1, NoMessage DEF Has
<1>3. /\ UNCHANGED <<msg, todo>>
      /\ \/ UNCHANGED <<clients, sendQueue, queueSize>>
         \/ \E c \in Clients, n \in Int : AddClient(c, n)
  BY DEF ClientAdd, Attach, Migrated, Restore, readLocals, sendVars, ConstantsOK
<1>4. \A f \in Active' : f.op \notin PushOps /\ f.op # "free"
  BY <1>1 DEF PushOps
<1>5. \A d \in Clients \ clients' : sendQueue'[d] = <<>> /\ queueSize'[d] = 0
  <2>1. ASSUME NEW c \in Clients, NEW n \in Int, AddClient(c, n), NEW d \in Clients \ clients'
        PROVE  sendQueue'[d] = <<>> /\ queueSize'[d] = 0
    <3>1. /\ clients' = clients \cup {c}
          /\ sendQueue' = [sendQueue EXCEPT ![c] = <<>>] /\ queueSize' = [queueSize EXCEPT ![c] = 0]
      BY <2>1 DEF AddClient
    <3> QED BY <3>1 DEF MessageInv, TypeOK, SendTypes
  <2> QED BY <1>3, <2>1 DEF MessageInv
<1> QED BY <1>1, <1>2, <1>3, <1>4, <1>5 DEF MessageInv

\* Any step is one of these.
LEMMA Steps ==
  ASSUME ConstantsOK, TypeOK, DeviceInv, RemovalInv, [Next]_vars
  PROVE  \/ Still \/ Reading
         \/ \E c \in Clients : \/ Pushing(c) \/ WaitTimeout(c) \/ FreeQueued(c) \/ FreeEnd(c)
                               \/ \E n \in 0..MaxSend : TokensSet(c, n) \/ TokensAdd(c, n)
                               \/ ClientDisconnect(c) \/ RestoreNone(c)
         \/ Detach \/ Destroy \/ ResetRelease \/ ResetQueues
         \/ \E c \in Clients, n \in 0..MaxSend : ClientAdd(c, n)
         \/ \E c \in Clients \cup {None}, vm \in BOOLEAN : Attach(c, vm)
         \/ Migrated
<1>1. CASE UNCHANGED vars
  <2>1. stack' = stack /\ UNCHANGED <<clients, sendVars, serial, lastRead, msg, todo, max, conn>>
    BY <1>1 DEF vars, poolVars, guestVars, readLocals, chanVars
  <2>2. Ops \ KeepOps \in SUBSET Ops
    OBVIOUS
  <2>3. Moves(Ops \ KeepOps, Ops \ KeepOps)
    BY <2>1, <2>2, MovesSteps
  <2> QED BY <2>1, <2>3 DEF Still
<1>2. CASE Running
  <2>1. CASE Writing \/ RemovedEnd \/ StartLoop
    <3>1. (\E c \in Clients : RemovedEnd) => Still
      BY RemovingStill
    <3>2. CASE RemovedEnd
      <4>1. stack # <<>> /\ Top.op = "removed" /\ (Return \/ Become(<<F("read?")>>))
        BY <3>2 DEF RemovedEnd, At, Top
      <4>2. /\ Ops \ KeepOps \in SUBSET Ops /\ {"read?", "removed"} \subseteq Ops \ KeepOps
        BY DEF Ops, KeepOps, RootOps, PushOps, ReadOps
      <4>3. <<F("read?")>> \in Only(Ops \ KeepOps)
        BY <4>2, OnlyFacts
      <4>4. Moves(Ops \ KeepOps, Ops \ KeepOps)
        BY <4>1, <4>2, <4>3, MovesSteps
      <4>5. UNCHANGED <<clients, sendVars, serial, lastRead, msg, todo, max, conn>>
        BY <3>2 DEF RemovedEnd, poolVars, guestVars, readLocals, chanVars
      <4> QED BY <4>4, <4>5 DEF Still
    <3> QED BY <2>1, <3>2, WritingStill, EventsStill
  <2>2. ASSUME NEW c \in Clients, Channel(c) PROVE Still
    BY <2>2, ChannelStill
  <2>3. ASSUME NEW c \in Clients, Removing(c) PROVE Still \/ FreeQueued(c) \/ FreeEnd(c)
    BY <2>3, RemovingStill DEF Removing
  <2> QED BY <1>2, <2>1, <2>2, <2>3 DEF Running
<1>3. CASE WriteRetry
  BY <1>3, EventsStill
<1>4. CASE FromVM
  <2>1. CASE Start \/ Stop \/ GuestWrites \/ MouseEvent
    BY <2>1, EventsStill
  <2> QED BY <1>4, <2>1 DEF FromVM
<1>5. ASSUME NEW c \in Clients, FromClient(c)
      PROVE  \/ Still \/ ClientDisconnect(c) \/ RestoreNone(c)
             \/ \E n \in 0..MaxSend : ClientAdd(c, n) \/ TokensSet(c, n) \/ TokensAdd(c, n)
  <2>1. CASE Connect(c) \/ BufGet(c) \/ BufStale(c) \/ RestoreLate(c)
    BY <2>1, EventsStill
  <2>2. CASE PeerCloses(c)
    BY <2>2, ChannelStill
  <2> QED BY <1>5, <2>1, <2>2 DEF FromClient
<1>6. ASSUME NEW c \in Clients, FromServer(c)
      PROVE  Still \/ WaitTimeout(c)
  <2>1. CASE BufAdd(c) \/ BufGiveBack(c)
    BY <2>1, EventsStill
  <2>2. CASE Writable(c)
    BY <2>2, ChannelStill
  <2> QED BY <1>6, <2>1, <2>2 DEF FromServer
<1> QED BY <1>1, <1>2, <1>3, <1>4, <1>5, <1>6 DEF Next

LEMMA MessageNext ==
  ASSUME ConstantsOK, TypeOK, DeviceInv, RemovalInv, MessageInv, [Next]_vars
  PROVE  MessageInv'
BY Steps, MessageStill, ReadingMessage, PushingMessage, TokensMessage, LeavingMessage, FreeMessage,
   EndingMessage, AddingMessage

LEMMA MessageInit ==
  ASSUME Init
  PROVE  MessageInv
<1>1. stack = <<>> /\ msg = None /\ todo = {}
      /\ \A c \in Clients : sendQueue[c] = <<>> /\ queueSize[c] = 0
  BY DEF Init
<1>2. Active = {} /\ Rooted(stack)
  BY <1>1, FramesOf, RootedSteps DEF Active
<1> QED BY <1>1, <1>2 DEF MessageInv

-----------------------------------------------------------------------------
(* Queues and tokens.                                                      *)

\* A send loop of c is at one of the steps L.
Serving(c, L) == \E f \in Active : f.op \in L /\ f.c = c

\* The recorded size of a queue, until its client is removed, is that of the queue
\* and of the message the send loop has taken from it.
SizesMatch ==
  \A c \in Clients : FC("free", c) \notin Active =>
    queueSize[c] = Len(sendQueue[c]) + (IF Serving(c, {"pushed", "shrink"}) THEN 1 ELSE 0)

\* A message that could be sent waits only while the send loop is at work.
QueuesServed ==
  \A c \in Clients : /\ sendTokens[c] >= 0
                     /\ sendQueue[c] # <<>> /\ CanSend(c) => Serving(c, PushOps)

\* What the read loop may still read is what the client with most tokens can be sent,
\* counting the message at hand for those it was sent to.
Used(c) == IF msg # None /\ c \notin todo THEN 1 ELSE 0

Budget ==
  Has(ReadOps) /\ clients # {} =>
    /\ ~FlowControl => max < 0
    /\ FlowControl =>
         /\ max >= 0 /\ (msg # None => max >= 1)
         /\ \A c \in clients : sendTokens[c] <= max - Used(c)
         /\ ~MultiClient => \A c \in clients : sendTokens[c] >= max - Used(c)

\* A client that is alone never has to wait.
NothingQueued ==
  ~MultiClient =>
    /\ ~Has(PushOps)
    /\ \A c \in Clients : sendQueue[c] = <<>> /\ queueSize[c] = 0 /\ timer[c] = "off"

QueueInv == SizesMatch /\ QueuesServed /\ Budget /\ NothingQueued

LEMMA QueueKept ==
  ASSUME SizesMatch, QueuesServed, NothingQueued,
         \A f : f.op \in PushOps \cup {"free"} => (f \in Active' <=> f \in Active),
         UNCHANGED <<sendTokens, sendQueue, queueSize, timer>>
  PROVE  SizesMatch' /\ QueuesServed' /\ NothingQueued'
<1>1. {"pushed", "shrink"} \subseteq PushOps
  BY DEF PushOps
<1>2. \A c \in Clients : /\ Serving(c, {"pushed", "shrink"})' <=> Serving(c, {"pushed", "shrink"})
                         /\ Serving(c, PushOps)' <=> Serving(c, PushOps)
                         /\ FC("free", c) \in Active' <=> FC("free", c) \in Active
  BY <1>1 DEF Serving, FC
<1>3. SizesMatch'
  BY <1>2 DEF SizesMatch
<1>4. QueuesServed'
  BY <1>2 DEF QueuesServed, CanSend
<1>5. NothingQueued'
  <2>1. Has(PushOps)' <=> Has(PushOps)
    BY DEF Has
  <2> QED BY <2>1 DEF NothingQueued
<1> QED BY <1>3, <1>4, <1>5

LEMMA BudgetKept ==
  ASSUME Budget, UNCHANGED <<clients, sendTokens, max, msg, todo>>,
         Has(ReadOps)' => Has(ReadOps)
  PROVE  Budget'
BY DEF Budget, Used

LEMMA QueueStill ==
  ASSUME TypeOK, QueueInv, Still
  PROVE  QueueInv'
<1>1. UNCHANGED <<clients, sendTokens, sendQueue, queueSize, timer, max, msg, todo>>
  BY DEF Still, sendVars
<1>2. (\A f : f.op \in KeepOps => (f \in Active' <=> f \in Active)) /\ (Has(ReadOps)' <=> Has(ReadOps))
  BY StillFrames DEF Still, KeepOps
<1>3. PushOps \cup {"free"} \subseteq KeepOps
  BY DEF KeepOps, RootOps
<1> QED BY <1>1, <1>2, <1>3, QueueKept, BudgetKept DEF QueueInv

\* No two clients unless many are allowed.
LEMMA AloneFacts ==
  ASSUME TypeOK, DeviceInv, ~MultiClient
  PROVE  \A c, d \in clients : c = d
BY DEF DeviceInv, TypeOK, DeviceTypes

LEMMA ReadingQueue ==
  ASSUME ConstantsOK, TypeOK, LoopInv, LoopInv', DeviceInv, MessageInv, QueueInv, Reading
  PROVE  QueueInv'
<1>0. /\ stack # <<>> /\ clients' = clients
      /\ \A f : f.op \in PushOps \cup {"free"} => (f \in Active' <=> f \in Active)
  <2>1. clients' = clients
    BY DEF Reading, ReadRefused, ReadNested, ReadBegin, ReadMsg, ReadDiscard, ReadNothing, ReadAgain,
           ReadEnd, SendNow, SendOverflow, SendLater, SendDone, DropMsg
  <2>2. PushOps \cup {"free"} \subseteq RootOps
    BY DEF RootOps
  <2> QED BY <2>1, <2>2, ReadingFrames DEF MessageInv
<1>1. Active = {Top} \cup Frames(Tail(stack)) /\ Top \in Active
  BY <1>0, HasFrames
<1>2. CASE ReadRefused \/ ReadNested \/ ReadDiscard \/ ReadAgain \/ ReadNothing
  <2>1. UNCHANGED <<sendTokens, sendQueue, queueSize, timer, max, msg, todo>>
    BY <1>2 DEF ReadRefused, ReadNested, ReadDiscard, ReadAgain, ReadNothing, sendVars, readLocals
  <2>2. Has(ReadOps)' => Has(ReadOps)
    <3>1. CASE ReadRefused \/ ReadNested
      <4>1. Return
        BY <3>1 DEF ReadRefused, ReadNested, ReturnWith
      <4>2. Active' \subseteq Active
        BY <1>0, <1>1, <4>1, FrameSteps
      <4> QED BY <4>2 DEF Has
    <3>2. CASE ReadDiscard \/ ReadAgain \/ ReadNothing
      <4>1. Top.op \in ReadOps
        BY <3>2 DEF ReadDiscard, ReadAgain, ReadNothing, At, Top, ReadOps
      <4> QED BY <1>1, <4>1 DEF Has
    <3> QED BY <1>2, <3>1, <3>2
  <2> QED BY <1>0, <2>1, <2>2, QueueKept, BudgetKept DEF QueueInv
<1>3. CASE ReadEnd
  <2>1. UNCHANGED <<sendTokens, sendQueue, queueSize, timer>> /\ reading' = 0
    BY <1>3 DEF ReadEnd, sendVars
  <2>2. ~Has(ReadOps)'
    <3>1. NoneOf(ReadOps, stack')
      BY <2>1 DEF LoopInv, Guarded
    <3> QED BY <3>1 DEF Has, Active, Frames, NoneOf
  <2>3. Budget'
    BY <2>2 DEF Budget
  <2> QED BY <1>0, <2>1, <2>3, QueueKept DEF QueueInv
<1>4. CASE ReadBegin
  <2>1. /\ UNCHANGED <<sendTokens, sendQueue, queueSize, timer, msg, todo>> /\ reading = 0
        /\ MaxSendTokens(max')
    BY <1>4 DEF ReadBegin, sendVars, InRead, TypeOK, ReadTypes
  <2>2. msg = None
    <3>1. NoneOf(ReadOps, stack) /\ stack \in Seq(Frame)
      BY <2>1, StackFacts DEF LoopInv, Guarded
    <3>2. ~Has({"read"})
      BY <3>1 DEF Has, Active, Frames, NoneOf, ReadOps
    <3> QED BY <3>2, NoMessage
  <2>3. Budget'
    <3>1. SUFFICES ASSUME clients # {}
                   PROVE  /\ ~FlowControl => max' < 0
                          /\ FlowControl => 
                               /\ max' >= 0
                               /\ \A c \in clients : sendTokens[c] <= max'
                               /\ ~MultiClient => \A c \in clients : sendTokens[c] >= max'
      <4>1. ASSUME NEW c \in clients PROVE Used(c)' = 0 /\ sendTokens[c] \in Int
        BY <2>1, <2>2 DEF Used, TypeOK, SendTypes, DeviceTypes
      <4>2. max' \in Int
        BY <2>1 DEF MaxSendTokens, TypeOK, SendTypes, DeviceTypes
      <4> QED BY <1>0, <2>1, <2>2, <4>1, <4>2 DEF Budget
    <3>2. ~FlowControl => max' < 0
      BY <2>1, <3>1 DEF MaxSendTokens
    <3>3. ASSUME FlowControl
          PROVE  /\ max' >= 0
                 /\ \A c \in clients : sendTokens[c] <= max'
                 /\ ~MultiClient => \A c \in clients : sendTokens[c] >= max'
      <4>1. PICK c \in clients : /\ max' = sendTokens[c]
                                 /\ \A d \in clients : sendTokens[d] <= max'
        BY <2>1, <3>1, <3>3 DEF MaxSendTokens
      <4>2. max' >= 0 /\ max' \in Int
        BY <4>1 DEF QueueInv, QueuesServed, TypeOK, DeviceTypes, SendTypes
      <4>3. ~MultiClient => \A d \in clients : d = c
        BY AloneFacts
      <4> QED BY <4>1, <4>2, <4>3
    <3> QED BY <3>2, <3>3
  <2> QED BY <1>0, <2>1, <2>3, QueueKept DEF QueueInv
<1>5. ASSUME ReadMsg \/ SendDone \/ \E c \in Clients : SendNow(c) \/ SendOverflow(c) \/ SendLater(c)
      PROVE  /\ Top.op = "read" /\ Has(ReadOps) /\ Active \subseteq Active'
             /\ max \in Int /\ \A c \in Clients : sendTokens[c] \in Int /\ sendTokens[c] >= 0
             /\ clients # {} =>
                  /\ ~FlowControl => max < 0
                  /\ FlowControl =>
                       /\ max >= 0 /\ (msg # None => max >= 1)
                       /\ \A c \in clients : sendTokens[c] <= max - Used(c)
                       /\ ~MultiClient => \A c \in clients : sendTokens[c] >= max - Used(c)
  <2>1. Top.op = "read" /\ Top \in Active /\ Active \subseteq Active'
    BY <1>5, ReadingFrames DEF MessageInv
  <2>2. Has(ReadOps)
    BY <2>1 DEF Has, ReadOps
  <2>3. max \in Int /\ \A c \in Clients : sendTokens[c] \in Int /\ sendTokens[c] >= 0
    BY DEF TypeOK, ReadTypes, SendTypes, QueueInv, QueuesServed
  <2> QED BY <2>1, <2>2, <2>3 DEF QueueInv, Budget
<1>6. CASE ReadMsg
  <2>1. /\ UNCHANGED <<sendTokens, sendQueue, queueSize, timer, max>> /\ msg = None /\ todo' = clients
        /\ max # 0 \/ clients = {}
    BY <1>6 DEF ReadMsg, MayRead, sendVars
  <2>2. \A c \in clients : Used(c) = 0 /\ Used(c)' = 0
    BY <1>0, <2>1 DEF Used
  <2>3. Budget'
    BY <1>0, <1>5, <1>6, <2>1, <2>2 DEF Budget, TypeOK, DeviceTypes
  <2> QED BY <1>0, <2>1, <2>3, QueueKept DEF QueueInv
<1>7. CASE SendDone
  <2>1. /\ UNCHANGED <<sendTokens, sendQueue, queueSize, timer>> /\ msg # None /\ todo = {}
        /\ msg' = None /\ todo' = todo /\ max' = max - 1
    BY <1>7 DEF SendDone, DropMsg, sendVars
  <2>2. \A c \in clients : Used(c) = 1 /\ Used(c)' = 0
    BY <1>0, <2>1 DEF Used
  <2>3. Budget'
    BY <1>0, <1>5, <1>7, <2>1, <2>2 DEF Budget, TypeOK, DeviceTypes
  <2> QED BY <1>0, <2>1, <2>3, QueueKept DEF QueueInv
<1>8. ASSUME NEW c \in Clients, SendNow(c) \/ SendOverflow(c) \/ SendLater(c)
      PROVE  /\ c \in clients /\ msg # None /\ UNCHANGED <<max, msg>>
             /\ Used(c) = 0 /\ Used(c)' = 1 /\ \A d \in clients \ {c} : Used(d)' = Used(d)
  <2>1. /\ c \in todo /\ todo' = todo \ {c} /\ UNCHANGED <<max, msg>>
    BY <1>8 DEF SendNow, SendOverflow, SendLater
  <2>2. c \in clients /\ msg # None
    BY <2>1 DEF MessageInv, TypeOK, ReadTypes
  <2> QED BY <2>1, <2>2 DEF Used
<1>9. ASSUME NEW c \in Clients, SendNow(c) PROVE QueueInv'
  <2>1. /\ UNCHANGED <<sendQueue, queueSize, timer>> /\ CanSend(c) /\ sendQueue[c] = <<>>
        /\ sendTokens' = IF FlowControl THEN [sendTokens EXCEPT ![c] = @ - 1] ELSE sendTokens
    BY <1>9 DEF SendNow
  <2>2. /\ sendTokens'[c] = IF FlowControl THEN sendTokens[c] - 1 ELSE sendTokens[c]
        /\ \A d \in Clients \ {c} : sendTokens'[d] = sendTokens[d]
        /\ FlowControl => sendTokens[c] > 0
    BY <2>1 DEF TypeOK, SendTypes, CanSend
  <2>3. SizesMatch' /\ NothingQueued'
    <3>1. {"pushed", "shrink"} \subseteq PushOps
      BY DEF PushOps
    <3>2. \A d \in Clients : /\ Serving(d, {"pushed", "shrink"})' <=> Serving(d, {"pushed", "shrink"})
                             /\ FC("free", d) \in Active' <=> FC("free", d) \in Active
      BY <1>0, <3>1 DEF Serving, FC
    <3>3. Has(PushOps)' <=> Has(PushOps)
      BY <1>0 DEF Has
    <3> QED BY <2>1, <3>2, <3>3 DEF QueueInv, SizesMatch, NothingQueued
  <2>4. QueuesServed'
    <3>1. \A d \in Clients : Serving(d, PushOps)' <=> Serving(d, PushOps)
      BY <1>0 DEF Serving
    <3>2. \A d \in Clients : sendTokens'[d] >= 0
      BY <1>5, <1>9, <2>2
    <3>3. \A d \in Clients \ {c} : CanSend(d)' <=> CanSend(d)
      BY <2>2 DEF CanSend
    <3> QED BY <2>1, <3>1, <3>2, <3>3 DEF QueueInv, QueuesServed
  <2>5. Budget'
    <3>1. SUFFICES ASSUME clients # {}
                   PROVE  /\ ~FlowControl => max < 0
                          /\ FlowControl =>
                               /\ max >= 0 /\ (msg # None => max >= 1)
                               /\ \A d \in clients : sendTokens'[d] <= max - Used(d)'
                               /\ ~MultiClient => \A d \in clients : sendTokens'[d] >= max - Used(d)'
      BY <1>0, <1>8, <1>9 DEF Budget
    <3>2. \A d \in clients : d \in Clients
      BY DEF TypeOK, DeviceTypes
    <3> QED BY <1>5, <1>8, <1>9, <2>2, <3>1, <3>2
  <2> QED BY <2>3, <2>4, <2>5 DEF QueueInv
<1>10. ASSUME NEW c \in Clients, SendOverflow(c) \/ SendLater(c)
       PROVE  Budget' /\ MultiClient /\ FlowControl /\ ~CanSend(c)
  <2>1. ~CanSend(c) /\ UNCHANGED sendTokens
    BY <1>10 DEF SendOverflow, SendLater, sendVars
  <2>2. FlowControl /\ sendTokens[c] = 0
    BY <1>5, <1>10, <2>1 DEF CanSend
  <2>3. MultiClient
    BY <1>5, <1>8, <1>10, <2>2
  <2>4. SUFFICES ASSUME clients # {}
                 PROVE  /\ ~FlowControl => max < 0
                        /\ FlowControl =>
                             /\ max >= 0 /\ (msg # None => max >= 1)
                             /\ \A d \in clients : sendTokens[d] <= max - Used(d)'
    BY <1>0, <1>8, <1>10, <2>1, <2>2, <2>3 DEF Budget
  <2>5. \A d \in clients : d \in Clients
    BY DEF TypeOK, DeviceTypes
  <2> QED BY <1>5, <1>8, <1>10, <2>2, <2>4, <2>5
<1>11. ASSUME NEW c \in Clients, SendOverflow(c) PROVE QueueInv'
  <2>1. UNCHANGED <<sendTokens, sendQueue, queueSize, timer>>
    BY <1>11 DEF SendOverflow, sendVars
  <2> QED BY <1>0, <1>10, <1>11, <2>1, QueueKept DEF QueueInv
<1>12. ASSUME NEW c \in Clients, SendLater(c) PROVE QueueInv'
  <2>1. /\ sendQueue' = [sendQueue EXCEPT ![c] = Append(@, msg)] /\ sendTokens' = sendTokens
        /\ queueSize' = [queueSize EXCEPT ![c] = @ + 1]
    BY <1>12 DEF SendLater, Enqueue
  <2>2. /\ sendQueue[c] \in Seq(Bufs) /\ msg \in Bufs
        /\ \A d \in Clients \ {c} : sendQueue'[d] = sendQueue[d] /\ queueSize'[d] = queueSize[d]
        /\ queueSize'[c] = queueSize[c] + 1 /\ sendQueue'[c] = Append(sendQueue[c], msg)
    BY <1>8, <1>12, <2>1 DEF TypeOK, SendTypes, ReadTypes
  <2>3. Len(sendQueue'[c]) = Len(sendQueue[c]) + 1 /\ Len(sendQueue[c]) \in Nat
    BY <2>2, AppendProperties, LenProperties
  <2>4. SizesMatch'
    <3>1. {"pushed", "shrink"} \subseteq PushOps
      BY DEF PushOps
    <3>2. \A d \in Clients : /\ Serving(d, {"pushed", "shrink"})' <=> Serving(d, {"pushed", "shrink"})
                             /\ FC("free", d) \in Active' <=> FC("free", d) \in Active
      BY <1>0, <3>1 DEF Serving, FC
    <3>3. \A d \in Clients : queueSize[d] \in Int
      BY DEF TypeOK, SendTypes
    <3>4. ASSUME NEW d \in Clients, FC("free", d) \notin Active'
          PROVE  queueSize'[d] = Len(sendQueue'[d])
                                 + (IF Serving(d, {"pushed", "shrink"})' THEN 1 ELSE 0)
      <4>0. PICK n \in {0, 1} : n = IF Serving(d, {"pushed", "shrink"}) THEN 1 ELSE 0
        OBVIOUS
      <4>1. queueSize[d] = Len(sendQueue[d]) + n
        BY <3>2, <3>4, <4>0 DEF QueueInv, SizesMatch
      <4>2. queueSize'[d] = Len(sendQueue'[d]) + n
        <5>1. CASE d = c
          <6>1. queueSize'[c] = queueSize[c] + 1 /\ queueSize[c] = Len(sendQueue[c]) + n
            BY <2>2, <4>1, <5>1
          <6>2. queueSize'[c] = Len(sendQueue'[c]) + n
            BY <2>3, <3>3, <6>1
          <6> QED BY <5>1, <6>2
        <5>2. CASE d # c
          BY <2>2, <4>1, <5>2
        <5> QED BY <5>1, <5>2
      <4>3. n = IF Serving(d, {"pushed", "shrink"})' THEN 1 ELSE 0
        BY <3>2, <4>0
      <4> QED BY <4>2, <4>3
    <3> QED BY <3>4 DEF SizesMatch
  <2>5. QueuesServed'
    <3>1. \A d \in Clients : /\ Serving(d, PushOps)' <=> Serving(d, PushOps)
                             /\ CanSend(d)' <=> CanSend(d)
      BY <1>0, <2>1 DEF Serving, CanSend
    <3>2. \A d \in Clients \ {c} : sendQueue'[d] = sendQueue[d]
      BY <2>2
    <3> QED BY <1>10, <1>12, <2>1, <3>1, <3>2 DEF QueueInv, QueuesServed
  <2>6. NothingQueued'
    BY <1>10, <1>12 DEF NothingQueued
  <2> QED BY <1>10, <1>12, <2>4, <2>5, <2>6 DEF QueueInv
<1> QED BY <1>2, <1>3, <1>4, <1>6, <1>7, <1>9, <1>11, <1>12 DEF Reading

\* Every frame of the send loop of c is the top one, if that is one of them.
LEMMA PushingQueue ==
  ASSUME ConstantsOK, TypeOK, MessageInv, QueueInv, NEW c \in Clients, Pushing(c)
  PROVE  QueueInv'
<1> DEFINE R == Frames(Tail(stack))
           P == {"pushed", "shrink"}
<1>1. /\ stack # <<>> /\ Top.c = c /\ Top.op \in PushingOps
      /\ Active = {Top} \cup R /\ \A f \in R : f \in Frame /\ f.op \notin InnerOps
  BY PushingFrames DEF MessageInv
<1>2. ~Has(ReadOps) /\ P \subseteq PushOps /\ PushOps \cup {"free"} \cup ReadOps \subseteq InnerOps
      /\ FC("free", c).op = "free"
  <2>1. P \subseteq PushOps /\ PushOps \cup {"free"} \cup ReadOps \subseteq InnerOps
    BY DEF PushOps, InnerOps, ReadOps
  <2> QED BY <1>1, <2>1 DEF Has, PushingOps, ReadOps, FC
<1> HIDE DEF R
<1>3. /\ \A f \in Active' : f \in R \/ f.op \in {"flush", "write?", "read?"} \/ f.c = c
      /\ \A f \in Active' : f.op \notin ReadOps \cup {"free"}
  <2>1. CASE PushOne(c)
    <3>1. \E G : /\ Active' = G \cup {[op |-> "pushed", c |-> c, b |-> Head(sendQueue[c])]} \cup R
                 /\ \A g \in G : g.op = "flush"
      BY <2>1, PushingFrames DEF MessageInv, R
    <3> QED BY <1>1, <1>2, <3>1 DEF ReadOps
  <2>2. CASE PushUnref(c)
    <3>1. \E G : Active' = G \cup {FC("shrink", c)} \cup R /\ \A g \in G : g.op \in WakeOps
      BY <2>2, PushingFrames DEF MessageInv, R
    <3> QED BY <1>1, <1>2, <3>1 DEF FC, WakeOps, ReadOps
  <2>3. CASE PushShrink(c)
    <3>1. Active' = {FC("push", c)} \cup R
      BY <2>3, PushingFrames DEF MessageInv, R
    <3> QED BY <1>1, <1>2, <3>1 DEF FC, ReadOps
  <2>4. CASE PushEnd(c) \/ AbsorbEnd(c)
    <3>1. Active' = R \/ Active' = {F("read?")} \cup R
      BY <2>4, PushingFrames DEF MessageInv, R
    <3> QED BY <1>1, <1>2, <3>1 DEF F, ReadOps
  <2> QED BY <2>1, <2>2, <2>3, <2>4 DEF Pushing
<1>4. Budget'
  BY <1>3 DEF Budget, Has
<1>5. \A d \in Clients : FC("free", d) \notin Active /\ FC("free", d) \notin Active'
  BY <1>1, <1>2, <1>3 DEF FC, PushingOps
<1>6. \A d \in Clients \ {c} : /\ ~Serving(d, PushOps) /\ ~Serving(d, PushOps)'
                               /\ ~Serving(d, P) /\ ~Serving(d, P)'
  <2>1. \A d \in Clients \ {c} : ~Serving(d, PushOps)
    BY <1>1, <1>2 DEF Serving
  <2>2. \A d \in Clients \ {c} : ~Serving(d, PushOps)'
    BY <1>1, <1>2, <1>3 DEF Serving, PushOps
  <2> QED BY <1>2, <2>1, <2>2 DEF Serving
<1>7. \A d \in Clients \ {c} : UNCHANGED <<sendTokens[d], sendQueue[d], queueSize[d]>>
  BY DEF Pushing, PushOne, PushUnref, PushShrink, PushEnd, AbsorbEnd, sendVars, TypeOK, SendTypes
<1>8. \A d \in Clients \ {c} : /\ queueSize'[d] = Len(sendQueue'[d])
                               /\ sendTokens'[d] >= 0 /\ (sendQueue'[d] # <<>> => ~CanSend(d)')
  <2> TAKE d \in Clients \ {c}
  <2>1. queueSize[d] = Len(sendQueue[d])
    BY <1>5, <1>6 DEF QueueInv, SizesMatch, P, TypeOK, SendTypes
  <2>2. sendTokens[d] >= 0 /\ (sendQueue[d] # <<>> => ~CanSend(d))
    BY <1>6 DEF QueueInv, QueuesServed
  <2> QED BY <1>7, <2>1, <2>2 DEF CanSend
<1>9. /\ queueSize[c] = Len(sendQueue[c]) + (IF Top.op \in P THEN 1 ELSE 0)
      /\ sendTokens[c] >= 0 /\ sendTokens[c] \in Int /\ queueSize[c] \in Int
      /\ sendQueue[c] # <<>> /\ CanSend(c) => Top.op \in PushOps
      /\ sendQueue[c] \in Seq(Bufs) /\ Len(sendQueue[c]) \in Nat
  <2>1. Serving(c, P) <=> Top.op \in P
    BY <1>1, <1>2 DEF Serving
  <2>2. Serving(c, PushOps) <=> Top.op \in PushOps
    BY <1>1, <1>2 DEF Serving
  <2>3. queueSize[c] = Len(sendQueue[c]) + (IF Serving(c, P) THEN 1 ELSE 0)
    BY <1>5 DEF QueueInv, SizesMatch
  <2>4. sendTokens[c] \in Int /\ queueSize[c] \in Int /\ sendQueue[c] \in Seq(Bufs)
    BY DEF TypeOK, SendTypes
  <2>5. Len(sendQueue[c]) \in Nat
    BY <2>4, LenProperties
  <2>6. sendTokens[c] >= 0 /\ (sendQueue[c] # <<>> /\ CanSend(c) => Serving(c, PushOps))
    BY DEF QueueInv, QueuesServed
  <2> QED BY <2>1, <2>2, <2>3, <2>4, <2>5, <2>6
<1>10. /\ queueSize'[c] = Len(sendQueue'[c]) + (IF Serving(c, P)' THEN 1 ELSE 0)
       /\ sendTokens'[c] >= 0
       /\ sendQueue'[c] # <<>> /\ CanSend(c)' => Serving(c, PushOps)'
  <2>1. CASE PushOne(c)
    <3>1. PICK G : /\ Active' = G \cup {[op |-> "pushed", c |-> c, b |-> Head(sendQueue[c])]} \cup R
                   /\ \A g \in G : g.op = "flush"
      BY <2>1, PushingFrames DEF MessageInv, R
    <3>2. Serving(c, P)' /\ Serving(c, PushOps)'
      <4> DEFINE f == [op |-> "pushed", c |-> c, b |-> Head(sendQueue[c])]
      <4>1. f.op = "pushed" /\ f.c = c
        OBVIOUS
      <4> HIDE DEF f
      <4>2. f \in Active'
        BY <3>1 DEF f
      <4> QED BY <4>1, <4>2 DEF Serving, PushOps
    <3>3. /\ sendQueue[c] # <<>> /\ CanSend(c) /\ Top.op = "push" /\ queueSize' = queueSize
          /\ sendQueue'[c] = Tail(sendQueue[c]) /\ sendTokens'[c] = sendTokens[c] - 1
      BY <2>1 DEF PushOne, At, Top, TypeOK, SendTypes
    <3>4. Len(sendQueue'[c]) = Len(sendQueue[c]) - 1
      BY <1>9, <3>3, HeadTailProperties
    <3>5. FlowControl
      BY <2>1, PushingMessage DEF PushOne, AbsorbEnd, At
    <3>6. sendTokens[c] > 0
      BY <3>3, <3>5 DEF CanSend
    <3> QED BY <1>9, <3>2, <3>3, <3>4, <3>6
  <2>2. CASE PushUnref(c)
    <3>1. PICK G : Active' = G \cup {FC("shrink", c)} \cup R /\ \A g \in G : g.op \in WakeOps
      BY <2>2, PushingFrames DEF MessageInv, R
    <3>2. Serving(c, P)' /\ Serving(c, PushOps)'
      <4>1. FC("shrink", c) \in Active' /\ FC("shrink", c).op = "shrink" /\ FC("shrink", c).c = c
        BY <3>1 DEF FC
      <4> QED BY <4>1 DEF Serving, PushOps
    <3>3. Top.op = "pushed" /\ UNCHANGED <<sendQueue, queueSize, sendTokens>>
      BY <2>2 DEF PushUnref, At, Top, sendVars
    <3> QED BY <1>9, <3>2, <3>3
  <2>3. CASE PushShrink(c)
    <3>1. Active' = {FC("push", c)} \cup R
      BY <2>3, PushingFrames DEF MessageInv, R
    <3>2. ~Serving(c, P)' /\ Serving(c, PushOps)'
      <4>1. FC("push", c) \in Active' /\ FC("push", c).op = "push" /\ FC("push", c).c = c
        BY <3>1 DEF FC
      <4>2. Serving(c, PushOps)'
        BY <4>1 DEF Serving, PushOps
      <4>3. \A f \in Active' : f.op \notin P
        BY <1>1, <1>2, <3>1, <4>1
      <4> QED BY <4>2, <4>3 DEF Serving
    <3>3. /\ Top.op \in P /\ UNCHANGED <<sendQueue, sendTokens>>
          /\ queueSize'[c] = queueSize[c] - 1
      BY <2>3 DEF PushShrink, At, Top, TypeOK, SendTypes
    <3> HIDE DEF P
    <3>4. queueSize[c] = Len(sendQueue[c]) + 1
      BY <1>9, <3>3
    <3>5. queueSize'[c] = Len(sendQueue[c])
      BY <1>9, <3>3, <3>4
    <3>6. sendTokens'[c] >= 0 /\ sendQueue'[c] = sendQueue[c]
      BY <1>9, <3>3
    <3> QED BY <1>9, <3>2, <3>5, <3>6
  <2>4. CASE PushEnd(c) \/ AbsorbEnd(c)
    <3>1. Active' = R \/ Active' = {F("read?")} \cup R
      BY <2>4, PushingFrames DEF MessageInv, R
    <3>2. ~Serving(c, P)'
      BY <1>1, <1>2, <3>1 DEF Serving, F
    <3>3. /\ Top.op \in {"push", "absorb"} /\ UNCHANGED <<sendQueue, queueSize, sendTokens>>
          /\ Top.op = "push" => sendQueue[c] = <<>> \/ ~CanSend(c)
      BY <2>4 DEF PushEnd, AbsorbEnd, At, Top, sendVars
    <3>4. sendQueue'[c] = <<>> \/ ~CanSend(c)'
      BY <1>9, <3>3 DEF CanSend, PushOps
    <3> QED BY <1>9, <3>2, <3>3, <3>4
  <2> QED BY <2>1, <2>2, <2>3, <2>4 DEF Pushing
<1>11. SizesMatch' /\ QueuesServed'
  <2>1. SizesMatch'
    <3>1. ASSUME NEW d \in Clients
          PROVE  queueSize'[d] = Len(sendQueue'[d]) + (IF Serving(d, P)' THEN 1 ELSE 0)
      <4>1. CASE d = c
        BY <1>10, <4>1
      <4>2. CASE d # c
        <5>1. queueSize[d] \in Int /\ queueSize'[d] = queueSize[d]
          BY <1>7, <4>2 DEF TypeOK, SendTypes
        <5>2. queueSize'[d] = Len(sendQueue'[d]) /\ ~Serving(d, P)'
          BY <1>6, <1>8, <4>2
        <5> HIDE DEF P
        <5> QED BY <5>1, <5>2
      <4> QED BY <4>1, <4>2
    <3> QED BY <3>1 DEF SizesMatch, P
  <2>2. QueuesServed'
    BY <1>8, <1>10 DEF QueuesServed
  <2> QED BY <2>1, <2>2
<1>12. NothingQueued'
  <2>1. SUFFICES ASSUME ~MultiClient
                 PROVE  /\ ~Has(PushOps)'
                        /\ \A d \in Clients : sendQueue'[d] = <<>> /\ queueSize'[d] = 0 /\ timer'[d] = "off"
    BY DEF NothingQueued
  <2>2. /\ ~Has(PushOps)
        /\ \A d \in Clients : sendQueue[d] = <<>> /\ queueSize[d] = 0 /\ timer[d] = "off"
    BY <2>1 DEF QueueInv, NothingQueued
  <2>3. AbsorbEnd(c)
    <3>1. Top.op \notin PushOps
      BY <1>1, <2>2 DEF Has
    <3> QED BY <3>1 DEF Pushing, PushOne, PushUnref, PushShrink, PushEnd, At, Top, PushOps
  <2>4. /\ UNCHANGED <<sendQueue, queueSize>>
        /\ \A d \in Clients : timer'[d] = timer[d] \/ timer'[d] = "off"
    BY <2>2, <2>3 DEF AbsorbEnd, TypeOK, SendTypes
  <2>5. Active' = R \/ Active' = {F("read?")} \cup R
    BY <2>3, PushingFrames DEF MessageInv, R
  <2>6. ~Has(PushOps)'
    BY <1>1, <1>2, <2>5 DEF Has, F, PushOps
  <2> QED BY <2>2, <2>4, <2>6
<1> QED BY <1>4, <1>11, <1>12 DEF QueueInv

\* The sizes when no send loop is between taking a message and counting it.
LEMMA PlainSizes ==
  ASSUME TypeOK, SizesMatch, \A c \in Clients : ~Serving(c, {"pushed", "shrink"})
  PROVE  \A c \in Clients : /\ FC("free", c) \notin Active => queueSize[c] = Len(sendQueue[c])
                            /\ Len(sendQueue[c]) \in Nat
<1> TAKE c \in Clients
<1>1. Len(sendQueue[c]) \in Nat
  BY LenProperties DEF TypeOK, SendTypes
<1>2. (IF Serving(c, {"pushed", "shrink"}) THEN 1 ELSE 0) = 0
  OBVIOUS
<1>3. Len(sendQueue[c]) + 0 = Len(sendQueue[c])
  BY <1>1
<1> QED BY <1>1, <1>2, <1>3 DEF SizesMatch

LEMMA PlainSizesNext ==
  ASSUME sendQueue' \in [Clients -> Seq(Bufs)],
         \A c \in Clients : ~Serving(c, {"pushed", "shrink"})',
         \A c \in Clients : FC("free", c) \notin Active' => queueSize'[c] = Len(sendQueue'[c])
  PROVE  SizesMatch'
<1>1. ASSUME NEW c \in Clients
      PROVE  Len(sendQueue'[c]) + (IF Serving(c, {"pushed", "shrink"})' THEN 1 ELSE 0)
               = Len(sendQueue'[c])
  <2>1. Len(sendQueue'[c]) \in Nat
    BY LenProperties
  <2>2. (IF Serving(c, {"pushed", "shrink"})' THEN 1 ELSE 0) = 0
    OBVIOUS
  <2>3. Len(sendQueue'[c]) + 0 = Len(sendQueue'[c])
    BY <2>1
  <2> QED BY <2>1, <2>2, <2>3
<1> QED BY <1>1 DEF SizesMatch

\* Steps that leave no frame of the read loop.
LEMMA BudgetNone ==
  ASSUME \A f \in Active' : f.op \notin ReadOps
  PROVE  Budget'
BY DEF Budget, Has

LEMMA TokensQueue ==
  ASSUME ConstantsOK, TypeOK, LoopInv, MessageInv, QueueInv, NEW c \in Clients,
         WaitTimeout(c) \/ \E n \in 0..MaxSend : TokensSet(c, n) \/ TokensAdd(c, n)
  PROVE  QueueInv'
<1>1. CASE WaitTimeout(c)
  <2>1. /\ stack = <<>> /\ stack' = stack /\ timer[c] = "armed"
        /\ UNCHANGED <<sendTokens, sendQueue, queueSize>>
    BY <1>1 DEF WaitTimeout, Idle
  <2>2. Active = {} /\ Active' = {} /\ MultiClient
    <3>1. MultiClient
      BY <2>1 DEF QueueInv, NothingQueued
    <3> QED BY <2>1, <3>1, IdleFrames
  <2>3. SizesMatch' /\ QueuesServed'
    BY <2>1, <2>2 DEF QueueInv, SizesMatch, QueuesServed, Serving, CanSend
  <2>4. NothingQueued' /\ Budget'
    BY <2>2, BudgetNone DEF NothingQueued
  <2> QED BY <2>3, <2>4 DEF QueueInv
<1>2. CASE \E n \in 0..MaxSend : TokensSet(c, n) \/ TokensAdd(c, n)
  <2>1. PICK n \in 0..MaxSend, had \in {0, sendTokens[c]} : Absorb(c, had, n)
    BY <1>2 DEF TokensSet, TokensAdd
  <2>2. /\ UNCHANGED <<sendQueue, queueSize, timer>>
        /\ sendTokens' = [sendTokens EXCEPT ![c] = had + n]
    BY <2>1 DEF Absorb
  <2>3. /\ Active = {}
        /\ \/ queueSize[c] > 0 /\ Active' = {FC("push", c), FC("absorb", c)}
           \/ ~(queueSize[c] > 0) /\ Active' = {FC("absorb", c)}
    BY <1>2, TokensFrames
  <2>4. /\ FC("push", c).op = "push" /\ FC("push", c).c = c
        /\ FC("absorb", c).op = "absorb" /\ FC("absorb", c).c = c
    BY DEF FC
  <2>5. Budget'
    BY <2>3, <2>4, BudgetNone DEF ReadOps
  <2>6. \A d \in Clients : queueSize[d] = Len(sendQueue[d]) /\ sendQueue[d] \in Seq(Bufs)
    <3>1. \A d \in Clients : ~Serving(d, {"pushed", "shrink"}) /\ FC("free", d) \notin Active
      BY <2>3 DEF Serving
    <3>2. \A d \in Clients : sendQueue[d] \in Seq(Bufs)
      BY DEF TypeOK, SendTypes
    <3> QED BY <3>1, <3>2, PlainSizes DEF QueueInv
  <2>7. SizesMatch'
    <3>1. \A d \in Clients : ~Serving(d, {"pushed", "shrink"})'
      BY <2>3, <2>4 DEF Serving
    <3>2. sendQueue' \in [Clients -> Seq(Bufs)]
      BY <2>2 DEF TypeOK, SendTypes
    <3>3. SizesMatch'
      BY <2>2, <2>6, <3>1, <3>2, PlainSizesNext
    <3> QED BY <3>3
  <2>8. QueuesServed'
    <3>1. sendTokens[c] \in Int /\ sendTokens[c] >= 0 /\ n \in Nat
      BY DEF TypeOK, SendTypes, QueueInv, QueuesServed, ConstantsOK
    <3>2. /\ sendTokens'[c] >= 0
          /\ \A d \in Clients \ {c} : sendTokens'[d] = sendTokens[d]
      BY <2>2, <3>1 DEF TypeOK, SendTypes
    <3>3. \A d \in Clients \ {c} : sendTokens[d] >= 0 /\ (sendQueue[d] # <<>> => ~CanSend(d))
      BY <2>3 DEF QueueInv, QueuesServed, Serving
    <3>4. sendQueue[c] # <<>> => Serving(c, PushOps)'
      <4>1. sendQueue[c] # <<>> => queueSize[c] > 0
        BY <2>6, EmptySeq, LenProperties
      <4> QED BY <2>3, <2>4, <4>1 DEF Serving, PushOps
    <3> QED BY <2>2, <3>2, <3>3, <3>4 DEF QueuesServed, CanSend
  <2>9. NothingQueued'
    <3>1. ~MultiClient => ~(queueSize[c] > 0)
      BY DEF QueueInv, NothingQueued
    <3>2. ~MultiClient => ~Has(PushOps)'
      BY <2>3, <2>4, <3>1 DEF Has, PushOps
    <3> QED BY <2>2, <3>2 DEF QueueInv, NothingQueued
  <2> QED BY <2>5, <2>7, <2>8, <2>9 DEF QueueInv
<1> QED BY <1>1, <1>2

LEMMA LeavingQueue ==
  ASSUME ConstantsOK, TypeOK, QueueInv, NEW c \in Clients, ClientDisconnect(c) \/ RestoreNone(c)
  PROVE  QueueInv'
<1>1. UNCHANGED <<sendTokens, sendQueue, queueSize, timer>>
  BY DEF ClientDisconnect, RestoreNone, sendVars
<1>2. /\ Active = {}
      /\ \A f \in Active' : f = FC("free", c) \/ f.op \in {"hangup", "gone", "removed"}
  BY LeavingFrames
<1>3. \A f \in Active' : f.op \notin PushOps \cup ReadOps
  BY <1>2 DEF PushOps, ReadOps, FC
<1>4. \A d \in Clients : /\ ~Serving(d, {"pushed", "shrink"}) /\ ~Serving(d, {"pushed", "shrink"})'
                         /\ ~Serving(d, PushOps) /\ FC("free", d) \notin Active
  BY <1>2, <1>3 DEF Serving, PushOps
<1>5. SizesMatch'
  BY <1>1, <1>4 DEF QueueInv, SizesMatch
<1>6. QueuesServed'
  BY <1>1, <1>4 DEF QueueInv, QueuesServed, CanSend
<1>7. NothingQueued' /\ Budget'
  BY <1>1, <1>3, BudgetNone DEF QueueInv, NothingQueued, Has
<1> QED BY <1>5, <1>6, <1>7 DEF QueueInv

LEMMA FreeQueue ==
  ASSUME ConstantsOK, TypeOK, MessageInv, QueueInv, NEW c \in Clients, FreeQueued(c) \/ FreeEnd(c)
  PROVE  QueueInv'
<1> DEFINE R == Frames(Tail(stack))
<1>1. /\ Active = {Top} \cup R /\ Top = FC("free", c) /\ Top.op = "free"
      /\ \A f \in R : f.op \notin InnerOps
      /\ FreeQueued(c) => \E G : Active' = G \cup Active /\ \A g \in G : g.op \in WakeOps
      /\ FreeEnd(c) => Active' = R
  BY FreeFrames, FreeMessage DEF MessageInv
<1> HIDE DEF R
<1>2. PushOps \cup {"free"} \cup ReadOps \subseteq InnerOps /\ {"pushed", "shrink"} \subseteq PushOps
      /\ "free" \notin PushOps \cup ReadOps /\ WakeOps \cap (PushOps \cup ReadOps \cup {"free"}) = {}
  BY DEF PushOps, InnerOps, ReadOps, WakeOps
<1>3. \A f \in Active \cup Active' : f.op \notin PushOps \cup ReadOps
  BY <1>1, <1>2
<1>4. \A d \in Clients : /\ ~Serving(d, {"pushed", "shrink"}) /\ ~Serving(d, {"pushed", "shrink"})'
                         /\ ~Serving(d, PushOps)
                         /\ d # c => FC("free", d) \notin Active
                         /\ FreeQueued(c) => FC("free", c) \in Active'
  BY <1>1, <1>2, <1>3 DEF Serving, FC
<1>5. Budget' /\ ~Has(PushOps)'
  BY <1>3, BudgetNone DEF Has
<1>6. \A d \in Clients : /\ sendTokens[d] >= 0 /\ queueSize[d] \in Int /\ sendQueue[d] \in Seq(Bufs)
                         /\ sendQueue[d] # <<>> => ~CanSend(d)
                         /\ d # c => queueSize[d] = Len(sendQueue[d])
  <2>1. \A d \in Clients : d # c => queueSize[d] = Len(sendQueue[d])
    BY <1>4, PlainSizes DEF QueueInv
  <2>2. \A d \in Clients : sendQueue[d] # <<>> => ~CanSend(d)
    BY <1>4 DEF QueueInv, QueuesServed
  <2>3. \A d \in Clients : queueSize[d] \in Int /\ sendQueue[d] \in Seq(Bufs)
    BY DEF TypeOK, SendTypes
  <2>4. \A d \in Clients : sendTokens[d] >= 0
    BY DEF QueueInv, QueuesServed
  <2> QED BY <2>1, <2>2, <2>3, <2>4
<1>7. /\ sendTokens' = sendTokens /\ sendQueue' \in [Clients -> Seq(Bufs)]
      /\ \A d \in Clients \ {c} : UNCHANGED <<sendQueue[d], queueSize[d]>>
  <2>1. sendQueue[c] # <<>> => Tail(sendQueue[c]) \in Seq(Bufs)
    BY <1>6, SeqFacts
  <2>2. sendQueue \in [Clients -> Seq(Bufs)] /\ queueSize \in [Clients -> Int]
    BY DEF TypeOK, SendTypes
  <2>3. CASE FreeQueued(c)
    BY <2>1, <2>2, <2>3 DEF FreeQueued
  <2>4. CASE FreeEnd(c)
    BY <2>2, <2>4 DEF FreeEnd, sendVars
  <2> QED BY <2>3, <2>4
<1>8. CASE FreeQueued(c)
  <2>1. sendQueue[c] # <<>> /\ MultiClient
    BY <1>8 DEF FreeQueued, QueueInv, NothingQueued
  <2>2. SizesMatch'
    BY <1>4, <1>6, <1>7, <1>8, PlainSizesNext
  <2>3. QueuesServed'
    BY <1>6, <1>7, <2>1 DEF QueuesServed, CanSend
  <2> QED BY <1>5, <2>1, <2>2, <2>3 DEF QueueInv, NothingQueued
<1>9. CASE FreeEnd(c)
  <2>1. /\ sendQueue[c] = <<>> /\ sendQueue' = sendQueue /\ queueSize'[c] = 0
        /\ \A d \in Clients : timer'[d] = timer[d] \/ timer'[d] = "off"
    BY <1>9 DEF FreeEnd, TypeOK, SendTypes
  <2>2. Len(sendQueue'[c]) = 0
    BY <2>1, EmptySeq
  <2>3. SizesMatch'
    BY <1>4, <1>6, <1>7, <2>1, <2>2, PlainSizesNext
  <2>4. QueuesServed'
    BY <1>6, <1>7, <2>1 DEF QueuesServed, CanSend
  <2>5. NothingQueued'
    BY <1>5, <1>7, <2>1 DEF QueueInv, NothingQueued
  <2> QED BY <1>5, <2>3, <2>4, <2>5 DEF QueueInv
<1> QED BY <1>8, <1>9

LEMMA EndingQueue ==
  ASSUME ConstantsOK, TypeOK, MessageInv, QueueInv, Detach \/ Destroy \/ ResetRelease \/ ResetQueues
  PROVE  QueueInv'
<1>1. /\ \A f \in Active : f.op \notin InnerOps
      /\ \A f \in Active' : f.op \notin InnerOps \/ \E c \in clients : f = FC("free", c)
  BY EndingMessage DEF Has
<1>2. /\ PushOps \cup {"free"} \cup ReadOps \subseteq InnerOps /\ {"pushed", "shrink"} \subseteq PushOps
      /\ \A c : FC("free", c).op = "free" /\ "free" \notin PushOps \cup ReadOps
  BY DEF PushOps, InnerOps, ReadOps, FC
<1>3. \A f \in Active \cup Active' : f.op \notin PushOps \cup ReadOps
  BY <1>1, <1>2
<1>4. \A d \in Clients : /\ ~Serving(d, {"pushed", "shrink"}) /\ ~Serving(d, {"pushed", "shrink"})'
                         /\ ~Serving(d, PushOps) /\ FC("free", d) \notin Active
  BY <1>1, <1>2, <1>3 DEF Serving
<1>5. Budget' /\ ~Has(PushOps)'
  BY <1>3, BudgetNone DEF Has
<1>6. \A d \in Clients : /\ queueSize[d] = Len(sendQueue[d]) /\ Len(sendQueue[d]) \in Nat
                         /\ sendTokens[d] >= 0 /\ sendTokens[d] \in Int
                         /\ sendQueue[d] # <<>> => ~CanSend(d)
  BY <1>4, PlainSizes DEF QueueInv, QueuesServed, TypeOK, SendTypes
<1>7. /\ timer' = timer
      /\ \A d \in Clients :
           \/ UNCHANGED <<sendTokens[d], sendQueue[d], queueSize[d]>>
           \/ /\ sendTokens'[d] = sendTokens[d] + queueSize[d]
              /\ sendQueue'[d] = <<>> /\ queueSize'[d] = 0
  BY DEF Detach, Destroy, ResetRelease, ResetQueues, sendVars
<1>8. sendQueue' \in [Clients -> Seq(Bufs)]
  <2>1. <<>> \in Seq(Bufs) /\ sendQueue \in [Clients -> Seq(Bufs)]
    BY SeqFacts DEF TypeOK, SendTypes
  <2>2. sendQueue' = sendQueue
        \/ sendQueue' = [c \in Clients |-> IF c \in clients THEN <<>> ELSE sendQueue[c]]
    BY DEF Detach, Destroy, ResetRelease, ResetQueues, sendVars
  <2>3. \A c \in Clients : sendQueue[c] \in Seq(Bufs)
    BY <2>1
  <2> QED BY <2>1, <2>2, <2>3
<1>9. Len(<<>>) = 0
  OBVIOUS
<1>10. SizesMatch'
  <2>1. \A d \in Clients : queueSize'[d] = Len(sendQueue'[d])
    BY <1>6, <1>7, <1>9
  <2> QED BY <1>4, <1>8, <2>1, PlainSizesNext
<1>11. QueuesServed'
  <2>1. \A d \in Clients : sendTokens'[d] >= 0
    <3> TAKE d \in Clients
    <3>1. sendTokens[d] + queueSize[d] >= 0
      BY <1>6
    <3> QED BY <1>6, <1>7, <3>1
  <2>2. \A d \in Clients : sendQueue'[d] # <<>> => ~CanSend(d)'
    BY <1>6, <1>7 DEF CanSend
  <2> QED BY <2>1, <2>2 DEF QueuesServed
<1>12. NothingQueued'
  BY <1>5, <1>7 DEF QueueInv, NothingQueued
<1> QED BY <1>5, <1>10, <1>11, <1>12 DEF QueueInv

LEMMA AddingQueue ==
  ASSUME ConstantsOK, TypeOK, DeviceInv, MessageInv, QueueInv,
         \/ \E c \in Clients, n \in 0..MaxSend : ClientAdd(c, n)
         \/ \E c \in Clients \cup {None}, vm \in BOOLEAN : Attach(c, vm)
         \/ Migrated
  PROVE  QueueInv'
<1>1. Active = {} /\ \A f \in Active' : f.op \in {"write?", "read?", "start"}
  BY AddingFrames
<1>2. \A f \in Active' : f.op \notin PushOps \cup ReadOps
  BY <1>1 DEF PushOps, ReadOps
<1>3. \A d \in Clients : /\ ~Serving(d, {"pushed", "shrink"}) /\ ~Serving(d, {"pushed", "shrink"})'
                         /\ ~Serving(d, PushOps) /\ FC("free", d) \notin Active
  BY <1>1, <1>2 DEF Serving, PushOps
<1>4. Budget' /\ ~Has(PushOps)'
  BY <1>2, BudgetNone DEF Has
<1>5. \A d \in Clients : /\ queueSize[d] = Len(sendQueue[d]) /\ sendTokens[d] >= 0
                         /\ sendQueue[d] # <<>> => ~CanSend(d)
  BY <1>3, PlainSizes DEF QueueInv, QueuesServed
<1>6. ASSUME NEW c \in Clients, NEW t \in Nat, sendTokens' = [sendTokens EXCEPT ![c] = t],
             sendQueue' = [sendQueue EXCEPT ![c] = <<>>], queueSize' = [queueSize EXCEPT ![c] = 0],
             timer' = [timer EXCEPT ![c] = "off"]
      PROVE  QueueInv'
  <2>1. /\ sendQueue'[c] = <<>> /\ queueSize'[c] = 0 /\ timer'[c] = "off" /\ sendTokens'[c] = t
        /\ \A d \in Clients \ {c} : UNCHANGED <<sendTokens[d], sendQueue[d], queueSize[d], timer[d]>>
        /\ sendQueue' \in [Clients -> Seq(Bufs)]
    BY <1>6, SeqFacts DEF TypeOK, SendTypes
  <2>2. Len(<<>>) = 0 /\ t >= 0
    BY <1>6
  <2>3. SizesMatch'
    <3>1. \A d \in Clients : queueSize'[d] = Len(sendQueue'[d])
      BY <1>5, <2>1, <2>2
    <3> QED BY <1>3, <2>1, <3>1, PlainSizesNext
  <2>4. QueuesServed'
    BY <1>5, <2>1, <2>2 DEF QueuesServed, CanSend
  <2>5. NothingQueued'
    BY <1>4, <2>1 DEF QueueInv, NothingQueued
  <2> QED BY <1>4, <2>3, <2>4, <2>5 DEF QueueInv
<1>7. ASSUME NEW c \in Clients, NEW n \in Nat, AddClient(c, n) PROVE QueueInv'
  BY <1>6, <1>7 DEF AddClient
<1>8. CASE UNCHANGED <<sendTokens, sendQueue, queueSize, timer>>
  <2>1. \A f : f.op \in PushOps \cup {"free"} => (f \in Active' <=> f \in Active)
    BY <1>1 DEF PushOps
  <2> QED BY <1>4, <1>8, <2>1, QueueKept DEF QueueInv
<1>9. CASE \E c \in Clients, n \in 0..MaxSend : ClientAdd(c, n)
  BY <1>7, <1>9 DEF ClientAdd, ConstantsOK
<1>10. CASE \E c \in Clients \cup {None}, vm \in BOOLEAN : Attach(c, vm)
  <2>1. MaxSend \in Nat
    BY DEF ConstantsOK
  <2> QED BY <1>7, <1>8, <1>10, <2>1 DEF Attach, sendVars
<1>11. ASSUME NEW c \in Clients, NEW n \in 0..Window, NEW w \in 0..Window, NEW t \in 0..MaxSend,
              NEW data \in BOOLEAN, Restore(c, n, w, t, data)
       PROVE  QueueInv'
  <2>1. /\ conn[c] = "mig" /\ sendTokens' = [sendTokens EXCEPT ![c] = t]
        /\ UNCHANGED <<sendQueue, queueSize, timer>> /\ t \in Nat
    BY <1>11 DEF Restore, ConstantsOK
  <2>2. ~MultiClient
    BY <2>1 DEF DeviceInv
  <2>3. sendQueue[c] = <<>> /\ queueSize[c] = 0 /\ timer[c] = "off"
    BY <2>2 DEF QueueInv, NothingQueued
  <2>4. /\ sendQueue = [sendQueue EXCEPT ![c] = <<>>] /\ queueSize = [queueSize EXCEPT ![c] = 0]
        /\ timer = [timer EXCEPT ![c] = "off"]
    BY <2>3 DEF TypeOK, SendTypes
  <2> QED BY <1>6, <2>1, <2>4
<1> QED BY <1>9, <1>10, <1>11 DEF Migrated

LEMMA QueueNext ==
  ASSUME ConstantsOK, TypeOK, LoopInv, LoopInv', DeviceInv, RemovalInv, MessageInv, QueueInv,
         [Next]_vars
  PROVE  QueueInv'
BY Steps, QueueStill, ReadingQueue, PushingQueue, TokensQueue, LeavingQueue, FreeQueue, EndingQueue,
   AddingQueue

LEMMA QueueInit ==
  ASSUME ConstantsOK, Init
  PROVE  QueueInv
<1>1. /\ stack = <<>>
      /\ sendQueue = [c \in Clients |-> <<>>] /\ queueSize = [c \in Clients |-> 0]
      /\ sendTokens = [c \in Clients |-> 0] /\ timer = [c \in Clients |-> "off"]
  BY DEF Init
<1>2. Active = {} /\ Len(<<>>) = 0
  BY <1>1, FramesOf DEF Active
<1>3. \A c \in Clients : ~Serving(c, {"pushed", "shrink"})
  BY <1>2 DEF Serving
<1>4. SizesMatch
  BY <1>1, <1>2, <1>3 DEF SizesMatch
<1> QED BY <1>1, <1>2, <1>4 DEF QueueInv, QueuesServed, Budget, NothingQueued, Has

\* What is read from the device is accounted for: in every state it is queued for a client
\* exactly while the client lacks tokens or the send loop is at work, no more is read than
\* some client has tokens for, and the recorded sizes of the queues are true.
THEOREM QueuesAlways == Spec => [](MessageInv /\ QueueInv)
<1> DEFINE I == TypeOK /\ LoopInv /\ WritingInv
           J == MessageInv /\ QueueInv
<1>1. Init => J
  BY ConstantsOK, MessageInit, QueueInit
<1>2. I /\ I' /\ J /\ [Next]_vars => J'
  BY ConstantsOK, MessageNext, QueueNext DEF WritingInv
<1> HIDE DEF J
<1> QED BY <1>1, <1>2, TypeCorrect, LoopsGuarded, WritingAlways, PTL DEF Spec, J

LEMMA QueuesMean ==
  ASSUME TypeOK, MessageInv, QueueInv
  PROVE  SingleClientNoQueue /\ QueueMeansNoTokens
<1>1. SingleClientNoQueue
  BY DEF QueueInv, NothingQueued, SingleClientNoQueue
<1>2. ASSUME Idle, NEW c \in clients, queueSize[c] > 0
      PROVE  sendTokens[c] = 0
  <2>1. Active = {} /\ c \in Clients
    BY <1>2, HasFrames DEF Idle, TypeOK, DeviceTypes
  <2>2. \A d \in Clients : ~Serving(d, {"pushed", "shrink"}) /\ ~Serving(d, PushOps)
    BY <2>1 DEF Serving
  <2>3. queueSize[c] = Len(sendQueue[c])
    BY <2>1, <2>2, PlainSizes DEF QueueInv
  <2>4. sendQueue[c] # <<>>
    <3>1. Len(<<>>) = 0
      OBVIOUS
    <3> QED BY <1>2, <2>3, <3>1
  <2>5. sendTokens[c] >= 0 /\ ~CanSend(c) /\ sendTokens[c] \in Int
    BY <2>1, <2>2, <2>4 DEF QueueInv, QueuesServed, TypeOK, SendTypes
  <2> QED BY <2>5 DEF CanSend
<1> QED BY <1>1, <1>2 DEF QueueMeansNoTokens

\* With one client at a time nothing is ever queued, as the code that saves the state of the
\* device for a migration asserts.
THEOREM SingleAlways == Spec => []SingleClientNoQueue
<1>1. TypeOK /\ MessageInv /\ QueueInv => SingleClientNoQueue
  BY QueuesMean
<1> QED BY <1>1, TypeCorrect, QueuesAlways, PTL

\* A client whose messages wait has no tokens when new ones come: the spice_assert of
\* spice_char_device_send_to_client_tokens_absorb never fails.
THEOREM NoTokensAlways == Spec => []QueueMeansNoTokens
<1>1. TypeOK /\ MessageInv /\ QueueInv => QueueMeansNoTokens
  BY QueuesMean
<1> QED BY <1>1, TypeCorrect, QueuesAlways, PTL

-----------------------------------------------------------------------------
(* Clients whose messages wait.                                            *)

\* The channel of c works, and its removal has not begun.
Served(c) == c \in clients /\ conn[c] \in Open /\ FC("free", c) \notin Active

\* Its timer has not gone off, and runs or is about to be started if messages wait.
WatchInv ==
  \A c \in Clients : Served(c) =>
    /\ timer[c] # "spent"
    /\ sendQueue[c] # <<>> => timer[c] = "armed" \/ FC("absorb", c) \in Active

\* A client for which a step changes nothing.
LEMMA WatchKept ==
  ASSUME WatchInv, NEW c \in Clients, Served(c)' => Served(c),
         FC("absorb", c) \in Active => FC("absorb", c) \in Active',
         timer'[c] = timer[c], sendQueue'[c] = sendQueue[c] \/ sendQueue'[c] = <<>>, Served(c)'
  PROVE  timer'[c] # "spent" /\ (sendQueue'[c] # <<>> => timer'[c] = "armed" \/ FC("absorb", c) \in Active')
BY DEF WatchInv

\* Most steps leave the frames of removals, and remove no client.
LEMMA ServedKept ==
  ASSUME TypeOK, UNCHANGED clients,
         \A c \in clients : conn'[c] \in Open => conn[c] \in Open,
         \A c \in Clients : FC("free", c) \in Active => FC("free", c) \in Active'
  PROVE  \A c \in Clients : Served(c)' => Served(c)
BY DEF Served

LEMMA StillServed ==
  ASSUME TypeOK, Still
  PROVE  /\ \A c \in Clients : Served(c)' => Served(c)
         /\ \A f : f.op \in RootOps => (f \in Active' <=> f \in Active)
<1>1. \A f : f.op \in RootOps => (f \in Active' <=> f \in Active)
  BY StillFrames DEF Still, KeepOps
<1>2. \A c \in Clients : FC("free", c) \in Active => FC("free", c) \in Active'
  BY <1>1 DEF FC, RootOps
<1>3. UNCHANGED clients /\ \A c \in clients : conn'[c] \in Open => conn[c] \in Open
  BY DEF Still
<1> QED BY <1>1, <1>2, <1>3, ServedKept

LEMMA ReadingServed ==
  ASSUME TypeOK, MessageInv, Reading
  PROVE  /\ \A c \in Clients : Served(c)' => Served(c)
         /\ \A f : f.op \in RootOps => (f \in Active' <=> f \in Active)
         /\ clients' = clients
<1>1. \A f : f.op \in RootOps => (f \in Active' <=> f \in Active)
  BY ReadingFrames DEF MessageInv
<1>2. \A c \in Clients : FC("free", c) \in Active => FC("free", c) \in Active'
  BY <1>1 DEF FC, RootOps
<1>3. clients' = clients
  BY DEF Reading, ReadRefused, ReadNested, ReadBegin, ReadMsg, ReadDiscard, ReadNothing, ReadAgain,
         ReadEnd, SendNow, SendOverflow, SendLater, SendDone, DropMsg
<1>4. conn' = conn \/ \E d \in Clients : RemoveClient(d)
  BY DEF Reading, ReadRefused, ReadNested, ReadBegin, ReadMsg, ReadDiscard, ReadNothing, ReadAgain,
         ReadEnd, SendNow, SendOverflow, SendLater, SendDone, DropMsg, chanVars
<1>5. \A c \in clients : conn'[c] \in Open => conn[c] \in Open
  BY <1>4 DEF RemoveClient, Open, TypeOK, ChanTypes, DeviceTypes
<1> QED BY <1>1, <1>2, <1>3, <1>5, ServedKept

LEMMA PushingServed ==
  ASSUME ConstantsOK, TypeOK, MessageInv, NEW c \in Clients, Pushing(c)
  PROVE  /\ \A d \in Clients : Served(d)' => Served(d) /\ FC("free", d) \notin Active
         /\ \A d \in Clients : d # c \/ ~AbsorbEnd(c) =>
              (FC("absorb", d) \in Active => FC("absorb", d) \in Active')
         /\ UNCHANGED <<clients, conn>>
<1> DEFINE R == Frames(Tail(stack))
<1>1. /\ Top.c = c /\ Top.op \in PushingOps /\ Active = {Top} \cup R
      /\ \A f \in R : f.op \notin InnerOps
      /\ PushOne(c) =>
           \E G : Active' = G \cup {[op |-> "pushed", c |-> c, b |-> Head(sendQueue[c])]} \cup R
      /\ PushUnref(c) => \E G : Active' = G \cup {FC("shrink", c)} \cup R
      /\ PushShrink(c) => Active' = {FC("push", c)} \cup R
      /\ PushEnd(c) => Active' = R
      /\ AbsorbEnd(c) => Active' = R \/ Active' = {F("read?")} \cup R
  BY PushingFrames DEF MessageInv
<1> HIDE DEF R
<1>2. \A d \in Clients : FC("free", d) \notin Active
  BY <1>1 DEF FC, InnerOps, PushingOps
<1>3. UNCHANGED <<clients, conn>>
  BY DEF Pushing, PushOne, PushUnref, PushShrink, PushEnd, AbsorbEnd, chanVars
<1>4. \A d \in Clients : Served(d)' => Served(d)
  BY <1>2, <1>3 DEF Served
<1>5. R \subseteq Active'
  BY <1>1 DEF Pushing
<1>6. \A d \in Clients : d # c \/ ~AbsorbEnd(c) => FC("absorb", d) # Top
  BY <1>1 DEF Pushing, PushOne, PushUnref, PushShrink, PushEnd, At, Top, FC
<1> QED BY <1>1, <1>2, <1>3, <1>4, <1>5, <1>6

LEMMA FreeServed ==
  ASSUME ConstantsOK, TypeOK, MessageInv, NEW c \in Clients, FreeQueued(c) \/ FreeEnd(c)
  PROVE  /\ \A d \in Clients : Served(d)' => Served(d) /\ d # c
         /\ \A d \in Clients : FC("absorb", d) \in Active => FC("absorb", d) \in Active'
         /\ clients' \subseteq clients
<1> DEFINE R == Frames(Tail(stack))
<1>1. /\ Active = {Top} \cup R /\ Top = FC("free", c) /\ Top.op = "free"
      /\ \A f \in R : f.op \notin InnerOps
      /\ FreeQueued(c) => \E G : Active' = G \cup Active
      /\ FreeEnd(c) => Active' = R
  BY FreeFrames, FreeMessage DEF MessageInv
<1> HIDE DEF R
<1>2. \A d \in Clients : /\ FC("absorb", d) # Top
                         /\ d # c => FC("free", d) \notin Active
  BY <1>1 DEF FC, InnerOps
<1>3. /\ FreeQueued(c) => UNCHANGED <<clients, conn>> /\ FC("free", c) \in Active'
      /\ FreeEnd(c) => UNCHANGED conn /\ clients' = clients \ {c}
  BY <1>1 DEF FreeQueued, FreeEnd, chanVars
<1> QED BY <1>1, <1>2, <1>3 DEF Served

LEMMA EndingServed ==
  ASSUME ConstantsOK, TypeOK, MessageInv, Detach \/ Destroy \/ ResetRelease \/ ResetQueues
  PROVE  /\ \A d \in Clients : Served(d)' => Served(d)
         /\ \A d \in Clients : FC("absorb", d) \in Active => FC("absorb", d) \in Active'
         /\ clients' = clients
<1>1. \A d \in Clients : FC("free", d) \notin Active
  BY EndingMessage DEF Has, FC, InnerOps
<1>2. clients' = clients
  BY DEF Detach, Destroy, ResetRelease, ResetQueues
<1>3. \A d \in Clients : conn'[d] \in Open => conn[d] \in Open
  BY DEF Detach, Destroy, ResetRelease, ResetQueues, chanVars, Open
<1>4. ASSUME NEW d \in Clients, FC("absorb", d) \in Active PROVE FC("absorb", d) \in Active'
  <2> DEFINE R == Frames(Tail(stack))
  <2>1. /\ Detach => Active = {}
        /\ ~Detach => Active = {Top} \cup R
        /\ Destroy => Active' = R \/ \E c \in clients : Active' = {FC("free", c)} \cup Active
        /\ ResetRelease => \E G : Active' = G \cup R
        /\ ResetQueues => Active' = R
    BY EndingFrames DEF MessageInv
  <2> HIDE DEF R
  <2>2. ~Detach => Top.op # "absorb"
    BY DEF Destroy, ResetRelease, ResetQueues, At, Top
  <2>3. FC("absorb", d) # Top \/ Detach
    BY <2>2 DEF FC
  <2> QED BY <1>4, <2>1, <2>3
<1> QED BY <1>1, <1>2, <1>3, <1>4 DEF Served

LEMMA StillWatch ==
  ASSUME TypeOK, WatchInv, Still
  PROVE  WatchInv'
<1>1. \A c \in Clients : /\ Served(c)' => Served(c)
                         /\ FC("absorb", c) \in Active => FC("absorb", c) \in Active'
                         /\ timer'[c] = timer[c] /\ sendQueue'[c] = sendQueue[c]
  BY StillServed DEF Still, sendVars, FC, RootOps
<1> QED BY <1>1, WatchKept DEF WatchInv

LEMMA ReadingWatch ==
  ASSUME ConstantsOK, TypeOK, MessageInv, WatchInv, Reading
  PROVE  WatchInv'
<1>1. \A c \in Clients : /\ Served(c)' => Served(c)
                         /\ FC("absorb", c) \in Active => FC("absorb", c) \in Active'
  BY ReadingServed DEF FC, RootOps
<1>2. CASE UNCHANGED <<timer, sendQueue>>
  BY <1>1, <1>2, WatchKept DEF WatchInv
<1>3. ASSUME NEW c \in Clients, SendLater(c) PROVE WatchInv'
  <2>1. /\ \A d \in Clients \ {c} : timer'[d] = timer[d] /\ sendQueue'[d] = sendQueue[d]
        /\ timer'[c] = IF timer[c] = "off" THEN "armed" ELSE timer[c]
        /\ timer[c] \in {"off", "armed", "spent"}
    BY <1>3 DEF SendLater, WatchQueue, TypeOK, SendTypes
  <2>2. Served(c) => timer'[c] = "armed"
    BY <2>1 DEF WatchInv
  <2> QED BY <1>1, <2>1, <2>2, WatchKept DEF WatchInv
<1>4. UNCHANGED <<timer, sendQueue>> \/ \E c \in Clients : SendLater(c)
  BY DEF Reading, ReadRefused, ReadNested, ReadBegin, ReadMsg, ReadDiscard, ReadNothing, ReadAgain,
         ReadEnd, SendNow, SendOverflow, SendDone, DropMsg, sendVars
<1> QED BY <1>2, <1>3, <1>4

LEMMA PushingWatch ==
  ASSUME ConstantsOK, TypeOK, MessageInv, QueueInv, WatchInv, NEW c \in Clients, Pushing(c)
  PROVE  WatchInv'
<1>1. CASE ~AbsorbEnd(c)
  <2>1. /\ timer' = timer
        /\ \A d \in Clients : sendQueue'[d] = sendQueue[d] \/ (d = c /\ sendQueue[c] # <<>>)
    BY <1>1 DEF Pushing, PushOne, PushUnref, PushShrink, PushEnd, sendVars, TypeOK, SendTypes
  <2>2. \A d \in Clients : /\ Served(d)' => Served(d)
                           /\ FC("absorb", d) \in Active => FC("absorb", d) \in Active'
    BY <1>1, PushingServed
  <2> QED BY <2>1, <2>2 DEF WatchInv
<1>2. CASE AbsorbEnd(c)
  <2>1. /\ sendQueue' = sendQueue
        /\ \A d \in Clients \ {c} : timer'[d] = timer[d]
        /\ \/ CanSend(c) /\ timer'[c] = "off"
           \/ ~CanSend(c) /\ timer'[c] = IF queueSize[c] > 0 THEN "armed" ELSE timer[c]
    BY <1>2 DEF AbsorbEnd, TypeOK, SendTypes
  <2>2. \A d \in Clients : Served(d)' => Served(d) /\ FC("free", d) \notin Active
    BY PushingServed
  <2>3. \A d \in Clients \ {c} : FC("absorb", d) \in Active => FC("absorb", d) \in Active'
    BY PushingServed
  <2>4. \A f \in Active : f.op \notin PushOps
    <3>1. Active = {Top} \cup Frames(Tail(stack)) /\ \A f \in Frames(Tail(stack)) : f.op \notin InnerOps
      BY PushingFrames DEF MessageInv
    <3>2. Top.op = "absorb"
      BY <1>2 DEF AbsorbEnd, At, Top
    <3> QED BY <3>1, <3>2 DEF InnerOps, PushOps
  <2>5. Served(c) => /\ sendQueue[c] # <<>> => ~CanSend(c) /\ queueSize[c] > 0
                     /\ timer[c] # "spent"
    <3>1. \A d \in Clients : ~Serving(d, {"pushed", "shrink"}) /\ ~Serving(d, PushOps)
      BY <2>4 DEF Serving, PushOps
    <3>2. sendQueue[c] # <<>> => ~CanSend(c)
      BY <3>1 DEF QueueInv, QueuesServed
    <3>3. Served(c) => queueSize[c] = Len(sendQueue[c])
      BY <3>1, PlainSizes DEF QueueInv, Served
    <3>4. sendQueue[c] # <<>> => Len(sendQueue[c]) > 0
      <4>1. sendQueue[c] \in Seq(Bufs)
        BY DEF TypeOK, SendTypes
      <4> QED BY <4>1, EmptySeq, LenProperties
    <3> QED BY <3>2, <3>3, <3>4 DEF WatchInv
  <2>6. Served(c)' => /\ timer'[c] # "spent" /\ (sendQueue'[c] # <<>> => timer'[c] = "armed")
    BY <2>1, <2>2, <2>5
  <2>7. ASSUME NEW d \in Clients \ {c}, Served(d)'
        PROVE timer'[d] # "spent" /\ (sendQueue'[d] # <<>> => timer'[d] = "armed" \/ FC("absorb", d) \in Active')
    BY <2>1, <2>2, <2>3, <2>7, WatchKept
  <2> QED BY <2>6, <2>7 DEF WatchInv
<1> QED BY <1>1, <1>2

LEMMA TokensWatch ==
  ASSUME ConstantsOK, TypeOK, DeviceInv, QueueInv, WatchInv, NEW c \in Clients,
         WaitTimeout(c) \/ \E n \in 0..MaxSend : TokensSet(c, n) \/ TokensAdd(c, n)
  PROVE  WatchInv'
<1>1. CASE WaitTimeout(c)
  <2>1. /\ stack = <<>> /\ stack' = stack /\ timer[c] = "armed" /\ UNCHANGED <<sendQueue, clients>>
        /\ \A d \in Clients \ {c} : timer'[d] = timer[d]
        /\ RemoveClient(c)
    BY <1>1 DEF WaitTimeout, Idle, TypeOK, SendTypes
  <2>2. Active = {} /\ Active' = {}
    BY <2>1, IdleFrames
  <2>3. conn[c] \notin {"mig", "late"}
    BY <2>1 DEF DeviceInv, QueueInv, NothingQueued
  <2>4. conn'[c] \notin Open /\ \A d \in Clients \ {c} : conn'[d] = conn[d]
    BY <2>1, <2>3 DEF RemoveClient, Open, TypeOK, ChanTypes
  <2> QED BY <2>1, <2>2, <2>4 DEF WatchInv, Served
<1>2. CASE \E n \in 0..MaxSend : TokensSet(c, n) \/ TokensAdd(c, n)
  <2>1. UNCHANGED <<sendQueue, timer, clients, conn>>
    BY <1>2 DEF TokensSet, TokensAdd, Absorb
  <2>2. Active = {}
    BY <1>2, TokensFrames
  <2> QED BY <2>1, <2>2 DEF WatchInv, Served
<1> QED BY <1>1, <1>2

LEMMA LeavingWatch ==
  ASSUME ConstantsOK, TypeOK, WatchInv, NEW c \in Clients, ClientDisconnect(c) \/ RestoreNone(c)
  PROVE  WatchInv'
<1>1. UNCHANGED <<clients, sendQueue, timer>> /\ Active = {}
  BY LeavingFrames DEF ClientDisconnect, RestoreNone, sendVars
<1>2. \A d \in Clients : conn'[d] \in Open => conn[d] \in Open
  BY DEF ClientDisconnect, RestoreNone, chanVars, Waiting, Open, TypeOK, ChanTypes
<1> QED BY <1>1, <1>2 DEF WatchInv, Served

LEMMA FreeWatch ==
  ASSUME ConstantsOK, TypeOK, MessageInv, WatchInv, NEW c \in Clients, FreeQueued(c) \/ FreeEnd(c)
  PROVE  WatchInv'
<1>1. \A d \in Clients \ {c} : timer'[d] = timer[d] /\ sendQueue'[d] = sendQueue[d]
  BY DEF FreeQueued, FreeEnd, TypeOK, SendTypes
<1> QED BY <1>1, FreeServed, WatchKept DEF WatchInv

LEMMA EndingWatch ==
  ASSUME ConstantsOK, TypeOK, MessageInv, WatchInv, Detach \/ Destroy \/ ResetRelease \/ ResetQueues
  PROVE  WatchInv'
<1>1. \A d \in Clients : timer'[d] = timer[d] /\ (sendQueue'[d] = sendQueue[d] \/ sendQueue'[d] = <<>>)
  BY DEF Detach, Destroy, ResetRelease, ResetQueues, sendVars
<1> QED BY <1>1, EndingServed, WatchKept DEF WatchInv

LEMMA AddingWatch ==
  ASSUME ConstantsOK, TypeOK, WatchInv,
         \/ \E c \in Clients, n \in 0..MaxSend : ClientAdd(c, n)
         \/ \E c \in Clients \cup {None}, vm \in BOOLEAN : Attach(c, vm)
         \/ Migrated
  PROVE  WatchInv'
<1>1. Active = {}
  BY AddingFrames
<1>2. ASSUME NEW c \in Clients, NEW n, AddClient(c, n), conn' = conn
      PROVE  WatchInv'
  <2>1. /\ sendQueue'[c] = <<>> /\ timer'[c] = "off"
        /\ \A d \in Clients \ {c} : UNCHANGED <<sendQueue[d], timer[d]>>
        /\ clients' = clients \cup {c}
    BY <1>2 DEF AddClient, TypeOK, SendTypes
  <2> QED BY <1>1, <1>2, <2>1 DEF WatchInv, Served
<1>3. ASSUME UNCHANGED <<clients, sendQueue, timer>>,
             \A d \in Clients : conn'[d] \in Open => conn[d] \in Open
      PROVE  WatchInv'
  BY <1>1, <1>3 DEF WatchInv, Served
<1>4. CASE \E c \in Clients, n \in 0..MaxSend : ClientAdd(c, n)
  BY <1>2, <1>4 DEF ClientAdd
<1>5. CASE \E c \in Clients \cup {None}, vm \in BOOLEAN : Attach(c, vm)
  BY <1>2, <1>3, <1>5 DEF Attach, sendVars
<1>6. CASE Migrated
  <2>1. UNCHANGED <<clients, sendQueue, timer>>
    BY <1>6 DEF Migrated, Restore
  <2>2. \A d \in Clients : conn'[d] \in Open => conn[d] \in Open
    BY <1>6 DEF Migrated, Restore, TypeOK, ChanTypes, Open
  <2> QED BY <1>3, <2>1, <2>2
<1> QED BY <1>4, <1>5, <1>6

LEMMA WatchNext ==
  ASSUME ConstantsOK, TypeOK, DeviceInv, RemovalInv, MessageInv, QueueInv, WatchInv, [Next]_vars
  PROVE  WatchInv'
BY Steps, StillWatch, ReadingWatch, PushingWatch, TokensWatch, LeavingWatch, FreeWatch, EndingWatch,
   AddingWatch

\* A client whose messages wait is either given the tokens it lacks or removed in the end:
\* whenever the main loop comes back, the timeout that removes it is running, whatever was
\* sent, queued or reset meanwhile.
THEOREM WatchedAlways == Spec => []QueueWatched
<1> DEFINE I == TypeOK /\ WritingInv
           J == MessageInv /\ QueueInv
<1>1. Init => WatchInv
  BY DEF Init, WatchInv, Served
<1>2. I /\ J /\ WatchInv /\ [Next]_vars => WatchInv'
  BY ConstantsOK, WatchNext DEF WritingInv
<1>3. TypeOK /\ WatchInv => QueueWatched
  <2>1. SUFFICES ASSUME TypeOK, WatchInv, Idle, NEW c \in clients, sendQueue[c] # <<>>,
                        conn[c] = "open"
                 PROVE  timer[c] = "armed"
    BY DEF QueueWatched
  <2>2. Active = {} /\ c \in Clients
    BY <2>1, HasFrames DEF Idle, TypeOK, DeviceTypes
  <2>3. Served(c)
    BY <2>1, <2>2 DEF Served, Open
  <2> QED BY <2>1, <2>2, <2>3 DEF WatchInv
<1> HIDE DEF J
<1> QED BY <1>1, <1>2, <1>3, TypeCorrect, WritingAlways, QueuesAlways, PTL DEF Spec, J
=============================================================================

-------------------------- MODULE CharDeviceWriting --------------------------
(***************************************************************************)
(* The direction from the clients to the guest, and what the device knows  *)
(* of its clients, for any number of clients and any limits.               *)
(*                                                                         *)
(* Every step takes place on some stack of calls.  What matters of it here *)
(* is which frames it has (Active), and that some of them never lie over   *)
(* others (NoOver): a client's removal is over before its end is reported. *)
(***************************************************************************)
EXTENDS CharDevice_proofs

Frames(s) == {s[i] : i \in 1..Len(s)}
Active    == Frames(stack)
Has(L)    == \E f \in Active : f.op \in L

\* No frame of A lies over one of B.
NoOver(A, B, s) ==
  \A i, j \in 1..Len(s) : i < j /\ s[i].op \in A => s[j].op \notin B

-----------------------------------------------------------------------------
(* The frames of a stack.                                                  *)

LEMMA FramesOf ==
  /\ Frames(<<>>) = {}
  /\ \A f : Frames(<<f>>) = {f}
  /\ \A f, g : Frames(<<f, g>>) = {f, g}
  /\ \A s, t \in Seq(Frame) : Frames(s \o t) = Frames(s) \cup Frames(t)
  /\ \A s \in Seq(Frame) : s # <<>> => Frames(s) = {Head(s)} \cup Frames(Tail(s))
<1>1. \A f : Frames(<<f>>) = {f}
  BY DEF Frames
<1>2. \A f, g : Frames(<<f, g>>) = {f, g}
  BY DEF Frames
<1>3. ASSUME NEW s \in Seq(Frame), NEW t \in Seq(Frame)
      PROVE  Frames(s \o t) = Frames(s) \cup Frames(t)
  <2>1. /\ Len(s) \in Nat /\ Len(t) \in Nat /\ Len(s \o t) = Len(s) + Len(t)
        /\ \A i \in 1..Len(s) + Len(t) :
             (s \o t)[i] = IF i <= Len(s) THEN s[i] ELSE t[i - Len(s)]
    BY ConcatProperties, LenProperties
  <2>2. ASSUME NEW f \in Frames(s \o t)
        PROVE  f \in Frames(s) \cup Frames(t)
    <3>1. PICK i \in 1..Len(s) + Len(t) : f = (s \o t)[i]
      BY <2>1 DEF Frames
    <3>2. i \in 1..Len(s) \/ i - Len(s) \in 1..Len(t)
      BY <2>1
    <3> QED BY <2>1, <3>1, <3>2 DEF Frames
  <2>3. ASSUME NEW i \in 1..Len(s)
        PROVE  s[i] \in Frames(s \o t)
    <3>1. i \in 1..Len(s) + Len(t) /\ (s \o t)[i] = s[i]
      BY <2>1
    <3> QED BY <2>1, <3>1 DEF Frames
  <2>4. ASSUME NEW i \in 1..Len(t)
        PROVE  t[i] \in Frames(s \o t)
    <3>1. /\ Len(s) + i \in 1..Len(s) + Len(t)
          /\ (s \o t)[Len(s) + i] = t[i]
      BY <2>1
    <3> QED BY <2>1, <3>1 DEF Frames
  <2> QED BY <2>2, <2>3, <2>4 DEF Frames
<1>4. ASSUME NEW s \in Seq(Frame), s # <<>>
      PROVE  Frames(s) = {Head(s)} \cup Frames(Tail(s))
  <2>1. /\ Len(s) \in Nat \ {0} /\ Len(Tail(s)) = Len(s) - 1 /\ Head(s) = s[1]
        /\ \A i \in 1..Len(Tail(s)) : Tail(s)[i] = s[i + 1]
    BY <1>4, HeadTailProperties, EmptySeq, LenProperties
  <2>2. ASSUME NEW i \in 1..Len(s)
        PROVE  s[i] \in {Head(s)} \cup Frames(Tail(s))
    <3>1. i = 1 \/ (i - 1 \in 1..Len(Tail(s)) /\ Tail(s)[i - 1] = s[i])
      BY <2>1
    <3> QED BY <2>1, <3>1 DEF Frames
  <2>3. ASSUME NEW i \in 1..Len(Tail(s))
        PROVE  Tail(s)[i] \in Frames(s)
    <3>1. i + 1 \in 1..Len(s) /\ Tail(s)[i] = s[i + 1]
      BY <2>1
    <3> QED BY <3>1 DEF Frames
  <2>4. Head(s) \in Frames(s)
    BY <2>1 DEF Frames
  <2> QED BY <2>2, <2>3, <2>4 DEF Frames
<1>5. Frames(<<>>) = {}
  BY DEF Frames
<1> QED BY <1>1, <1>2, <1>3, <1>4, <1>5

\* The stack's frames, in the terms of the other module.
LEMMA HasFrames ==
  ASSUME TypeOK
  PROVE  /\ \A L : Has(L) <=> ~NoneOf(L, stack)
         /\ \A f \in Active : f \in Frame
         /\ stack # <<>> => /\ Active = {Top} \cup Frames(Tail(stack))
                            /\ Top \in Active
         /\ stack = <<>> => Active = {}
<1>1. stack \in Seq(Frame)
  BY StackFacts
<1>2. \A f \in Active : f \in Frame
  BY <1>1, ElementOfSeq DEF Active, Frames
<1>3. \A L : Has(L) <=> ~NoneOf(L, stack)
  BY DEF Has, Active, Frames, NoneOf
<1> QED BY <1>1, <1>2, <1>3, FramesOf DEF Active, Top

\* What calls and returns do to the frames.
LEMMA FrameSteps ==
  ASSUME TypeOK
  PROVE  /\ \A fs \in Seq(Frame) : Call(fs) => Active' = Frames(fs) \cup Active
         /\ \A fs \in Seq(Frame) : stack # <<>> /\ Become(fs) =>
              Active' = Frames(fs) \cup Frames(Tail(stack))
         /\ stack # <<>> /\ Return => Active' = Frames(Tail(stack))
         /\ \A fs \in Seq(Frame) : stack' = fs => Active' = Frames(fs)
<1>1. stack \in Seq(Frame) /\ (stack # <<>> => Tail(stack) \in Seq(Frame))
  BY StackFacts
<1>2. ASSUME NEW fs \in Seq(Frame), Call(fs)
      PROVE  Active' = Frames(fs) \cup Active
  BY <1>1, <1>2, FramesOf DEF Active, Call
<1>3. ASSUME NEW fs \in Seq(Frame), stack # <<>>, Become(fs)
      PROVE  Active' = Frames(fs) \cup Frames(Tail(stack))
  BY <1>1, <1>3, FramesOf DEF Active, Become
<1>4. stack # <<>> /\ Return => Active' = Frames(Tail(stack))
  BY DEF Active, Return
<1>5. \A fs \in Seq(Frame) : stack' = fs => Active' = Frames(fs)
  BY DEF Active
<1> QED BY <1>2, <1>3, <1>4, <1>5

\* The order of the frames, when some are put on top or one is taken away.
LEMMA OverSteps ==
  ASSUME NEW A, NEW B
  PROVE  /\ \A fs, s \in Seq(Frame) :
              /\ NoOver(A, B, fs) /\ NoOver(A, B, s) /\ (NoneOf(A, fs) \/ NoneOf(B, s))
                   => NoOver(A, B, fs \o s)
              /\ NoneOf(A, fs) => NoOver(A, B, fs)
              /\ NoneOf(B, fs) => NoOver(A, B, fs)
         /\ \A s \in Seq(Frame) : s # <<>> /\ NoOver(A, B, s) =>
              /\ NoOver(A, B, Tail(s))
              /\ Head(s).op \in A => NoneOf(B, Tail(s))
<1>1. ASSUME NEW fs \in Seq(Frame), NEW s \in Seq(Frame), NoOver(A, B, fs), NoOver(A, B, s),
             NoneOf(A, fs) \/ NoneOf(B, s)
      PROVE  NoOver(A, B, fs \o s)
  <2> DEFINE t == fs \o s
             k == Len(fs)
  <2>1. /\ k \in Nat /\ Len(s) \in Nat /\ Len(t) = k + Len(s)
        /\ \A i \in 1..Len(t) : t[i] = IF i <= k THEN fs[i] ELSE s[i - k]
    BY ConcatProperties, LenProperties
  <2> SUFFICES ASSUME NEW i \in 1..Len(t), NEW j \in 1..Len(t), i < j,
                      t[i].op \in A, t[j].op \in B
               PROVE  FALSE
    BY DEF NoOver
  <2> HIDE DEF t, k
  <2>2. CASE j <= k
    <3>1. /\ i \in 1..k /\ j \in 1..k /\ t[i] = fs[i] /\ t[j] = fs[j]
      BY <2>1, <2>2
    <3> QED BY <1>1, <3>1 DEF NoOver, k
  <2>3. CASE i <= k /\ j > k
    <3>1. /\ i \in 1..k /\ j - k \in 1..Len(s) /\ t[i] = fs[i] /\ t[j] = s[j - k]
      BY <2>1, <2>3
    <3> QED BY <1>1, <3>1 DEF NoneOf, k
  <2>4. CASE i > k
    <3>1. /\ i - k \in 1..Len(s) /\ j - k \in 1..Len(s) /\ i - k < j - k
          /\ t[i] = s[i - k] /\ t[j] = s[j - k]
      BY <2>1, <2>4
    <3> QED BY <1>1, <3>1 DEF NoOver
  <2> QED BY <2>1, <2>2, <2>3, <2>4
<1>2. ASSUME NEW s \in Seq(Frame), s # <<>>, NoOver(A, B, s)
      PROVE  NoOver(A, B, Tail(s)) /\ (Head(s).op \in A => NoneOf(B, Tail(s)))
  <2>1. /\ Len(s) \in Nat \ {0} /\ Len(Tail(s)) = Len(s) - 1 /\ Head(s) = s[1]
        /\ \A i \in 1..Len(Tail(s)) : Tail(s)[i] = s[i + 1]
    BY <1>2, HeadTailProperties, EmptySeq, LenProperties
  <2>2. \A i \in 1..Len(Tail(s)) : i + 1 \in 1..Len(s) /\ 1 < i + 1 /\ 1 \in 1..Len(s)
    BY <2>1
  <2>3. NoOver(A, B, Tail(s))
    <3> SUFFICES ASSUME NEW i \in 1..Len(Tail(s)), NEW j \in 1..Len(Tail(s)), i < j,
                        Tail(s)[i].op \in A, Tail(s)[j].op \in B
                 PROVE  FALSE
      BY DEF NoOver
    <3>1. /\ i + 1 \in 1..Len(s) /\ j + 1 \in 1..Len(s) /\ i + 1 < j + 1
          /\ s[i + 1].op \in A /\ s[j + 1].op \in B
      BY <2>1, <2>2
    <3> QED BY <1>2, <3>1 DEF NoOver
  <2>4. Head(s).op \in A => NoneOf(B, Tail(s))
    BY <1>2, <2>1, <2>2 DEF NoOver, NoneOf
  <2> QED BY <2>3, <2>4
<1>3. \A fs \in Seq(Frame) : NoneOf(A, fs) \/ NoneOf(B, fs) => NoOver(A, B, fs)
  BY DEF NoneOf, NoOver
<1> QED BY <1>1, <1>2, <1>3

-----------------------------------------------------------------------------
(* Moves(A, T): the step puts frames of A on the stack, after it has taken *)
(* at most one frame, one of T, away from it.                              *)

Only(A) == {fs \in Seq(Frame) : \A i \in 1..Len(fs) : fs[i].op \in A}

Moves(A, T) ==
  \E fs \in Only(A) : \/ stack' = fs \o stack
                      \/ stack # <<>> /\ Top.op \in T /\ stack' = fs \o Tail(stack)

WakeOps == {"write?", "read?"}

LEMMA OnlyFacts ==
  ASSUME NEW A \in SUBSET Ops
  PROVE  /\ <<>> \in Only(A)
         /\ \A op \in A : <<F(op)>> \in Only(A)
         /\ \A op, op2 \in A : <<F(op), F(op2)>> \in Only(A)
         /\ \A op \in A, c \in Clients : <<FC(op, c)>> \in Only(A)
         /\ "pushed" \in A => \A c \in Clients, b \in Bufs :
                                <<[op |-> "pushed", c |-> c, b |-> b]>> \in Only(A)
         /\ WakeOps \subseteq A => Wakeup \in Only(A)
         /\ \A fs, gs \in Only(A) : fs \o gs \in Only(A)
         /\ \A fs \in Only(A) : fs \in Seq(Frame)
<1>1. \A op \in A : <<F(op)>> \in Only(A)
  BY FrameFacts DEF Only, F
<1>2. \A op, op2 \in A : <<F(op), F(op2)>> \in Only(A)
  BY FrameFacts DEF Only, F
<1>3. \A op \in A, c \in Clients : <<FC(op, c)>> \in Only(A)
  BY FrameFacts DEF Only, FC
<1>4. "pushed" \in A => \A c \in Clients, b \in Bufs :
                          <<[op |-> "pushed", c |-> c, b |-> b]>> \in Only(A)
  <2> SUFFICES ASSUME "pushed" \in A, NEW c \in Clients, NEW b \in Bufs
               PROVE  <<[op |-> "pushed", c |-> c, b |-> b]>> \in Only(A)
    OBVIOUS
  <2>1. <<[op |-> "pushed", c |-> c, b |-> b]>> \in Seq(Frame)
    BY FrameFacts
  <2> QED BY <2>1 DEF Only
<1>5. WakeOps \subseteq A => Wakeup \in Only(A)
  BY <1>2 DEF Wakeup, WakeOps
<1>6. <<>> \in Only(A)
  BY FrameFacts DEF Only
<1>7. ASSUME NEW fs \in Only(A), NEW gs \in Only(A)
      PROVE  fs \o gs \in Only(A)
  <2>1. /\ fs \in Seq(Frame) /\ gs \in Seq(Frame) /\ fs \o gs \in Seq(Frame)
        /\ Len(fs) \in Nat /\ Len(gs) \in Nat /\ Len(fs \o gs) = Len(fs) + Len(gs)
        /\ \A i \in 1..Len(fs) + Len(gs) :
             (fs \o gs)[i] = IF i <= Len(fs) THEN fs[i] ELSE gs[i - Len(fs)]
    BY ConcatProperties, LenProperties DEF Only
  <2>2. ASSUME NEW i \in 1..Len(fs) + Len(gs)
        PROVE  (fs \o gs)[i].op \in A
    <3>1. i \in 1..Len(fs) \/ i - Len(fs) \in 1..Len(gs)
      BY <2>1
    <3> QED BY <2>1, <3>1 DEF Only
  <2> QED BY <2>1, <2>2 DEF Only
<1>8. \A fs \in Only(A) : fs \in Seq(Frame)
  BY DEF Only
<1> QED BY <1>1, <1>2, <1>3, <1>4, <1>5, <1>6, <1>7, <1>8

LEMMA OnlyWider ==
  ASSUME NEW A, NEW B, A \subseteq B
  PROVE  Only(A) \subseteq Only(B)
BY DEF Only

\* Calls, turns and returns.
LEMMA MovesSteps ==
  ASSUME TypeOK, NEW A \in SUBSET Ops, NEW T
  PROVE  /\ stack' = stack => Moves(A, T)
         /\ \A fs \in Only(A) : Call(fs) => Moves(A, T)
         /\ stack # <<>> /\ Top.op \in T /\ Return => Moves(A, T)
         /\ \A fs \in Only(A) : stack # <<>> /\ Top.op \in T /\ Become(fs) => Moves(A, T)
<1>1. /\ <<>> \in Only(A) /\ <<>> \o stack = stack
      /\ stack # <<>> => <<>> \o Tail(stack) = Tail(stack)
  BY OnlyFacts, StackFacts, ConcatEmptySeq
<1>2. stack' = stack => Moves(A, T)
  BY <1>1 DEF Moves
<1>3. \A fs \in Only(A) : Call(fs) => Moves(A, T)
  BY DEF Moves, Call
<1>4. stack # <<>> /\ Top.op \in T /\ Return => Moves(A, T)
  BY <1>1 DEF Moves, Return
<1>5. \A fs \in Only(A) : stack # <<>> /\ Top.op \in T /\ Become(fs) => Moves(A, T)
  BY DEF Moves, Become
<1> QED BY <1>2, <1>3, <1>4, <1>5

\* What is run before `rest', a part of the stack under some new frames.
LEMMA MovesOver ==
  ASSUME TypeOK, NEW A \in SUBSET Ops, NEW T, NEW fs \in Only(A), NEW gs \in Only(A)
  PROVE  /\ stack' = fs \o stack => Moves(A, T)
         /\ stack # <<>> /\ Top.op \in T /\ stack' = fs \o Tail(stack) => Moves(A, T)
         /\ stack' = fs \o (gs \o stack) => Moves(A, T)
         /\ stack # <<>> /\ Top.op \in T /\ stack' = fs \o (gs \o Tail(stack)) => Moves(A, T)
<1>1. fs \in Seq(Frame) /\ gs \in Seq(Frame) /\ fs \o gs \in Only(A)
  BY OnlyFacts
<1>2. stack \in Seq(Frame) /\ (stack # <<>> => Tail(stack) \in Seq(Frame))
  BY StackFacts
<1>3. \A s \in Seq(Frame) : fs \o (gs \o s) = (fs \o gs) \o s
  BY <1>1, ConcatAssociative
<1> QED BY <1>1, <1>2, <1>3 DEF Moves

\* Dropping a reference, pushing an item and releasing a buffer before `rest'.
LEMMA UnrefOver ==
  ASSUME NEW A \in SUBSET Ops, WakeOps \subseteq A, NEW b, NEW rest, Unref(b, rest)
  PROVE  \E fs \in Only(A) : stack' = fs \o rest
BY OnlyFacts DEF Unref

LEMMA PushItemOver ==
  ASSUME NEW A \in SUBSET Ops, "flush" \in A, NEW c \in Clients, NEW item, NEW rest,
         PushItem(c, item, rest)
  PROVE  \E fs \in Only(A) : stack' = fs \o rest
<1>1. <<FC("flush", c)>> \in Only(A) /\ <<>> \in Only(A)
  BY OnlyFacts
<1> QED BY <1>1 DEF PushItem

LEMMA ReleaseOver ==
  ASSUME TypeOK, NEW A \in SUBSET Ops, "flush" \in A, NEW buf, NEW q,
         NEW rest \in Seq(Frame), Release(buf, q, rest)
  PROVE  \E fs \in Only(A) : stack' = fs \o rest
<1> DEFINE f == tokensFree[buf.c] + buf.price
<1>1. \/ buf.c \in Clients /\ PushItem(buf.c, TokensItem(f), rest)
      \/ stack' = rest
  <2>1. CASE buf.origin = "client" /\ FlowControl /\ f >= Interval
    BY <2>1 DEF Release, TypeOK, DeviceTypes
  <2>2. CASE ~(buf.origin = "client" /\ FlowControl /\ f >= Interval)
    BY <2>2 DEF Release
  <2> QED BY <2>1, <2>2
<1>2. <<>> \in Only(A) /\ <<>> \o rest = rest
  BY OnlyFacts, ConcatEmptySeq
<1> QED BY <1>1, <1>2, PushItemOver

-----------------------------------------------------------------------------
(* How the actions move.                                                   *)

ChannelOps == {"flush", "hangup"}
ReadingOps == {"read?", "read", "read0"}
PushingOps == {"push", "pushed", "shrink", "absorb"}
WritingOps == {"write?", "write", "wrote", "wrote0"}

LEMMA ChannelMoves ==
  ASSUME TypeOK, NEW c \in Clients, Channel(c) \/ Writable(c) \/ PeerCloses(c)
  PROVE  Moves(WakeOps \cup ChannelOps, ChannelOps)
<1> DEFINE A == WakeOps \cup ChannelOps
<1>0. A \in SUBSET Ops /\ WakeOps \subseteq A /\ "flush" \in A /\ "hangup" \in A
  BY DEF Ops, ChannelOps, WakeOps
<1> HIDE DEF A
<1>1. CASE FlushSend(c) \/ HangupItem(c)
  <2>1. stack' = stack \/ \E b : Unref(b, stack)
    BY <1>1 DEF FlushSend, HangupItem
  <2>2. CASE stack' = stack
    BY <1>0, <2>2, MovesSteps DEF A
  <2>3. CASE \E b : Unref(b, stack)
    BY <1>0, <2>3, UnrefOver DEF Moves, A
  <2> QED BY <2>1, <2>2, <2>3
<1>2. CASE FlushStop(c) \/ HangupEnd(c)
  <2>1. stack # <<>> /\ Top.op \in ChannelOps /\ Return
    BY <1>2 DEF FlushStop, HangupEnd, At, Top, ChannelOps
  <2> QED BY <1>0, <2>1, MovesSteps DEF A
<1>3. CASE FlushFail(c) \/ Writable(c) \/ PeerCloses(c)
  <2>1. \E op \in A : Call(<<FC(op, c)>>)
    BY <1>0, <1>3 DEF FlushFail, Writable, PeerCloses
  <2> QED BY <1>0, <2>1, OnlyFacts, MovesSteps DEF A
<1> QED BY <1>1, <1>2, <1>3 DEF Channel

LEMMA ReadingMoves ==
  ASSUME TypeOK, Reading
  PROVE  Moves(WakeOps \cup ReadingOps \cup {"flush"}, ReadingOps)
<1> DEFINE A == WakeOps \cup ReadingOps \cup {"flush"}
<1>0. A \in SUBSET Ops /\ WakeOps \subseteq A /\ {"flush", "read", "read0"} \subseteq A
  BY DEF Ops, ReadingOps, WakeOps
<1> HIDE DEF A
<1>1. CASE ReadRefused \/ ReadNested \/ ReadEnd
  <2>1. stack # <<>> /\ Top.op \in ReadingOps /\ Return
    BY <1>1 DEF ReadRefused, ReadNested, ReadEnd, ReturnWith, At, Top, ReadingOps
  <2> QED BY <1>0, <2>1, MovesSteps DEF A
<1>2. CASE ReadBegin \/ ReadAgain
  <2>1. stack # <<>> /\ Top.op \in ReadingOps /\ Become(<<F("read")>>)
    BY <1>2 DEF ReadBegin, ReadAgain, At, Top, ReadingOps
  <2> QED BY <1>0, <2>1, OnlyFacts, MovesSteps DEF A
<1>3. CASE ReadNothing
  <2>1. stack # <<>> /\ Top.op \in ReadingOps
    BY <1>3 DEF ReadNothing, At, Top, ReadingOps
  <2>2. \/ stack' = <<F("read0")>> \o Tail(stack)
        \/ stack' = Wakeup \o (<<F("read0")>> \o Tail(stack))
    BY <1>3 DEF ReadNothing, GuestWritesIn
  <2>3. Wakeup \in Only(A) /\ <<F("read0")>> \in Only(A)
    BY <1>0, OnlyFacts
  <2> QED BY <1>0, <2>1, <2>2, <2>3, MovesOver DEF A
<1>4. CASE ReadMsg \/ \E c \in Clients : SendOverflow(c) \/ SendLater(c)
  <2>1. stack' = stack
    BY <1>4 DEF ReadMsg, SendOverflow, SendLater
  <2> QED BY <1>0, <2>1, MovesSteps DEF A
<1>5. CASE ReadDiscard
  <2>1. Call(Wakeup)
    BY <1>5 DEF ReadDiscard
  <2> QED BY <1>0, <2>1, OnlyFacts, MovesSteps DEF A
<1>6. CASE SendDone
  <2>1. Unref(msg, stack)
    BY <1>6 DEF SendDone, DropMsg
  <2> QED BY <1>0, <2>1, UnrefOver DEF Moves, A
<1>7. CASE \E c \in Clients : SendNow(c)
  <2>1. PICK c \in Clients : PushItem(c, DataItem(msg), stack)
    BY <1>7 DEF SendNow, SendMsg
  <2> QED BY <1>0, <2>1, PushItemOver DEF Moves, A
<1> QED BY <1>1, <1>2, <1>3, <1>4, <1>5, <1>6, <1>7 DEF Reading

LEMMA PushingMoves ==
  ASSUME TypeOK, NEW c \in Clients,
         \/ Pushing(c) \/ WaitTimeout(c)
         \/ \E n \in 0..MaxSend : TokensSet(c, n) \/ TokensAdd(c, n)
  PROVE  Moves(WakeOps \cup PushingOps \cup {"flush"}, PushingOps)
<1> DEFINE A == WakeOps \cup PushingOps \cup {"flush"}
<1>0. /\ A \in SUBSET Ops /\ WakeOps \subseteq A
      /\ {"flush", "push", "pushed", "shrink", "absorb", "read?"} \subseteq A
  BY DEF Ops, PushingOps, WakeOps
<1> HIDE DEF A
<1>1. CASE PushOne(c)
  <2> DEFINE f == <<[op |-> "pushed", c |-> c, b |-> Head(sendQueue[c])]>>
  <2>1. PushItem(c, DataItem(Head(sendQueue[c])), f \o Tail(stack))
    BY <1>1 DEF PushOne, SendMsg
  <2>2. stack # <<>> /\ Top.op \in PushingOps
    BY <1>1 DEF PushOne, At, Top, PushingOps
  <2>3. Head(sendQueue[c]) \in Bufs
    BY <1>1, SeqFacts DEF PushOne, TypeOK, SendTypes
  <2>4. f \in Only(A)
    BY <1>0, <2>3, OnlyFacts
  <2> HIDE DEF f
  <2>5. \E fs \in Only(A) : stack' = fs \o (f \o Tail(stack))
    BY <1>0, <2>1, PushItemOver
  <2> QED BY <1>0, <2>2, <2>4, <2>5, MovesOver DEF A
<1>2. CASE PushUnref(c)
  <2>1. stack # <<>> /\ Top.op \in PushingOps
    BY <1>2 DEF PushUnref, At, Top, PushingOps
  <2>2. Unref(Top.b, <<FC("shrink", c)>> \o Tail(stack))
    BY <1>2 DEF PushUnref
  <2>3. \E fs \in Only(A) : stack' = fs \o (<<FC("shrink", c)>> \o Tail(stack))
    BY <1>0, <2>2, UnrefOver
  <2>4. <<FC("shrink", c)>> \in Only(A)
    BY <1>0, OnlyFacts
  <2> QED BY <1>0, <2>1, <2>3, <2>4, MovesOver DEF A
<1>3. CASE PushShrink(c)
  <2>1. stack # <<>> /\ Top.op \in PushingOps /\ Become(<<FC("push", c)>>)
    BY <1>3 DEF PushShrink, At, Top, PushingOps
  <2> QED BY <1>0, <2>1, OnlyFacts, MovesSteps DEF A
<1>4. CASE PushEnd(c)
  <2>1. stack # <<>> /\ Top.op \in PushingOps /\ Return
    BY <1>4 DEF PushEnd, At, Top, PushingOps
  <2> QED BY <1>0, <2>1, MovesSteps DEF A
<1>5. CASE AbsorbEnd(c)
  <2>1. stack # <<>> /\ Top.op \in PushingOps /\ (Return \/ Become(<<F("read?")>>))
    BY <1>5 DEF AbsorbEnd, At, Top, PushingOps
  <2> QED BY <1>0, <2>1, OnlyFacts, MovesSteps DEF A
<1>6. CASE WaitTimeout(c)
  <2>1. stack' = stack
    BY <1>6 DEF WaitTimeout
  <2> QED BY <1>0, <2>1, MovesSteps DEF A
<1>7. CASE \E n \in 0..MaxSend : TokensSet(c, n) \/ TokensAdd(c, n)
  <2> DEFINE fs == IF queueSize[c] > 0 THEN <<FC("push", c)>> ELSE <<>>
  <2>1. Call(fs \o <<FC("absorb", c)>>)
    BY <1>7 DEF TokensSet, TokensAdd, Absorb
  <2>2. fs \in Only(A) /\ <<FC("absorb", c)>> \in Only(A)
    BY <1>0, OnlyFacts
  <2> HIDE DEF fs
  <2>3. fs \o <<FC("absorb", c)>> \in Only(A)
    BY <1>0, <2>2, OnlyFacts
  <2> QED BY <1>0, <2>1, <2>3, MovesSteps DEF A
<1> QED BY <1>1, <1>2, <1>3, <1>4, <1>5, <1>6, <1>7 DEF Pushing

LEMMA WritingMoves ==
  ASSUME ConstantsOK, TypeOK, Writing
  PROVE  Moves(WakeOps \cup WritingOps \cup {"flush"}, WritingOps)
<1> DEFINE A == WakeOps \cup WritingOps \cup {"flush"}
<1> USE DEF WriteAll, WritePart, WriteNone
<1>0. A \in SUBSET Ops /\ WakeOps \subseteq A /\ WritingOps \subseteq A /\ "flush" \in A
  BY DEF Ops, WritingOps, WakeOps
<1> HIDE DEF A
<1>1. CASE WriteRefused \/ WriteNested \/ WriteEnd
  <2>1. stack # <<>> /\ Top.op \in WritingOps /\ Return
    BY <1>1 DEF WriteRefused, WriteNested, WriteEnd, ReturnWith, At, Top, WritingOps
  <2> QED BY <1>0, <2>1, MovesSteps DEF A
<1>2. CASE WriteBegin \/ WriteAgain
  <2>1. stack # <<>> /\ Top.op \in WritingOps /\ Become(<<F("write")>>)
    BY <1>2 DEF WriteBegin, WriteAgain, At, Top, WritingOps
  <2>2. <<F("write")>> \in Only(A)
    BY <1>0, OnlyFacts DEF WritingOps
  <2> QED BY <1>0, <2>1, <2>2, MovesSteps DEF A
<1>3. CASE WriteAll \/ WritePart \/ WriteNone
  <2>1. PICK op \in WritingOps : WriteSome(op)
    BY <1>3 DEF WritingOps
  <2>2. stack # <<>> /\ Top.op \in WritingOps
    BY <2>1 DEF WriteSome, At, Top, WritingOps
  <2>3. PICK nested \in {<<>>, Wakeup} : Become(nested \o <<F(op)>>)
    BY <2>1 DEF WriteSome
  <2>4. nested \in Only(A) /\ <<F(op)>> \in Only(A)
    BY <1>0, OnlyFacts
  <2>5. nested \o <<F(op)>> \in Only(A)
    BY <1>0, <2>4, OnlyFacts
  <2> QED BY <1>0, <2>2, <2>3, <2>5, MovesSteps DEF A
<1>4. CASE WriteRelease
  <2>1. stack # <<>> /\ Top.op \in WritingOps
    BY <1>4 DEF WriteRelease, At, Top, WritingOps
  <2>2. <<F("write")>> \in Only(A)
    BY <1>0, OnlyFacts DEF WritingOps
  <2>3. <<F("write")>> \o Tail(stack) \in Seq(Frame)
    BY <1>0, <2>1, <2>2, OnlyFacts, StackFacts, FrameFacts
  <2>4. Release(cur, writeQueue, <<F("write")>> \o Tail(stack))
    BY <1>4 DEF WriteRelease
  <2>5. \E fs \in Only(A) : stack' = fs \o (<<F("write")>> \o Tail(stack))
    BY <1>0, <2>3, <2>4, ReleaseOver
  <2> QED BY <1>0, <2>1, <2>2, <2>5, MovesOver DEF A
<1> QED BY <1>1, <1>2, <1>3, <1>4 DEF Writing

\* Events of the write direction, and what the guest writes, put a call on the
\* empty stack; so does starting the device.
LEMMA CallingMoves ==
  ASSUME ConstantsOK, TypeOK,
         \/ WriteRetry \/ MouseEvent \/ GuestWrites \/ Migrated \/ Start \/ StartLoop
         \/ \E c \in Clients : \/ BufGet(c) \/ BufStale(c) \/ BufAdd(c) \/ BufGiveBack(c)
                               \/ Connect(c) \/ RestoreLate(c)
                               \/ \E n \in 0..MaxSend : ClientAdd(c, n)
  PROVE  Moves(WakeOps \cup {"flush", "start", "startW", "startR"}, {"start", "startW", "startR"})
<1> DEFINE A == WakeOps \cup {"flush", "start", "startW", "startR"}
<1>0. /\ A \in SUBSET Ops /\ WakeOps \subseteq A
      /\ {"flush", "start", "startW", "startR", "write?", "read?"} \subseteq A
  BY DEF Ops, WakeOps
<1> HIDE DEF A
<1>1. CASE \/ WriteRetry \/ MouseEvent \/ GuestWrites \/ Migrated \/ Start
           \/ \E c \in Clients : \/ BufGet(c) \/ BufStale(c) \/ BufAdd(c)
                                 \/ Connect(c) \/ RestoreLate(c)
                                 \/ \E n \in 0..MaxSend : ClientAdd(c, n)
  <2>1. \/ stack' = stack \/ Call(<<F("write?")>>) \/ Call(Wakeup) \/ Call(<<F("start")>>)
    BY <1>1 DEF WriteRetry, MouseEvent, GuestWrites, Migrated, Start, Restore, BufGet,
                BufStale, BufAdd, Connect, RestoreLate, ClientAdd
  <2>2. {<<F("write?")>>, Wakeup, <<F("start")>>} \subseteq Only(A)
    BY <1>0, OnlyFacts
  <2> QED BY <1>0, <2>1, <2>2, MovesSteps DEF A
<1>2. CASE \E c \in Clients : BufGiveBack(c)
  <2>1. PICK c \in Clients : BufGiveBack(c)
    BY <1>2
  <2>2. stack = <<>> /\ (stack' = stack \/ Release(ClientBuf(c, 1), writeQueue, <<>>))
    BY <2>1 DEF BufGiveBack, Idle
  <2>3. <<>> \in Seq(Frame)
    BY FrameFacts
  <2>4. stack' = stack \/ \E fs \in Only(A) : stack' = fs \o stack
    BY <1>0, <2>2, <2>3, ReleaseOver
  <2> QED BY <1>0, <2>4, MovesSteps DEF Moves, A
<1>3. CASE StartLoop
  <2>1. /\ stack # <<>> /\ Top.op \in {"start", "startW", "startR"}
        /\ \/ Return \/ Become(<<F("start")>>) \/ Become(<<F("write?"), F("startW")>>)
           \/ Become(<<F("read?"), F("startR")>>)
    BY <1>3 DEF StartLoop, At, Top
  <2>2. {<<F("start")>>, <<F("write?"), F("startW")>>, <<F("read?"), F("startR")>>}
          \subseteq Only(A)
    BY <1>0, OnlyFacts
  <2> QED BY <1>0, <2>1, <2>2, MovesSteps DEF A
<1> QED BY <1>1, <1>2, <1>3
LEMMA MovesWider ==
  ASSUME NEW A, NEW T, NEW B, NEW U, A \subseteq B, T \subseteq U, Moves(A, T)
  PROVE  Moves(B, U)
BY OnlyWider DEF Moves

\* The frames that are new and those that are no more.
LEMMA MovesFrames ==
  ASSUME TypeOK, NEW A, NEW T, Moves(A, T)
  PROVE  /\ \A f \in Active : f.op \notin T => f \in Active'
         /\ \A f \in Active' : f.op \notin A => f \in Active
<1>1. stack \in Seq(Frame) /\ (stack # <<>> => Tail(stack) \in Seq(Frame))
  BY StackFacts
<1>2. PICK fs \in Only(A) : \/ stack' = fs \o stack
                            \/ stack # <<>> /\ Top.op \in T /\ stack' = fs \o Tail(stack)
  BY DEF Moves
<1>3. fs \in Seq(Frame) /\ \A f \in Frames(fs) : f.op \in A
  BY DEF Only, Frames
<1>4. CASE stack' = fs \o stack
  <2>1. Active' = Frames(fs) \cup Active
    BY <1>1, <1>3, <1>4, FramesOf DEF Active
  <2> QED BY <1>3, <2>1
<1>5. CASE stack # <<>> /\ Top.op \in T /\ stack' = fs \o Tail(stack)
  <2>1. Active' = Frames(fs) \cup Frames(Tail(stack))
    BY <1>1, <1>3, <1>5, FramesOf DEF Active
  <2>2. Active = {Top} \cup Frames(Tail(stack))
    BY <1>1, <1>5, FramesOf DEF Active, Top
  <2> QED BY <1>3, <1>5, <2>1, <2>2
<1> QED BY <1>2, <1>4, <1>5

\* A client's removal is over before its end is reported, and before the device ends.
Orderly(s) ==
  /\ NoOver({"removed", "gone", "destroy"}, {"free"}, s)
  /\ NoOver({"gone"}, {"removed"}, s)

LEMMA MovesOrderly ==
  ASSUME TypeOK, NEW A, NEW T, Moves(A, T), A \cap {"removed", "gone", "destroy"} = {},
         Orderly(stack)
  PROVE  Orderly(stack')
<1>1. stack \in Seq(Frame) /\ (stack # <<>> => Tail(stack) \in Seq(Frame))
  BY StackFacts
<1>2. PICK fs \in Only(A) : stack' = fs \o stack \/ (stack # <<>> /\ stack' = fs \o Tail(stack))
  BY DEF Moves
<1>3. /\ fs \in Seq(Frame)
      /\ NoneOf({"removed", "gone", "destroy"}, fs) /\ NoneOf({"gone"}, fs)
  BY DEF Only, NoneOf
<1>4. stack # <<>> => Orderly(Tail(stack))
  BY <1>1, OverSteps DEF Orderly
<1>5. \A s \in Seq(Frame) : Orderly(s) => Orderly(fs \o s)
  BY <1>3, OverSteps DEF Orderly
<1> QED BY <1>1, <1>2, <1>4, <1>5
-----------------------------------------------------------------------------
(* The invariant.                                                          *)

\* The device exists while it has clients or an instance; without support for
\* telling clients their tokens again it outlives its instance.  Migrating
\* clients are alone, and an attached client has a channel.
DeviceInv ==
  /\ exists \/ clients = {}
  /\ attached => exists
  /\ ConnectedTokens /\ exists => attached
  /\ \A c \in Clients : conn[c] \in {"mig", "late"} => ConnectedTokens /\ ~MultiClient
  /\ ~MultiClient => \A c, d \in Clients : conn[c] # "none" /\ conn[d] # "none" => c = d
  /\ \A c \in clients : conn[c] # "none"

\* A client whose end will be reported is removed before, and a removal is run by
\* spice_char_device_client_remove or by the end of the device.  While the device
\* is being reset it is stopped, and not being written to.
RemovalInv ==
  /\ Orderly(stack)
  /\ \A f \in Active : f.op = "gone" /\ f.c \in clients => FC("free", f.c) \in Active
  /\ Has({"free"}) => Has({"removed", "destroy"})
  /\ Has({"reset", "reset2"}) => ~running /\ ~waitMig /\ ~ConnectedTokens /\ writing = 0

\* While the device waits for migration data nothing is written to it but what its
\* one client, which must not be waiting itself, has sent; and when that client is
\* removed or reported to be gone, the wait is about to be ended.
MigrationInv ==
  /\ writing # 0 => ~waitMig
  /\ exists /\ waitMig =>
       /\ ConnectedTokens /\ ~MultiClient /\ cur = NoBuf
       /\ \A i \in 1..Len(writeQueue) : writeQueue[i].origin = "client"
       /\ clients # {} \/ Has({"removed", "destroy"})
       /\ Has({"removed"}) => \A c \in clients : FC("free", c) \in Active
       /\ Has({"gone"}) => Has({"removed"})
       /\ \A c \in clients : conn[c] = "mig" => writeQueue = <<>>

\* Between two runs of the write loop, there is nothing to write or somebody will
\* come back to it.
Settled ==
  /\ cur = NoBuf => writeQueue = <<>>
  /\ cur # NoBuf => retry \/ NotifyWritable

WriteFrames == WritingOps \cup {"start"}

ScheduleInv ==
  /\ Usable /\ ~Has(WriteFrames) => Settled
  /\ Has({"wrote0"}) => cur # NoBuf

WritingInv == DeviceInv /\ RemovalInv /\ MigrationInv /\ ScheduleInv /\ BuffersHaveOwners

-----------------------------------------------------------------------------
(* Most steps leave alone what the first three are about, and the stack's  *)
(* frames of removals and resets.                                          *)

KeyOps == {"free", "removed", "gone", "destroy", "reset", "reset2"}

Calm ==
  /\ Moves(Ops \ KeyOps, Ops \ KeyOps)
  /\ UNCHANGED <<exists, attached, running, waitMig, clients, cur, writeQueue>>
  /\ \A c \in Clients : \/ conn'[c] = conn[c]
                        \/ conn[c] # "none" /\ conn'[c] \in {"open", "shut", "closed"}
  /\ writing' # 0 => writing # 0 \/ Usable

LEMMA CalmFrames ==
  ASSUME TypeOK, Moves(Ops \ KeyOps, Ops \ KeyOps)
  PROVE  /\ \A f : f.op \in KeyOps => (f \in Active' <=> f \in Active)
         /\ \A L \in SUBSET KeyOps : Has(L)' <=> Has(L)
         /\ Orderly(stack) => Orderly(stack')
<1>1. \A f : f.op \in KeyOps => (f \in Active' <=> f \in Active)
  BY MovesFrames
<1>2. \A L \in SUBSET KeyOps : Has(L)' <=> Has(L)
  BY <1>1 DEF Has
<1>3. Orderly(stack) => Orderly(stack')
  BY MovesOrderly DEF KeyOps
<1> QED BY <1>1, <1>2, <1>3

LEMMA CalmDevice ==
  ASSUME TypeOK, DeviceInv, Calm
  PROVE  DeviceInv'
<1>1. \A c \in Clients : /\ conn'[c] # "none" => conn[c] # "none"
                         /\ conn[c] # "none" => conn'[c] # "none"
                         /\ conn'[c] \in {"mig", "late"} => conn'[c] = conn[c]
  BY DEF Calm
<1>2. clients \subseteq Clients
  BY DEF TypeOK, DeviceTypes
<1> QED BY <1>1, <1>2 DEF DeviceInv, Calm

LEMMA CalmRemoval ==
  ASSUME TypeOK, RemovalInv, Calm
  PROVE  RemovalInv'
<1>1. /\ \A f : f.op \in KeyOps => (f \in Active' <=> f \in Active)
      /\ \A L \in SUBSET KeyOps : Has(L)' <=> Has(L)
      /\ Orderly(stack')
  BY CalmFrames DEF Calm, RemovalInv
<1>2. \A c : "gone" \in KeyOps /\ FC("free", c).op \in KeyOps
  BY DEF FC, KeyOps
<1>3. {{"free"}, {"removed", "destroy"}, {"reset", "reset2"}} \subseteq SUBSET KeyOps
  BY DEF KeyOps
<1>4. \A f \in Active' : f.op = "gone" /\ f.c \in clients' => FC("free", f.c) \in Active'
  BY <1>1, <1>2 DEF RemovalInv, Calm
<1>5. Has({"free"})' => Has({"removed", "destroy"})'
  BY <1>1, <1>3 DEF RemovalInv
<1>6. Has({"reset", "reset2"})' =>
        ~running' /\ ~waitMig' /\ ~ConnectedTokens /\ writing' = 0
  BY <1>1, <1>3 DEF RemovalInv, Calm, Usable
<1> QED BY <1>1, <1>4, <1>5, <1>6 DEF RemovalInv

LEMMA CalmMigration ==
  ASSUME TypeOK, MigrationInv, Calm
  PROVE  MigrationInv'
<1>1. /\ \A f : f.op \in KeyOps => (f \in Active' <=> f \in Active)
      /\ \A L \in SUBSET KeyOps : Has(L)' <=> Has(L)
  BY CalmFrames DEF Calm
<1>2. \A c : FC("free", c).op \in KeyOps
  BY DEF FC, KeyOps
<1>3. {{"removed"}, {"gone"}, {"removed", "destroy"}} \subseteq SUBSET KeyOps
  BY DEF KeyOps
<1>4. writing' # 0 => ~waitMig'
  BY DEF MigrationInv, Calm, Usable
<1>5. clients \subseteq Clients
  BY DEF TypeOK, DeviceTypes
<1>6. ASSUME exists', waitMig'
      PROVE  /\ ConnectedTokens /\ ~MultiClient /\ cur' = NoBuf
             /\ \A i \in 1..Len(writeQueue') : writeQueue'[i].origin = "client"
             /\ clients' # {} \/ Has({"removed", "destroy"})'
             /\ Has({"removed"})' => \A c \in clients' : FC("free", c) \in Active'
             /\ Has({"gone"})' => Has({"removed"})'
             /\ \A c \in clients' : conn'[c] = "mig" => writeQueue' = <<>>
  <2>1. exists /\ waitMig
    BY <1>6 DEF Calm
  <2>2. /\ ConnectedTokens /\ ~MultiClient /\ cur' = NoBuf
        /\ \A i \in 1..Len(writeQueue') : writeQueue'[i].origin = "client"
    BY <2>1 DEF MigrationInv, Calm
  <2>3. clients' # {} \/ Has({"removed", "destroy"})'
    BY <1>1, <1>3, <2>1 DEF MigrationInv, Calm
  <2>4. Has({"removed"})' => \A c \in clients' : FC("free", c) \in Active'
    BY <1>1, <1>2, <1>3, <2>1 DEF MigrationInv, Calm
  <2>5. Has({"gone"})' => Has({"removed"})'
    BY <1>1, <1>3, <2>1 DEF MigrationInv, Calm
  <2>6. \A c \in clients' : conn'[c] = "mig" => writeQueue' = <<>>
    BY <1>5, <2>1 DEF MigrationInv, Calm
  <2> QED BY <2>2, <2>3, <2>4, <2>5, <2>6
<1> QED BY <1>4, <1>6 DEF MigrationInv

LEMMA CalmKeeps ==
  ASSUME TypeOK, DeviceInv, RemovalInv, MigrationInv, BuffersHaveOwners, Calm
  PROVE  DeviceInv' /\ RemovalInv' /\ MigrationInv' /\ BuffersHaveOwners'
<1>1. BuffersHaveOwners'
  BY DEF BuffersHaveOwners, Calm
<1> QED BY <1>1, CalmDevice, CalmRemoval, CalmMigration

\* Most of these do not touch the write loop either.
Lazy ==
  /\ Moves(Ops \ {"wrote0"}, Ops \ WriteFrames)
  /\ UNCHANGED <<attached, running, waitMig, cur, writeQueue, retry>>

LEMMA LazyKeeps ==
  ASSUME TypeOK, ScheduleInv, Lazy
  PROVE  ScheduleInv'
<1>1. Has(WriteFrames) => Has(WriteFrames)'
  BY MovesFrames, HasFrames DEF Has, Lazy
<1>2. Has({"wrote0"})' => Has({"wrote0"})
  BY MovesFrames DEF Has, Lazy
<1> QED BY <1>1, <1>2 DEF ScheduleInv, Lazy, Usable, Settled
\* What a move of the reading side is.
LEMMA CalmMoves ==
  /\ \A A, T \in SUBSET (Ops \ KeyOps) : Moves(A, T) => Moves(Ops \ KeyOps, Ops \ KeyOps)
  /\ \A A \in SUBSET (Ops \ {"wrote0"}), T \in SUBSET (Ops \ WriteFrames) :
        Moves(A, T) => Moves(Ops \ {"wrote0"}, Ops \ WriteFrames)
BY MovesWider

LEMMA ConnSteps ==
  ASSUME TypeOK, NEW c \in Clients,
         \/ conn' = conn
         \/ Linked(c) /\ \E x \in {"open", "closed"} : conn' = [conn EXCEPT ![c] = x]
         \/ RemoveClient(c)
  PROVE  \A d \in Clients : \/ conn'[d] = conn[d]
                            \/ conn[d] # "none" /\ conn'[d] \in {"open", "shut", "closed"}
BY DEF TypeOK, ChanTypes, Linked, RemoveClient

LEMMA ChannelCalm ==
  ASSUME TypeOK, NEW c \in Clients, Channel(c) \/ Writable(c) \/ PeerCloses(c)
  PROVE  Calm /\ Lazy
<1>1. /\ WakeOps \cup ChannelOps \in SUBSET (Ops \ KeyOps)
      /\ WakeOps \cup ChannelOps \in SUBSET (Ops \ {"wrote0"})
      /\ ChannelOps \in SUBSET (Ops \ KeyOps) /\ ChannelOps \in SUBSET (Ops \ WriteFrames)
  BY DEF Ops, KeyOps, WakeOps, ChannelOps, WriteFrames, WritingOps
<1>2. /\ Moves(Ops \ KeyOps, Ops \ KeyOps)
      /\ Moves(Ops \ {"wrote0"}, Ops \ WriteFrames)
  BY <1>1, ChannelMoves, CalmMoves
<1>3. /\ UNCHANGED <<deviceVars, writeVars, clients, writing>>
      /\ \/ conn' = conn
         \/ Linked(c) /\ \E x \in {"open", "closed"} : conn' = [conn EXCEPT ![c] = x]
  BY DEF Channel, FlushSend, FlushStop, FlushFail, HangupItem, HangupEnd, Writable, PeerCloses,
         chanVars, writeLocals
<1>4. \A d \in Clients : \/ conn'[d] = conn[d]
                         \/ conn[d] # "none" /\ conn'[d] \in {"open", "shut", "closed"}
  BY <1>3, ConnSteps
<1> QED BY <1>2, <1>3, <1>4 DEF Calm, Lazy, deviceVars, writeVars

LEMMA ReadingCalm ==
  ASSUME TypeOK, Reading
  PROVE  Calm /\ Lazy
<1> DEFINE A == WakeOps \cup ReadingOps \cup {"flush"}
<1>1. /\ A \in SUBSET (Ops \ KeyOps) /\ A \in SUBSET (Ops \ {"wrote0"})
      /\ ReadingOps \in SUBSET (Ops \ KeyOps) /\ ReadingOps \in SUBSET (Ops \ WriteFrames)
  BY DEF Ops, KeyOps, WakeOps, ReadingOps, WriteFrames, WritingOps
<1>2. Moves(A, ReadingOps)
  BY ReadingMoves
<1>3. /\ Moves(Ops \ KeyOps, Ops \ KeyOps)
      /\ Moves(Ops \ {"wrote0"}, Ops \ WriteFrames)
  BY <1>1, <1>2, CalmMoves
<1>4. /\ UNCHANGED <<exists, attached, running, waitMig, writeVars, clients, writing>>
      /\ conn' = conn \/ \E c \in Clients : RemoveClient(c)
  <2>1. CASE ReadRefused \/ ReadNested \/ ReadBegin \/ ReadMsg
    BY <2>1 DEF ReadRefused, ReadNested, ReadBegin, ReadMsg, chanVars, writeLocals, deviceVars
  <2>2. CASE ReadDiscard \/ ReadNothing \/ ReadAgain \/ ReadEnd \/ SendDone
    BY <2>2 DEF ReadDiscard, ReadNothing, ReadAgain, ReadEnd, SendDone, DropMsg, chanVars,
                writeLocals, deviceVars
  <2>3. CASE \E c \in Clients : SendNow(c) \/ SendOverflow(c) \/ SendLater(c)
    BY <2>3 DEF SendNow, SendOverflow, SendLater, chanVars, writeLocals, deviceVars
  <2> QED BY <2>1, <2>2, <2>3 DEF Reading
<1>5. \A d \in Clients : \/ conn'[d] = conn[d]
                         \/ conn[d] # "none" /\ conn'[d] \in {"open", "shut", "closed"}
  BY <1>4, ConnSteps
<1> QED BY <1>3, <1>4, <1>5 DEF Calm, Lazy, writeVars

LEMMA PushingCalm ==
  ASSUME TypeOK, NEW c \in Clients,
         \/ Pushing(c) \/ WaitTimeout(c)
         \/ \E n \in 0..MaxSend : TokensSet(c, n) \/ TokensAdd(c, n)
  PROVE  Calm /\ Lazy
<1> DEFINE A == WakeOps \cup PushingOps \cup {"flush"}
<1>1. /\ A \in SUBSET (Ops \ KeyOps) /\ A \in SUBSET (Ops \ {"wrote0"})
      /\ PushingOps \in SUBSET (Ops \ KeyOps) /\ PushingOps \in SUBSET (Ops \ WriteFrames)
  BY DEF Ops, KeyOps, WakeOps, PushingOps, WriteFrames, WritingOps
<1>2. Moves(A, PushingOps)
  BY PushingMoves
<1>3. /\ Moves(Ops \ KeyOps, Ops \ KeyOps)
      /\ Moves(Ops \ {"wrote0"}, Ops \ WriteFrames)
  BY <1>1, <1>2, CalmMoves
<1>4. /\ UNCHANGED <<deviceVars, writeVars, clients, writing>>
      /\ conn' = conn \/ RemoveClient(c)
  <2>1. CASE Pushing(c)
    BY <2>1 DEF Pushing, PushOne, PushUnref, PushShrink, PushEnd, AbsorbEnd, chanVars,
                writeLocals
  <2>2. CASE \/ WaitTimeout(c)
             \/ \E n \in 0..MaxSend : TokensSet(c, n) \/ TokensAdd(c, n)
    BY <2>2 DEF WaitTimeout, TokensSet, TokensAdd, Absorb, chanVars, writeLocals
  <2> QED BY <2>1, <2>2
<1>5. \A d \in Clients : \/ conn'[d] = conn[d]
                         \/ conn[d] # "none" /\ conn'[d] \in {"open", "shut", "closed"}
  BY <1>4, ConnSteps
<1> QED BY <1>3, <1>4, <1>5 DEF Calm, Lazy, deviceVars, writeVars

\* A buffer that is not the server's goes without a pending mouse event.
LEMMA ReleasePlain ==
  ASSUME NEW buf, NEW q, NEW rest, Release(buf, q, rest), buf.origin # "server"
  PROVE  writeQueue' = q /\ writing' = writing /\ selfTokens' = selfTokens
BY DEF Release, MouseAgain

LEMMA EventsCalm ==
  ASSUME ConstantsOK, TypeOK,
         \/ GuestWrites
         \/ \E c \in Clients : BufGet(c) \/ BufStale(c) \/ BufGiveBack(c) \/ RestoreLate(c)
  PROVE  Calm /\ Lazy
<1> DEFINE A == WakeOps \cup {"flush", "start", "startW", "startR"}
           T == {"start", "startW", "startR"}
<1>1. A \in SUBSET (Ops \ KeyOps) /\ T \in SUBSET (Ops \ KeyOps) /\ A \in SUBSET (Ops \ {"wrote0"})
  BY DEF Ops, KeyOps, WakeOps
<1>2. Moves(A, T)
  BY CallingMoves
<1>3. Moves(Ops \ KeyOps, Ops \ KeyOps)
  BY <1>1, <1>2, CalmMoves
<1>4. Moves(A, {})
  <2>1. stack = <<>>
    BY DEF GuestWrites, BufGet, BufStale, BufGiveBack, RestoreLate, Idle
  <2> QED BY <1>2, <2>1 DEF Moves
<1>5. Moves(Ops \ {"wrote0"}, Ops \ WriteFrames)
  BY <1>1, <1>4, MovesWider
<1>6. /\ UNCHANGED <<deviceVars, writeQueue, cur, retry, clients, writing>>
      /\ \/ conn' = conn
         \/ \E c \in Clients : Linked(c) /\ conn' = [conn EXCEPT ![c] = "open"]
  <2>1. CASE GuestWrites
    BY <2>1 DEF GuestWrites, chanVars, writeLocals, writeVars
  <2>2. CASE \E c \in Clients : BufGet(c) \/ BufStale(c)
    BY <2>2 DEF BufGet, BufStale, writeLocals, writeVars
  <2>3. CASE \E c \in Clients : RestoreLate(c)
    BY <2>3 DEF RestoreLate, writeLocals, writeVars, Linked
  <2>4. CASE \E c \in Clients : BufGiveBack(c)
    <3>1. PICK c \in Clients : BufGiveBack(c)
      BY <2>4
    <3>2. ClientBuf(c, 1).origin # "server"
      BY DEF ClientBuf
    <3>3. UNCHANGED <<writeQueue, writing>>
      BY <3>1, <3>2, ReleasePlain DEF BufGiveBack
    <3> QED BY <3>1, <3>3 DEF BufGiveBack
  <2> QED BY <2>1, <2>2, <2>3, <2>4
<1>7. \A d \in Clients : \/ conn'[d] = conn[d]
                         \/ conn[d] # "none" /\ conn'[d] \in {"open", "shut", "closed"}
  BY <1>6, ConnSteps
<1> QED BY <1>3, <1>5, <1>6, <1>7 DEF Calm, Lazy, deviceVars

LEMMA FreeQueuedCalm ==
  ASSUME TypeOK, NEW c \in Clients, FreeQueued(c)
  PROVE  Calm /\ Lazy
<1>1. WakeOps \in SUBSET Ops /\ WakeOps \subseteq Ops \ KeyOps /\ WakeOps \subseteq Ops \ {"wrote0"}
  BY DEF Ops, KeyOps, WakeOps
<1>2. Unref(Head(sendQueue[c]), stack)
  BY DEF FreeQueued
<1>3. Moves(WakeOps, {})
  BY <1>1, <1>2, UnrefOver DEF Moves
<1>4. /\ Moves(Ops \ KeyOps, Ops \ KeyOps)
      /\ Moves(Ops \ {"wrote0"}, Ops \ WriteFrames)
  BY <1>1, <1>3, MovesWider
<1> QED BY <1>4 DEF FreeQueued, Calm, Lazy, deviceVars, writeVars, chanVars, writeLocals

\* The write loop's own steps that take nothing from the queue, and what calls it.
LEMMA TurnsCalm ==
  ASSUME ConstantsOK, TypeOK,
         \/ WriteRefused \/ WriteNested \/ WriteBegin \/ WriteAgain \/ WriteEnd
         \/ WriteRetry \/ StartLoop
  PROVE  Calm
<1> DEFINE A == WakeOps \cup {"flush", "start", "startW", "startR"}
           T == {"start", "startW", "startR"}
           B == WakeOps \cup WritingOps \cup {"flush"}
<1>1. {A, T, B, WritingOps} \subseteq SUBSET (Ops \ KeyOps)
  BY DEF Ops, KeyOps, WakeOps, WritingOps
<1>2. Moves(A, T) \/ Moves(B, WritingOps)
  BY CallingMoves, WritingMoves DEF Writing
<1>3. Moves(Ops \ KeyOps, Ops \ KeyOps)
  BY <1>1, <1>2, CalmMoves
<1>4. /\ UNCHANGED <<exists, attached, running, waitMig, clients, cur, writeQueue, conn>>
  BY DEF WriteRefused, WriteNested, WriteBegin, WriteAgain, WriteEnd, WriteRetry, StartLoop,
         deviceVars, writeVars, chanVars
<1>5. writing' # 0 => writing # 0 \/ Usable
  <2>1. CASE WriteRefused \/ WriteRetry \/ StartLoop
    BY <2>1 DEF WriteRefused, WriteRetry, StartLoop, writeLocals
  <2>2. CASE WriteNested \/ WriteBegin
    BY <2>2 DEF WriteNested, WriteBegin
  <2>3. CASE WriteAgain \/ WriteEnd
    BY <2>3 DEF WriteAgain, WriteEnd
  <2> QED BY <2>1, <2>2, <2>3
<1> QED BY <1>3, <1>4, <1>5 DEF Calm

LEMMA TurnsSchedule ==
  ASSUME ConstantsOK, TypeOK, LoopInv, ScheduleInv,
         \/ WriteRefused \/ WriteNested \/ WriteBegin \/ WriteAgain \/ WriteEnd
         \/ WriteRetry \/ StartLoop
  PROVE  ScheduleInv'
<1> DEFINE A == WakeOps \cup {"flush", "start", "startW", "startR"}
           T == {"start", "startW", "startR"}
<1>0. UNCHANGED <<attached, running, waitMig, cur, writeQueue>>
  BY DEF WriteRefused, WriteNested, WriteBegin, WriteAgain, WriteEnd, WriteRetry, StartLoop,
         deviceVars, writeVars
<1>1. stack \in Seq(Frame) /\ (stack # <<>> => Tail(stack) \in Seq(Frame))
  BY StackFacts
<1>2. Has({"wrote0"})' => cur' # NoBuf
  <2>1. CASE WriteRefused \/ WriteNested \/ WriteEnd
    <3>1. stack # <<>> /\ Return
      BY <2>1 DEF WriteRefused, WriteNested, WriteEnd, ReturnWith, At
    <3>2. Active' \subseteq Active
      BY <1>1, <3>1, FrameSteps, FramesOf DEF Active
    <3> QED BY <1>0, <3>2 DEF Has, ScheduleInv
  <2>2. CASE WriteBegin \/ WriteAgain
    <3>1. stack # <<>> /\ Become(<<F("write")>>) /\ <<F("write")>> \in Seq(Frame)
      BY <2>2, FrameFacts DEF WriteBegin, WriteAgain, At, Ops
    <3>2. Active' = Frames(<<F("write")>>) \cup Frames(Tail(stack))
      BY <3>1, FrameSteps
    <3>3. Active' \subseteq {F("write")} \cup Active
      BY <1>1, <3>1, <3>2, FramesOf, HasFrames
    <3> QED BY <1>0, <3>3 DEF Has, ScheduleInv, F
  <2>3. CASE WriteRetry \/ StartLoop
    <3>1. Moves(A, T) /\ "wrote0" \notin A
      BY <2>3, CallingMoves DEF WakeOps
    <3> QED BY <1>0, <3>1, MovesFrames DEF Has, ScheduleInv
  <2> QED BY <2>1, <2>2, <2>3
<1>3. ASSUME \E op \in WriteFrames \cap Ops, fs \in Seq(Frame) :
               F(op) \in Frames(fs) /\ (Call(fs) \/ (stack # <<>> /\ Become(fs)))
      PROVE  Has(WriteFrames)'
  <2>1. PICK op \in WriteFrames \cap Ops, fs \in Seq(Frame) :
               F(op) \in Frames(fs) /\ (Call(fs) \/ (stack # <<>> /\ Become(fs)))
    BY <1>3
  <2>2. F(op) \in Active' /\ F(op).op = op
    BY <2>1, FrameSteps DEF F
  <2> QED BY <2>2 DEF Has
<1>4. CASE WriteRefused
  <2>1. ~Usable /\ ~Usable'
    BY <1>0, <1>4 DEF WriteRefused, Usable
  <2> QED BY <1>2, <2>1 DEF ScheduleInv
<1>5. CASE WriteNested
  <2>1. writing # 0 /\ stack # <<>> /\ Return /\ Top.op \notin WriteOps
    BY <1>5 DEF WriteNested, InWrite, ReturnWith, At, Top, WriteOps
  <2>2. ~NoneOf(WriteOps, stack)
    BY <2>1 DEF LoopInv, Guarded
  <2>3. ~NoneOf(WriteOps, Tail(stack))
    BY <1>1, <2>1, <2>2, SamePop DEF Top, Same
  <2>4. PICK f \in Frames(Tail(stack)) : f.op \in WriteOps
    BY <2>3 DEF NoneOf, Frames
  <2>5. f \in Active' /\ f.op \in WriteFrames
    BY <2>1, <2>4, FrameSteps DEF WriteOps, WriteFrames, WritingOps
  <2> QED BY <1>2, <2>5 DEF Has, ScheduleInv
<1>6. CASE WriteBegin \/ WriteAgain
  <2>1. stack # <<>> /\ Become(<<F("write")>>)
    BY <1>6 DEF WriteBegin, WriteAgain, At
  <2>2. /\ <<F("write")>> \in Seq(Frame) /\ F("write") \in Frames(<<F("write")>>)
        /\ "write" \in WriteFrames \cap Ops
    BY FrameFacts, FramesOf DEF Ops, WriteFrames, WritingOps
  <2>3. Has(WriteFrames)'
    BY <1>3, <2>1, <2>2
  <2> QED BY <1>2, <2>3 DEF ScheduleInv
<1>7. CASE WriteEnd
  <2>1. retry' = (retry \/ NeedsRetry)
    BY <1>7 DEF WriteEnd
  <2>2. Usable' => Settled'
    <3>1. CASE At("write") /\ ~MayWrite
      BY <1>0, <2>1, <3>1 DEF MayWrite, Usable, Settled, NeedsRetry
    <3>2. CASE At("wrote0")
      <4>1. stack # <<>> /\ Top.op = "wrote0"
        BY <3>2 DEF At, Top
      <4>2. Has({"wrote0"})
        BY <4>1, HasFrames DEF Has
      <4>3. cur # NoBuf
        BY <4>2 DEF ScheduleInv
      <4> QED BY <1>0, <2>1, <4>3 DEF Usable, Settled, NeedsRetry
    <3> QED BY <1>7, <3>1, <3>2 DEF WriteEnd
  <2> QED BY <1>2, <2>2 DEF ScheduleInv
<1>8. CASE WriteRetry
  <2>1. Call(<<F("write?")>>)
    BY <1>8 DEF WriteRetry
  <2>2. /\ <<F("write?")>> \in Seq(Frame) /\ F("write?") \in Frames(<<F("write?")>>)
        /\ "write?" \in WriteFrames \cap Ops
    BY FrameFacts, FramesOf DEF Ops, WriteFrames, WritingOps
  <2>3. Has(WriteFrames)'
    BY <1>3, <2>1, <2>2
  <2> QED BY <1>2, <2>3 DEF ScheduleInv
<1>9. CASE StartLoop
  <2>1. stack # <<>> /\ retry' = retry
    BY <1>9 DEF StartLoop, At, writeVars
  <2>2. CASE Become(<<F("start")>>) \/ Become(<<F("write?"), F("startW")>>)
    <3>1. /\ <<F("start")>> \in Seq(Frame) /\ F("start") \in Frames(<<F("start")>>)
          /\ <<F("write?"), F("startW")>> \in Seq(Frame)
          /\ F("write?") \in Frames(<<F("write?"), F("startW")>>)
          /\ {"start", "write?"} \subseteq WriteFrames \cap Ops
      BY FrameFacts, FramesOf DEF Ops, WriteFrames, WritingOps
    <3>2. Has(WriteFrames)'
      BY <1>3, <2>1, <2>2, <3>1
    <3> QED BY <1>2, <3>2 DEF ScheduleInv
  <2>3. CASE Top.op \notin WriteFrames
    <3>2. \A f \in Active : f # Top => f \in Active'
      <4>1. Return \/ Become(<<F("start")>>) \/ Become(<<F("write?"), F("startW")>>)
            \/ Become(<<F("read?"), F("startR")>>)
        BY <1>9 DEF StartLoop
      <4>2. <<F("start")>> \in Seq(Frame) /\ <<F("write?"), F("startW")>> \in Seq(Frame)
            /\ <<F("read?"), F("startR")>> \in Seq(Frame)
        BY FrameFacts DEF Ops
      <4>3. Frames(Tail(stack)) \subseteq Active'
        BY <2>1, <4>1, <4>2, FrameSteps
      <4> QED BY <2>1, <4>3, HasFrames
    <3>3. Has(WriteFrames) => Has(WriteFrames)'
      BY <2>3, <3>2 DEF Has
    <3> QED BY <1>0, <1>2, <2>1, <3>3 DEF ScheduleInv, Usable, Settled
  <2>4. Top.op = "start" => Become(<<F("write?"), F("startW")>>)
    BY <1>9 DEF StartLoop, At, Top
  <2>5. Top.op \in {"start", "startW", "startR"}
    BY <1>9 DEF StartLoop, At, Top
  <2> QED BY <2>2, <2>3, <2>4, <2>5 DEF WriteFrames, WritingOps
<1> QED BY <1>4, <1>5, <1>6, <1>7, <1>8, <1>9

-----------------------------------------------------------------------------
(* The buffers waiting to be written, as a set.                            *)

Queued(q) == {q[i] : i \in 1..Len(q)}

LEMMA QueuedSteps ==
  /\ Queued(<<>>) = {}
  /\ \A q \in Seq(WriteBuf), b \in WriteBuf : Queued(Append(q, b)) = Queued(q) \cup {b}
  /\ \A q \in Seq(WriteBuf) : q # <<>> => /\ Queued(q) = {Head(q)} \cup Queued(Tail(q))
                                          /\ Head(q) \in WriteBuf /\ Tail(q) \in Seq(WriteBuf)
  /\ \A q \in Seq(WriteBuf) : \A i \in 1..Len(q) :
        /\ SubSeq(q, 1, i - 1) \o SubSeq(q, i + 1, Len(q)) \in Seq(WriteBuf)
        /\ Queued(SubSeq(q, 1, i - 1) \o SubSeq(q, i + 1, Len(q))) \subseteq Queued(q)
  /\ \A q \in Seq(WriteBuf) : q # <<>> <=> Queued(q) # {}
  /\ \A q \in Seq(WriteBuf) : DOMAIN q = 1..Len(q)
<1>1. Queued(<<>>) = {}
  BY DEF Queued
<1>2. ASSUME NEW q \in Seq(WriteBuf), NEW b \in WriteBuf
      PROVE  Queued(Append(q, b)) = Queued(q) \cup {b}
  <2>1. /\ Len(q) \in Nat /\ Len(Append(q, b)) = Len(q) + 1
        /\ \A i \in 1..Len(q) : Append(q, b)[i] = q[i]
        /\ Append(q, b)[Len(q) + 1] = b
    BY AppendProperties, LenProperties
  <2>2. 1..Len(q) + 1 = (1..Len(q)) \cup {Len(q) + 1}
    BY <2>1
  <2> QED BY <2>1, <2>2 DEF Queued
<1>3. ASSUME NEW q \in Seq(WriteBuf), q # <<>>
      PROVE  /\ Queued(q) = {Head(q)} \cup Queued(Tail(q))
             /\ Head(q) \in WriteBuf /\ Tail(q) \in Seq(WriteBuf)
  <2>1. /\ Len(q) \in Nat \ {0} /\ Len(Tail(q)) = Len(q) - 1 /\ Head(q) = q[1]
        /\ \A i \in 1..Len(Tail(q)) : Tail(q)[i] = q[i + 1]
        /\ Head(q) \in WriteBuf /\ Tail(q) \in Seq(WriteBuf)
    BY <1>3, HeadTailProperties, EmptySeq, LenProperties
  <2>2. ASSUME NEW i \in 1..Len(q)
        PROVE  q[i] \in {Head(q)} \cup Queued(Tail(q))
    <3>1. i = 1 \/ (i - 1 \in 1..Len(Tail(q)) /\ Tail(q)[i - 1] = q[i])
      BY <2>1
    <3> QED BY <2>1, <3>1 DEF Queued
  <2>3. ASSUME NEW i \in 1..Len(Tail(q))
        PROVE  Tail(q)[i] \in Queued(q)
    <3>1. i + 1 \in 1..Len(q) /\ Tail(q)[i] = q[i + 1]
      BY <2>1
    <3> QED BY <3>1 DEF Queued
  <2>4. Head(q) \in Queued(q)
    BY <2>1 DEF Queued
  <2> QED BY <2>1, <2>2, <2>3, <2>4 DEF Queued
<1>4. ASSUME NEW q \in Seq(WriteBuf), NEW i \in 1..Len(q)
      PROVE  /\ SubSeq(q, 1, i - 1) \o SubSeq(q, i + 1, Len(q)) \in Seq(WriteBuf)
             /\ Queued(SubSeq(q, 1, i - 1) \o SubSeq(q, i + 1, Len(q))) \subseteq Queued(q)
  <2> DEFINE s == SubSeq(q, 1, i - 1)
             t == SubSeq(q, i + 1, Len(q))
  <2>1. Len(q) \in Nat /\ i \in Nat /\ i <= Len(q) /\ i >= 1
    BY LenProperties
  <2>2. /\ s \in Seq(WriteBuf) /\ Len(s) = i - 1
        /\ \A j \in 1..(i - 1) : s[j] = q[j]
    BY <2>1, SubSeqProperties
  <2>3. /\ t \in Seq(WriteBuf) /\ Len(t) = Len(q) - i
        /\ \A j \in 1..(Len(q) - i) : t[j] = q[i + j]
    BY <2>1, SubSeqProperties
  <2> HIDE DEF s, t
  <2>4. /\ s \o t \in Seq(WriteBuf) /\ Len(s \o t) = Len(s) + Len(t)
        /\ \A j \in 1..Len(s) + Len(t) : (s \o t)[j] = IF j <= Len(s) THEN s[j] ELSE t[j - Len(s)]
    BY <2>2, <2>3, ConcatProperties
  <2>5. ASSUME NEW j \in 1..Len(s \o t)
        PROVE  (s \o t)[j] \in Queued(q)
    <3>1. CASE j <= i - 1
      <4>1. (s \o t)[j] = q[j] /\ j \in 1..Len(q)
        BY <2>1, <2>2, <2>3, <2>4, <3>1
      <4> QED BY <4>1 DEF Queued
    <3>2. CASE j > i - 1
      <4>1. (s \o t)[j] = q[j + 1] /\ j + 1 \in 1..Len(q)
        BY <2>1, <2>2, <2>3, <2>4, <3>2
      <4> QED BY <4>1 DEF Queued
    <3> QED BY <2>1, <3>1, <3>2
  <2>6. s \o t \in Seq(WriteBuf) /\ Queued(s \o t) \subseteq Queued(q)
    BY <2>4, <2>5 DEF Queued
  <2> QED BY <2>6 DEF s, t
<1>5. ASSUME NEW q \in Seq(WriteBuf)
      PROVE  (q # <<>> <=> Queued(q) # {}) /\ DOMAIN q = 1..Len(q)
  <2>1. Len(q) \in Nat /\ (q = <<>> <=> Len(q) = 0) /\ DOMAIN q = 1..Len(q)
    BY LenProperties, EmptySeq
  <2> QED BY <2>1 DEF Queued
<1> QED BY <1>1, <1>2, <1>3, <1>4, <1>5

\* What the invariants say of the queue, in these terms.
LEMMA QueuedMeans ==
  ASSUME TypeOK
  PROVE  /\ BuffersHaveOwners <=>
              /\ cur.origin = "client" => cur.c \in clients
              /\ \A b \in Queued(writeQueue) : b.origin = "client" => b.c \in clients
         /\ (\A i \in 1..Len(writeQueue) : writeQueue[i].origin = "client") <=>
              \A b \in Queued(writeQueue) : b.origin = "client"
<1>1. DOMAIN writeQueue = 1..Len(writeQueue)
  BY QueuedSteps DEF TypeOK, WriteTypes
<1> QED BY <1>1 DEF Queued, BuffersHaveOwners

\* Steps that change the queue and the current buffer, and little else.
LEMMA QueueOnly ==
  ASSUME TypeOK, DeviceInv, RemovalInv, MigrationInv, Moves(Ops \ KeyOps, Ops \ KeyOps),
         UNCHANGED <<exists, attached, running, waitMig, clients, conn>>,
         writing' # 0 => writing # 0,
         exists /\ waitMig => /\ cur' = cur
                              /\ \A b \in Queued(writeQueue)' : b.origin = "client"
                              /\ \A c \in clients : conn[c] = "mig" => writeQueue' = <<>>
  PROVE  DeviceInv' /\ RemovalInv' /\ MigrationInv'
<1>1. /\ \A f : f.op \in KeyOps => (f \in Active' <=> f \in Active)
      /\ \A L \in SUBSET KeyOps : Has(L)' <=> Has(L)
      /\ Orderly(stack')
  BY CalmFrames DEF RemovalInv
<1>2. \A c : "gone" \in KeyOps /\ FC("free", c).op \in KeyOps
  BY DEF FC, KeyOps
<1>3. {{"free"}, {"removed", "destroy"}, {"reset", "reset2"}, {"removed"}, {"gone"}}
        \subseteq SUBSET KeyOps
  BY DEF KeyOps
<1>4. DeviceInv'
  BY DEF DeviceInv
<1>5. RemovalInv'
  <2>1. \A f \in Active' : f.op = "gone" /\ f.c \in clients' => FC("free", f.c) \in Active'
    BY <1>1, <1>2 DEF RemovalInv
  <2>2. Has({"free"})' => Has({"removed", "destroy"})'
    BY <1>1, <1>3 DEF RemovalInv
  <2>3. Has({"reset", "reset2"})' =>
          ~running' /\ ~waitMig' /\ ~ConnectedTokens /\ writing' = 0
    BY <1>1, <1>3 DEF RemovalInv
  <2> QED BY <1>1, <2>1, <2>2, <2>3 DEF RemovalInv
<1>6. MigrationInv'
  <2>1. writing' # 0 => ~waitMig'
    BY DEF MigrationInv
  <2>2. ASSUME exists', waitMig'
        PROVE  /\ ConnectedTokens /\ ~MultiClient /\ cur' = NoBuf
               /\ \A i \in 1..Len(writeQueue') : writeQueue'[i].origin = "client"
               /\ clients' # {} \/ Has({"removed", "destroy"})'
               /\ Has({"removed"})' => \A c \in clients' : FC("free", c) \in Active'
               /\ Has({"gone"})' => Has({"removed"})'
               /\ \A c \in clients' : conn'[c] = "mig" => writeQueue' = <<>>
    <3>1. exists /\ waitMig
      BY <2>2
    <3>2. /\ ConnectedTokens /\ ~MultiClient /\ cur' = NoBuf
          /\ \A i \in 1..Len(writeQueue') : writeQueue'[i].origin = "client"
      BY <3>1 DEF MigrationInv, Queued
    <3>3. clients' # {} \/ Has({"removed", "destroy"})'
      BY <1>1, <1>3, <3>1 DEF MigrationInv
    <3>4. Has({"removed"})' => \A c \in clients' : FC("free", c) \in Active'
      BY <1>1, <1>2, <1>3, <3>1 DEF MigrationInv
    <3>5. Has({"gone"})' => Has({"removed"})'
      BY <1>1, <1>3, <3>1 DEF MigrationInv
    <3>6. \A c \in clients' : conn'[c] = "mig" => writeQueue' = <<>>
      BY <3>1
    <3> QED BY <3>2, <3>3, <3>4, <3>5, <3>6
  <2> QED BY <2>1, <2>2 DEF MigrationInv
<1> QED BY <1>4, <1>5, <1>6

LEMMA OwnersAfter ==
  ASSUME writeQueue' \in Seq(WriteBuf), cur'.origin = "client" => cur'.c \in clients',
         \A b \in Queued(writeQueue') : b.origin = "client" => b.c \in clients'
  PROVE  BuffersHaveOwners'
<1>1. DOMAIN writeQueue' = 1..Len(writeQueue')
  BY QueuedSteps
<1> QED BY <1>1 DEF Queued, BuffersHaveOwners

\* The queue after a buffer is released.
LEMMA ReleaseQueue ==
  ASSUME NEW buf, NEW q \in Seq(WriteBuf), NEW rest, Release(buf, q, rest)
  PROVE  /\ writeQueue' = q \/ writeQueue' = Append(q, ServerBuf)
         /\ \A b \in Queued(writeQueue') : b \in Queued(q) \/ b.origin # "client"
         /\ writing' # 0 => writing # 0
<1>1. writeQueue' = IF MouseAgain(buf) THEN Append(q, ServerBuf) ELSE q
  BY DEF Release
<1>2. writing' = IF MouseAgain(buf) /\ Usable /\ writing > 0 THEN 2 ELSE writing
  BY DEF Release
<1>3. writing' # 0 => writing # 0
  BY <1>2
<1>4. Queued(Append(q, ServerBuf)) = Queued(q) \cup {ServerBuf} /\ ServerBuf.origin # "client"
  BY QueuedSteps, WriteFacts DEF ServerBuf
<1> QED BY <1>1, <1>3, <1>4

\* The top of the stack is a frame of the write loop: it is active, so the device
\* does not wait for migration data and is not being reset.
LEMMA InLoop ==
  ASSUME TypeOK, LoopInv, stack # <<>>, Top.op \in WriteOps
  PROVE  writing # 0
<1>1. ~NoneOf(WriteOps, stack)
  BY StackFacts, SamePop DEF Top
<1> QED BY <1>1 DEF LoopInv, Guarded

LEMMA WriteSomeInv ==
  ASSUME ConstantsOK, TypeOK, LoopInv, WritingInv, NEW op \in WriteOps, WriteSome(op),
         WriteAll \/ WritePart \/ WriteNone
  PROVE  WritingInv'
<1>1. stack # <<>> /\ Top.op \in WriteOps /\ stack \in Seq(Frame)
  BY StackFacts DEF WriteSome, At, Top, WriteOps
<1>2. writing # 0 /\ ~waitMig
  BY <1>1, InLoop DEF WritingInv, MigrationInv
<1>3. /\ UNCHANGED <<exists, attached, running, waitMig, clients, conn, writing>>
      /\ cur' = IF cur = NoBuf THEN Head(writeQueue) ELSE cur
      /\ writeQueue' = IF cur = NoBuf THEN Tail(writeQueue) ELSE writeQueue
      /\ cur # NoBuf \/ writeQueue # <<>>
  BY DEF WriteSome, deviceVars, chanVars, MayWrite
<1>4. Moves(WakeOps \cup WritingOps \cup {"flush"}, WritingOps)
  BY WritingMoves DEF Writing
<1>5. Moves(Ops \ KeyOps, Ops \ KeyOps)
  <2>1. {WakeOps \cup WritingOps \cup {"flush"}, WritingOps} \subseteq SUBSET (Ops \ KeyOps)
    BY DEF Ops, KeyOps, WakeOps, WritingOps
  <2> QED BY <1>4, <2>1, CalmMoves
<1>6. DeviceInv' /\ RemovalInv' /\ MigrationInv'
  BY <1>2, <1>3, <1>5, QueueOnly DEF WritingInv
<1>7. writeQueue \in Seq(WriteBuf)
  BY DEF TypeOK, WriteTypes
<1>8. cur' # NoBuf
  <2>1. writeQueue # <<>> => Head(writeQueue) \in WriteBuf
    BY <1>7, WriteFacts
  <2>2. NoBuf \notin WriteBuf
    BY DEF WriteBuf, NoBuf
  <2> QED BY <1>3, <2>1, <2>2
<1>9. BuffersHaveOwners'
  <2>1. /\ cur.origin = "client" => cur.c \in clients
        /\ \A b \in Queued(writeQueue) : b.origin = "client" => b.c \in clients
    BY QueuedMeans DEF WritingInv
  <2>2. /\ cur'.origin = "client" => cur'.c \in clients'
        /\ \A b \in Queued(writeQueue') : b.origin = "client" => b.c \in clients'
    BY <1>3, <1>7, <2>1, QueuedSteps
  <2>3. writeQueue' \in Seq(WriteBuf)
    BY <1>3, <1>7, WriteFacts
  <2> QED BY <2>2, <2>3, OwnersAfter
<1>10. Has(WriteFrames)'
  <2>1. PICK nested \in {<<>>, Wakeup} : Become(nested \o <<F(op)>>)
    BY DEF WriteSome
  <2>2. /\ nested \in Seq(Frame) /\ <<F(op)>> \in Seq(Frame)
        /\ nested \o <<F(op)>> \in Seq(Frame)
    <3>1. op \in Ops
      BY DEF WriteOps, Ops
    <3>2. nested \in Seq(Frame) /\ <<F(op)>> \in Seq(Frame)
      BY <3>1, FrameFacts
    <3> QED BY <3>2, SeqFacts
  <2>3. F(op) \in Frames(nested \o <<F(op)>>)
    <3>1. /\ Frames(nested \o <<F(op)>>) = Frames(nested) \cup Frames(<<F(op)>>)
          /\ Frames(<<F(op)>>) = {F(op)}
      BY <2>2, FramesOf
    <3> QED BY <3>1
  <2>4. F(op) \in Active' /\ F(op).op \in WriteFrames
    BY <1>1, <2>1, <2>2, <2>3, FrameSteps DEF F, WriteOps, WriteFrames, WritingOps
  <2> QED BY <2>4 DEF Has
<1>11. ScheduleInv'
  BY <1>8, <1>10 DEF ScheduleInv
<1> QED BY <1>6, <1>9, <1>11 DEF WritingInv

LEMMA WriteReleaseInv ==
  ASSUME ConstantsOK, TypeOK, LoopInv, WritingInv, WriteRelease
  PROVE  WritingInv'
<1> DEFINE rest == <<F("write")>> \o Tail(stack)
<1>1. /\ stack # <<>> /\ Top.op \in WriteOps /\ stack \in Seq(Frame)
      /\ Tail(stack) \in Seq(Frame) /\ <<F("write")>> \in Seq(Frame)
  BY StackFacts, FrameFacts DEF WriteRelease, At, Top, WriteOps, Ops
<1>2. writing # 0 /\ ~waitMig
  BY <1>1, InLoop DEF WritingInv, MigrationInv
<1>3. /\ UNCHANGED <<exists, attached, running, waitMig, clients, conn>>
      /\ cur' = NoBuf /\ Release(cur, writeQueue, rest)
  BY DEF WriteRelease, deviceVars
<1>4. writeQueue \in Seq(WriteBuf)
  BY DEF TypeOK, WriteTypes
<1>5. /\ writeQueue' = writeQueue \/ writeQueue' = Append(writeQueue, ServerBuf)
      /\ \A b \in Queued(writeQueue') : b \in Queued(writeQueue) \/ b.origin # "client"
      /\ writing' # 0 => writing # 0
  BY <1>3, <1>4, ReleaseQueue
<1>6. Moves(Ops \ KeyOps, Ops \ KeyOps)
  <2>1. {WakeOps \cup WritingOps \cup {"flush"}, WritingOps} \subseteq SUBSET (Ops \ KeyOps)
    BY DEF Ops, KeyOps, WakeOps, WritingOps
  <2> QED BY <2>1, WritingMoves, CalmMoves DEF Writing
<1>7. DeviceInv' /\ RemovalInv' /\ MigrationInv'
  BY <1>2, <1>3, <1>5, <1>6, QueueOnly DEF WritingInv
<1>8. BuffersHaveOwners'
  <2>1. \A b \in Queued(writeQueue) : b.origin = "client" => b.c \in clients
    BY QueuedMeans DEF WritingInv
  <2>2. writeQueue' \in Seq(WriteBuf)
    BY <1>4, <1>5, WriteFacts
  <2>3. cur'.origin # "client"
    BY <1>3 DEF NoBuf
  <2> QED BY <1>3, <1>5, <2>1, <2>2, <2>3, OwnersAfter
<1>9. \E fs \in Only({"flush"}) : stack' = fs \o rest
  <2>1. rest \in Seq(Frame)
    BY <1>1, FrameFacts
  <2> QED BY <1>3, <2>1, ReleaseOver DEF Ops
<1>10. Active' = Frames(rest) \/ \E fs \in Only({"flush"}) : Active' = Frames(fs) \cup Frames(rest)
  <2>1. rest \in Seq(Frame) /\ \A fs \in Only({"flush"}) : fs \in Seq(Frame)
    BY <1>1, FrameFacts DEF Only
  <2> HIDE DEF rest
  <2> QED BY <1>9, <2>1, FramesOf DEF Active
<1>11. Frames(rest) = {F("write")} \cup Frames(Tail(stack))
  <2>1. Frames(rest) = Frames(<<F("write")>>) \cup Frames(Tail(stack))
    BY <1>1, FramesOf
  <2> QED BY <2>1, FramesOf
<1>12. ScheduleInv'
  <2>1. F("write") \in Active' /\ F("write").op \in WriteFrames
    BY <1>10, <1>11 DEF F, WriteFrames, WritingOps
  <2>2. NoneOf(WriteOps, Tail(stack))
    BY <1>1, SamePop DEF LoopInv, Guarded, Top
  <2>3. \A f \in Frames(Tail(stack)) : f.op # "wrote0"
    BY <2>2 DEF NoneOf, Frames, WriteOps
  <2>4. \A fs \in Only({"flush"}) : \A f \in Frames(fs) : f.op # "wrote0"
    BY DEF Only, Frames
  <2>5. ~Has({"wrote0"})'
    BY <1>10, <1>11, <2>3, <2>4 DEF Has, F
  <2> QED BY <2>1, <2>5 DEF ScheduleInv, Has
<1> QED BY <1>7, <1>8, <1>12 DEF WritingInv

\* A buffer is added to the queue from the main loop, and the write loop called.
LEMMA BufAddInv ==
  ASSUME ConstantsOK, TypeOK, LoopInv, WritingInv,
         MouseEvent \/ \E c \in Clients : BufAdd(c)
  PROVE  WritingInv'
<1> DEFINE A == WakeOps \cup {"flush", "start", "startW", "startR"}
           T == {"start", "startW", "startR"}
<1>1. /\ stack = <<>> /\ Active = {}
  BY HasFrames DEF MouseEvent, BufAdd, Idle
<1>2. /\ UNCHANGED <<exists, attached, running, waitMig, clients, conn, writing, cur, retry>>
  BY DEF MouseEvent, BufAdd, deviceVars, chanVars, writeLocals
<1>3. \/ writeQueue' = writeQueue /\ stack' = stack
      \/ \E b \in WriteBuf : /\ writeQueue' = Append(writeQueue, b) /\ Call(<<F("write?")>>)
                             /\ b.origin = "client" => b.c \in clients
                             /\ exists /\ waitMig => b.origin = "client" /\ conn[b.c] # "mig"
  <2>1. CASE MouseEvent
    BY <2>1, WriteFacts DEF MouseEvent, ServerBuf
  <2>2. CASE \E c \in Clients : BufAdd(c)
    <3>1. PICK c \in Clients : BufAdd(c)
      BY <2>2
    <3>2. /\ ClientBuf(c, 1) \in WriteBuf /\ ClientBuf(c, 1).origin = "client"
          /\ ClientBuf(c, 1).c = c
      BY WriteFacts DEF ClientBuf
    <3> QED BY <3>1, <3>2 DEF BufAdd
  <2> QED BY <2>1, <2>2
<1>4. /\ Moves(Ops \ KeyOps, Ops \ KeyOps)
      /\ Moves(Ops \ {"wrote0"}, Ops \ WriteFrames)
  <2>1. {A, T} \subseteq SUBSET (Ops \ KeyOps) /\ A \subseteq Ops \ {"wrote0"}
    BY DEF Ops, KeyOps, WakeOps
  <2>2. Moves(A, T) /\ Moves(A, {})
    BY <1>1, CallingMoves DEF Moves
  <2> QED BY <2>1, <2>2, MovesWider
<1>5. CASE writeQueue' = writeQueue /\ stack' = stack
  <2>1. Calm /\ Lazy
    BY <1>2, <1>4, <1>5 DEF Calm, Lazy
  <2> QED BY <2>1, CalmKeeps, LazyKeeps DEF WritingInv
<1>6. ASSUME NEW b \in WriteBuf, writeQueue' = Append(writeQueue, b), Call(<<F("write?")>>),
             b.origin = "client" => b.c \in clients,
             exists /\ waitMig => b.origin = "client" /\ conn[b.c] # "mig"
      PROVE  WritingInv'
  <2>1. /\ writeQueue \in Seq(WriteBuf) /\ writeQueue' \in Seq(WriteBuf)
        /\ Queued(writeQueue') = Queued(writeQueue) \cup {b}
    BY <1>6, WriteFacts, QueuedSteps DEF TypeOK, WriteTypes
  <2>2. BuffersHaveOwners'
    BY <1>2, <1>6, <2>1, QueuedMeans, OwnersAfter DEF WritingInv
  <2>3. ASSUME exists, waitMig
        PROVE  /\ \A x \in Queued(writeQueue') : x.origin = "client"
               /\ \A c \in clients : conn[c] # "mig"
    <3>1. \A x \in Queued(writeQueue) : x.origin = "client"
      BY <2>3, QueuedMeans DEF WritingInv, MigrationInv
    <3>2. ~MultiClient /\ b.c \in clients /\ conn[b.c] # "mig"
      BY <1>6, <2>3 DEF WritingInv, MigrationInv
    <3>3. \A c \in clients : c = b.c
      BY <3>2 DEF WritingInv, DeviceInv, TypeOK, DeviceTypes
    <3> QED BY <1>6, <2>1, <2>3, <3>1, <3>2, <3>3
  <2>4. DeviceInv' /\ RemovalInv' /\ MigrationInv'
    BY <1>2, <1>4, <2>3, QueueOnly DEF WritingInv
  <2>5. <<F("write?")>> \in Seq(Frame)
    BY FrameFacts DEF Ops
  <2>6. Active' = {F("write?")}
    BY <1>1, <1>6, <2>5, FrameSteps, FramesOf
  <2>7. ScheduleInv'
    BY <2>6 DEF ScheduleInv, Has, F, WriteFrames, WritingOps
  <2> QED BY <2>2, <2>4, <2>7 DEF WritingInv
<1> QED BY <1>3, <1>5, <1>6

-----------------------------------------------------------------------------
(* Clients.                                                                *)

\* What the main loop finds: nothing is active.
LEMMA IdleFacts ==
  ASSUME TypeOK, LoopInv, Idle
  PROVE  /\ Active = {} /\ (\A L : ~Has(L)) /\ writing = 0
         /\ \A fs \in Seq(Frame) : Call(fs) => stack' = fs /\ Active' = Frames(fs)
         /\ stack' = stack => Active' = {}
<1>1. stack = <<>> /\ Active = {}
  BY HasFrames DEF Idle
<1>2. \A L : ~Has(L)
  BY <1>1 DEF Has
<1>3. writing = 0
  BY <1>1 DEF LoopInv, Guarded, NoneOf
<1>4. \A fs \in Seq(Frame) : Call(fs) => stack' = fs /\ Active' = Frames(fs)
  BY <1>1, ConcatEmptySeq DEF Call, Active
<1>5. stack' = stack => Active' = {}
  BY <1>1 DEF Active
<1> QED BY <1>1, <1>2, <1>3, <1>4, <1>5

LEMMA OrderlyFacts ==
  /\ Orderly(<<>>)
  /\ \A s \in Only({"hangup", "gone"}) : Orderly(s)
  /\ \A s \in Only(Ops \ {"free", "removed"}) : Orderly(s)
  /\ \A c \in Clients : \A s \in Only({"hangup", "gone"}) :
        /\ Orderly(<<FC("free", c), F("removed")>> \o s)
        /\ Frames(<<FC("free", c), F("removed")>> \o s) =
             {FC("free", c), F("removed")} \cup Frames(s)
  /\ \A c \in Clients : Orderly(<<FC("free", c), F("removed")>>)
<1>1. \A s \in Only(Ops \ {"free", "removed"}) : Orderly(s)
  BY OverSteps DEF Only, NoneOf, Orderly
<1>2. {"hangup", "gone"} \subseteq Ops \ {"free", "removed"} /\ {} \subseteq Ops
  BY DEF Ops
<1>3. \A s \in Only({"hangup", "gone"}) : Orderly(s)
  BY <1>1, <1>2, OnlyWider
<1>4. Orderly(<<>>)
  <2>1. <<>> \in Seq(Frame) /\ \A L : NoneOf(L, <<>>)
    BY FrameFacts DEF NoneOf
  <2> QED BY <2>1, OverSteps DEF Orderly
<1>5. ASSUME NEW c \in Clients
      PROVE  /\ Orderly(<<FC("free", c), F("removed")>>)
             /\ <<FC("free", c), F("removed")>> \in Seq(Frame)
             /\ NoneOf({"gone"}, <<FC("free", c), F("removed")>>)
  <2> DEFINE a == <<FC("free", c), F("removed")>>
  <2>1. /\ a \in Seq(Frame) /\ Len(a) = 2 /\ a[1].op = "free" /\ a[2].op = "removed"
    BY FrameFacts DEF FC, F, Ops
  <2> HIDE DEF a
  <2>2. \A i \in 1..Len(a) : i = 1 \/ i = 2
    BY <2>1
  <2>3. Orderly(a) /\ NoneOf({"gone"}, a)
    BY <2>1, <2>2 DEF Orderly, NoOver, NoneOf
  <2> QED BY <2>1, <2>3 DEF a
<1>6. ASSUME NEW c \in Clients, NEW s \in Only({"hangup", "gone"})
      PROVE  /\ Orderly(<<FC("free", c), F("removed")>> \o s)
             /\ Frames(<<FC("free", c), F("removed")>> \o s) =
                  {FC("free", c), F("removed")} \cup Frames(s)
  <2> DEFINE a == <<FC("free", c), F("removed")>>
  <2>1. a \in Seq(Frame) /\ Orderly(a) /\ NoneOf({"gone"}, a)
    BY <1>5
  <2>2. s \in Seq(Frame) /\ Orderly(s) /\ NoneOf({"free"}, s) /\ NoneOf({"removed"}, s)
    BY <1>3 DEF Only, NoneOf
  <2>3. Frames(a) = {FC("free", c), F("removed")}
    BY FramesOf
  <2> HIDE DEF a
  <2>4. Orderly(a \o s)
    BY <2>1, <2>2, OverSteps DEF Orderly
  <2>5. Frames(a \o s) = Frames(a) \cup Frames(s)
    BY <2>1, <2>2, FramesOf
  <2> QED BY <2>3, <2>4, <2>5 DEF a
<1> QED BY <1>1, <1>3, <1>4, <1>5, <1>6

LEMMA ConnectInv ==
  ASSUME ConstantsOK, TypeOK, LoopInv, WritingInv, NEW c \in Clients, Connect(c)
  PROVE  WritingInv'
<1>1. /\ UNCHANGED <<exists, attached, running, waitMig, clients, cur, writeQueue, retry,
                     stack, writing>>
      /\ conn' = [conn EXCEPT ![c] = "open"] /\ conn[c] = "none"
      /\ MultiClient \/ \A d \in Clients : conn[d] = "none"
  BY DEF Connect, deviceVars, writeVars, writeLocals
<1>2. \A d \in Clients : conn'[d] = IF d = c THEN "open" ELSE conn[d]
  BY <1>1 DEF TypeOK, ChanTypes
<1>3. clients \subseteq Clients
  BY DEF TypeOK, DeviceTypes
<1>4. Active' = Active /\ (\A L : Has(L)' <=> Has(L)) /\ Orderly(stack')
  BY <1>1 DEF Active, Has, WritingInv, RemovalInv
<1>5. DeviceInv'
  BY <1>1, <1>2, <1>3 DEF WritingInv, DeviceInv
<1>6. RemovalInv'
  BY <1>1, <1>4 DEF WritingInv, RemovalInv
<1>7. MigrationInv'
  BY <1>1, <1>2, <1>3, <1>4 DEF WritingInv, MigrationInv
<1>8. ScheduleInv' /\ BuffersHaveOwners'
  BY <1>1, <1>4 DEF WritingInv, ScheduleInv, BuffersHaveOwners, Usable, Settled
<1> QED BY <1>5, <1>6, <1>7, <1>8 DEF WritingInv

LEMMA ClientAddInv ==
  ASSUME ConstantsOK, TypeOK, LoopInv, WritingInv, NEW c \in Clients, NEW n \in 0..MaxSend,
         ClientAdd(c, n)
  PROVE  WritingInv'
<1>1. /\ UNCHANGED <<exists, attached, running, cur, writeQueue, retry, conn, writing>>
      /\ waitMig' = FALSE /\ clients' = clients \cup {c} /\ exists /\ conn[c] = "open"
      /\ Idle /\ Call(Wakeup)
  BY DEF ClientAdd, AddClient, writeVars, writeLocals
<1>2. /\ stack' = Wakeup /\ Active' = Frames(Wakeup) /\ writing = 0
  BY <1>1, IdleFacts, FrameFacts
<1>3. Active' = {F("write?"), F("read?")}
  BY <1>2, FramesOf DEF Wakeup
<1>4. Orderly(stack')
  <2>1. Wakeup \in Only(WakeOps) /\ WakeOps \subseteq Ops \ {"free", "removed"}
    BY OnlyFacts DEF Ops, WakeOps
  <2> QED BY <1>2, <2>1, OnlyWider, OrderlyFacts
<1>5. DeviceInv'
  BY <1>1 DEF WritingInv, DeviceInv
<1>6. RemovalInv' /\ MigrationInv' /\ ScheduleInv'
  BY <1>1, <1>3, <1>4 DEF RemovalInv, MigrationInv, ScheduleInv, Has, F, FC, WriteFrames,
                          WritingOps
<1>7. BuffersHaveOwners'
  BY <1>1 DEF WritingInv, BuffersHaveOwners
<1> QED BY <1>5, <1>6, <1>7 DEF WritingInv

LEMMA ConcatFrames ==
  \A x, y, z \in Seq(Frame) : (x \o y) \o z = x \o (y \o z)
<1> SUFFICES ASSUME NEW x \in Seq(Frame), NEW y \in Seq(Frame), NEW z \in Seq(Frame)
             PROVE  (x \o y) \o z = x \o (y \o z)
  OBVIOUS
<1> QED BY ConcatAssociative

\* The last agreement between a client and the device: the frames of its removal
\* and of its end are put on the stack together.
LEMMA DisconnectInv ==
  ASSUME ConstantsOK, TypeOK, LoopInv, WritingInv, NEW c \in Clients, ClientDisconnect(c)
  PROVE  WritingInv'
<1> DEFINE a == IF exists /\ c \in clients THEN <<FC("free", c), F("removed")>> ELSE <<>>
           b == IF Linked(c) THEN <<FC("hangup", c)>> ELSE <<>>
           g == <<FC("gone", c)>>
<1>1. /\ UNCHANGED <<exists, attached, running, waitMig, clients, cur, writeQueue, retry,
                     conn, writing>>
      /\ conn[c] # "none" /\ Idle /\ Call(a \o b \o g)
  BY DEF ClientDisconnect, deviceVars, writeVars, chanVars, writeLocals
<1>2. /\ a \in Seq(Frame) /\ b \in Seq(Frame) /\ g \in Seq(Frame)
      /\ b \o g \in Only({"hangup", "gone"})
      /\ Frames(b \o g) \in {{FC("gone", c)}, {FC("hangup", c), FC("gone", c)}}
  <2>1. {"hangup", "gone", "removed", "free"} \subseteq Ops
    BY DEF Ops
  <2>2. a \in Seq(Frame)
    BY <2>1, FrameFacts
  <2>3. b \in Only({"hangup", "gone"}) /\ g \in Only({"hangup", "gone"})
    BY <2>1, OnlyFacts
  <2>4. b \in Seq(Frame) /\ g \in Seq(Frame) /\ b \o g \in Only({"hangup", "gone"})
    BY <2>1, <2>3, OnlyFacts
  <2>5. Frames(b) \in {{}, {FC("hangup", c)}} /\ Frames(g) = {FC("gone", c)}
    BY FramesOf
  <2> HIDE DEF a, b, g
  <2>6. Frames(b \o g) = Frames(b) \cup Frames(g)
    BY <2>4, FramesOf
  <2> QED BY <2>2, <2>4, <2>5, <2>6
<1>3. /\ stack' = a \o (b \o g) /\ Active' = Frames(a \o (b \o g)) /\ writing = 0
      /\ \A L : ~Has(L)
  <2> HIDE DEF a, b, g
  <2>1. a \o b \o g = a \o (b \o g)
    <3>1. a \in Seq(Frame) /\ b \in Seq(Frame) /\ g \in Seq(Frame)
      BY <1>2
    <3>2. \A y, z \in Seq(Frame) : (a \o y) \o z = a \o (y \o z)
      BY <3>1, ConcatFrames
    <3>3. \A z \in Seq(Frame) : (a \o b) \o z = a \o (b \o z)
      BY <3>1, <3>2
    <3> QED BY <3>1, <3>3
  <2>2. a \o (b \o g) \in Seq(Frame)
    BY <1>2, FrameFacts DEF Only
  <2> QED BY <1>1, <2>1, <2>2, IdleFacts
<1>4. /\ Orderly(stack')
      /\ \/ exists /\ c \in clients /\ Active' = {FC("free", c), F("removed")} \cup Frames(b \o g)
         \/ c \notin clients /\ Active' = Frames(b \o g)
  <2>1. CASE exists /\ c \in clients
    <3>1. a = <<FC("free", c), F("removed")>>
      BY <2>1
    <3> HIDE DEF a, b, g
    <3> QED BY <1>2, <1>3, <2>1, <3>1, OrderlyFacts
  <2>2. CASE ~(exists /\ c \in clients)
    <3>1. a = <<>> /\ c \notin clients
      BY <2>2 DEF WritingInv, DeviceInv
    <3> HIDE DEF a, b, g
    <3>2. a \o (b \o g) = b \o g
      BY <1>2, <3>1, ConcatEmptySeq DEF Only
    <3> QED BY <1>2, <1>3, <3>1, <3>2, OrderlyFacts
  <2> QED BY <2>1, <2>2
<1> HIDE DEF a, b, g
<1>5. \A f \in Active' : f.op = "gone" => f.c = c
  BY <1>2, <1>4 DEF F, FC
<1>6. DeviceInv' /\ BuffersHaveOwners'
  BY <1>1 DEF WritingInv, DeviceInv, BuffersHaveOwners
<1>7. RemovalInv'
  <2>1. ~Has({"reset", "reset2"})'
    BY <1>2, <1>4 DEF Has, F, FC
  <2>2. Has({"free"})' => Has({"removed", "destroy"})'
    <3>1. CASE F("removed") \in Active'
      BY <3>1 DEF Has, F
    <3>2. CASE F("removed") \notin Active'
      <4>1. Active' = Frames(b \o g)
        BY <1>4, <3>2
      <4> QED BY <1>2, <4>1 DEF Has, FC
    <3> QED BY <3>1, <3>2
  <2>3. \A f \in Active' : f.op = "gone" /\ f.c \in clients' => FC("free", f.c) \in Active'
    BY <1>1, <1>4, <1>5
  <2> QED BY <1>4, <2>1, <2>2, <2>3 DEF RemovalInv
<1>8. MigrationInv'
  <2>1. writing' # 0 => ~waitMig'
    BY <1>1, <1>3
  <2>2. ASSUME exists', waitMig'
        PROVE  /\ ConnectedTokens /\ ~MultiClient /\ cur' = NoBuf
               /\ \A i \in 1..Len(writeQueue') : writeQueue'[i].origin = "client"
               /\ clients' # {} \/ Has({"removed", "destroy"})'
               /\ Has({"removed"})' => \A d \in clients' : FC("free", d) \in Active'
               /\ Has({"gone"})' => Has({"removed"})'
               /\ \A d \in clients' : conn'[d] = "mig" => writeQueue' = <<>>
    <3>1. exists /\ waitMig
      BY <1>1, <2>2
    <3>2. clients # {} /\ ~MultiClient
      BY <1>3, <3>1 DEF WritingInv, MigrationInv
    <3>3. clients = {c}
      BY <1>1, <3>2 DEF WritingInv, DeviceInv, TypeOK, DeviceTypes
    <3>4. FC("free", c) \in Active' /\ Has({"removed"})' /\ Has({"removed", "destroy"})'
      <4>1. FC("free", c) \in Active' /\ F("removed") \in Active'
        BY <1>4, <3>3
      <4>2. F("removed").op = "removed"
        BY DEF F
      <4> QED BY <4>1, <4>2 DEF Has
    <3> QED BY <1>1, <3>1, <3>3, <3>4 DEF WritingInv, MigrationInv
  <2> QED BY <2>1, <2>2 DEF MigrationInv
<1>9. ScheduleInv'
  <2>1. ~Has({"wrote0"})'
    BY <1>2, <1>4 DEF Has, F, FC
  <2>2. Usable => Settled
    BY <1>3 DEF WritingInv, ScheduleInv
  <2> QED BY <1>1, <2>1, <2>2 DEF ScheduleInv, Usable, Settled
<1> QED BY <1>6, <1>7, <1>8, <1>9 DEF WritingInv

\* The source host had no agent: the one client is removed if the agent is here.
LEMMA RestoreNoneInv ==
  ASSUME ConstantsOK, TypeOK, LoopInv, WritingInv, NEW c \in Clients, RestoreNone(c)
  PROVE  WritingInv'
<1> DEFINE a == <<FC("free", c), F("removed")>>
<1>1. /\ UNCHANGED <<exists, attached, running, waitMig, clients, cur, writeQueue, retry, writing>>
      /\ conn' = [conn EXCEPT ![c] = "open"] /\ conn[c] \in {"mig", "late"} /\ Idle
      /\ attached => Call(a)
      /\ ~attached => Call(<<>>)
  BY DEF RestoreNone, Waiting, deviceVars, writeVars, writeLocals
<1>2. \A d \in Clients : conn'[d] = IF d = c THEN "open" ELSE conn[d]
  BY <1>1 DEF TypeOK, ChanTypes
<1>3. clients \subseteq Clients
  BY DEF TypeOK, DeviceTypes
<1>4. /\ a \in Seq(Frame) /\ Orderly(a) /\ Frames(a) = {FC("free", c), F("removed")}
      /\ <<>> \in Seq(Frame) /\ Orderly(<<>>) /\ Frames(<<>>) = {}
  BY FrameFacts, FramesOf, OrderlyFacts DEF Ops
<1> HIDE DEF a
<1>5. /\ Orderly(stack') /\ writing = 0 /\ \A L : ~Has(L)
      /\ \/ attached /\ Active' = {FC("free", c), F("removed")}
         \/ ~attached /\ Active' = {}
  BY <1>1, <1>4, IdleFacts
<1>6. ~MultiClient /\ ConnectedTokens
  BY <1>1 DEF WritingInv, DeviceInv
<1>7. \A d \in clients : d = c
  BY <1>1, <1>3, <1>6 DEF WritingInv, DeviceInv
<1>8. DeviceInv' /\ BuffersHaveOwners'
  BY <1>1, <1>2, <1>3 DEF WritingInv, DeviceInv, BuffersHaveOwners
<1>9. F("removed").op = "removed" /\ \A f \in Active' : f.op \in {"free", "removed"}
  BY <1>5 DEF F, FC
<1>10. RemovalInv'
  <2>1. \A f \in Active' : f.op # "gone"
    BY <1>9
  <2>2. Has({"free"})' => Has({"removed", "destroy"})'
    BY <1>5, <1>9 DEF Has
  <2>3. ~Has({"reset", "reset2"})'
    BY <1>9 DEF Has
  <2> QED BY <1>5, <2>1, <2>2, <2>3 DEF RemovalInv
<1>11. MigrationInv'
  <2>1. ~Has({"gone"})'
    BY <1>9 DEF Has
  <2>2. Has({"removed"})' => FC("free", c) \in Active'
    BY <1>5 DEF Has
  <2>3. exists /\ waitMig => clients # {}
    BY <1>5 DEF WritingInv, MigrationInv
  <2>4. \A d \in clients : conn'[d] # "mig"
    BY <1>2, <1>3, <1>7
  <2> QED BY <1>1, <1>5, <1>7, <2>1, <2>2, <2>3, <2>4 DEF WritingInv, MigrationInv
<1>12. ScheduleInv'
  <2>1. ~Has({"wrote0"})'
    BY <1>9 DEF Has
  <2>2. Usable => Settled
    BY <1>5 DEF WritingInv, ScheduleInv
  <2> QED BY <1>1, <2>1, <2>2 DEF ScheduleInv, Usable, Settled
<1> QED BY <1>8, <1>10, <1>11, <1>12 DEF WritingInv

LEMMA FreeWrittenInv ==
  ASSUME ConstantsOK, TypeOK, LoopInv, WritingInv, NEW c \in Clients, FreeWritten(c)
  PROVE  WritingInv'
<1>1. /\ UNCHANGED <<exists, attached, running, waitMig, clients, cur, retry, writing, conn,
                     stack>>
  BY DEF FreeWritten, deviceVars, chanVars, writeLocals
<1>2. PICK i \in 1..Len(writeQueue) :
         writeQueue' = SubSeq(writeQueue, 1, i - 1) \o SubSeq(writeQueue, i + 1, Len(writeQueue))
  <2>1. DOMAIN writeQueue = 1..Len(writeQueue)
    BY QueuedSteps DEF TypeOK, WriteTypes
  <2> QED BY <2>1 DEF FreeWritten
<1>3. /\ writeQueue \in Seq(WriteBuf) /\ writeQueue' \in Seq(WriteBuf)
      /\ Queued(writeQueue') \subseteq Queued(writeQueue) /\ writeQueue # <<>>
  <2>1. writeQueue \in Seq(WriteBuf)
    BY DEF TypeOK, WriteTypes
  <2>2. writeQueue[i] \in Queued(writeQueue)
    BY <1>2 DEF Queued
  <2> QED BY <1>2, <2>1, <2>2, QueuedSteps
<1>4. Moves(Ops \ KeyOps, Ops \ KeyOps)
  BY <1>1, MovesSteps
<1>5. exists /\ waitMig => /\ \A b \in Queued(writeQueue') : b.origin = "client"
                           /\ \A d \in clients : conn[d] # "mig"
  BY <1>3, QueuedMeans DEF WritingInv, MigrationInv
<1>6. DeviceInv' /\ RemovalInv' /\ MigrationInv'
  BY <1>1, <1>4, <1>5, QueueOnly DEF WritingInv
<1>7. BuffersHaveOwners'
  BY <1>1, <1>3, QueuedMeans, OwnersAfter DEF WritingInv
<1>8. Active' = Active /\ \A L : Has(L)' <=> Has(L)
  BY <1>1 DEF Active, Has
<1>9. ScheduleInv'
  BY <1>1, <1>3, <1>8 DEF WritingInv, ScheduleInv, Usable, Settled
<1> QED BY <1>6, <1>7, <1>9 DEF WritingInv

LEMMA FreeEndInv ==
  ASSUME ConstantsOK, TypeOK, LoopInv, WritingInv, NEW c \in Clients, FreeEnd(c)
  PROVE  WritingInv'
<1>1. /\ UNCHANGED <<exists, attached, running, waitMig, writeQueue, retry, writing, conn>>
      /\ clients' = clients \ {c}
      /\ cur' = IF Owns(c, cur) THEN NoTokenBuf ELSE cur
      /\ \A i \in DOMAIN writeQueue : ~Owns(c, writeQueue[i])
      /\ stack # <<>> /\ Top.op = "free" /\ Top.c = c /\ Return
  BY DEF FreeEnd, deviceVars, chanVars, writeLocals, At, Top
<1>2. Moves({}, {"free"})
  BY <1>1, MovesSteps
<1>3. /\ \A f \in Active' : f \in Active
      /\ \A f \in Active : f.op # "free" => f \in Active'
      /\ Orderly(stack')
  BY <1>2, MovesFrames, MovesOrderly DEF WritingInv, RemovalInv
<1>4. \A f \in Active : f # Top => f \in Active'
  <2>1. Active = {Top} \cup Frames(Tail(stack)) /\ Active' = Frames(Tail(stack))
    BY <1>1, HasFrames, FrameSteps
  <2> QED BY <2>1
<1>5. \A d \in clients' : FC("free", d) \in Active => FC("free", d) \in Active'
  <2>1. \A d \in clients' : FC("free", d) # Top
    BY <1>1 DEF FC
  <2> QED BY <1>4, <2>1
<1>7. /\ \A L : "free" \notin L => (Has(L)' <=> Has(L))
      /\ Has({"free"})
      /\ Has({"removed", "destroy"})
  <2>1. \A L : "free" \notin L => (Has(L)' <=> Has(L))
    BY <1>3 DEF Has
  <2>2. Has({"free"})
    BY <1>1, HasFrames DEF Has
  <2> QED BY <2>1, <2>2 DEF WritingInv, RemovalInv
<1>8. cur' = NoBuf <=> cur = NoBuf
  BY <1>1 DEF Owns, NoBuf, NoTokenBuf
<1>9. DeviceInv'
  BY <1>1 DEF WritingInv, DeviceInv
<1>10. RemovalInv'
  <2>1. Has({"removed", "destroy"})' /\ (Has({"reset", "reset2"})' <=> Has({"reset", "reset2"}))
    BY <1>7
  <2> QED BY <1>1, <1>3, <1>5, <2>1 DEF WritingInv, RemovalInv
<1>11. MigrationInv'
  <2>1. /\ Has({"removed", "destroy"})' /\ (Has({"removed"})' <=> Has({"removed"}))
        /\ (Has({"gone"})' <=> Has({"gone"}))
    BY <1>7
  <2> QED BY <1>1, <1>5, <1>8, <2>1 DEF WritingInv, MigrationInv
<1>12. ScheduleInv'
  <2>1. /\ (Has(WriteFrames)' <=> Has(WriteFrames))
        /\ (Has({"wrote0"})' <=> Has({"wrote0"}))
    BY <1>7 DEF WriteFrames, WritingOps
  <2> QED BY <1>1, <1>8, <2>1 DEF WritingInv, ScheduleInv, Usable, Settled
<1>13. BuffersHaveOwners'
  BY <1>1 DEF WritingInv, BuffersHaveOwners, Owns, NoTokenBuf
<1> QED BY <1>9, <1>10, <1>11, <1>12, <1>13 DEF WritingInv

\* The wait ends with the removal of the client: nothing of it is left to write.
LEMMA RemovedEndInv ==
  ASSUME ConstantsOK, TypeOK, LoopInv, WritingInv, RemovedEnd
  PROVE  WritingInv'
<1>1. /\ UNCHANGED <<exists, attached, running, clients, cur, writeQueue, retry, writing, conn>>
      /\ ~waitMig'
      /\ stack # <<>> /\ Top.op = "removed" /\ (Become(<<F("read?")>>) \/ Return)
  BY DEF RemovedEnd, EndWait, chanVars, writeVars, writeLocals, At, Top
<1>2. Moves({"read?"}, {"removed"})
  BY <1>1, MovesSteps, OnlyFacts DEF Ops
<1>3. /\ \A f \in Active' : f.op # "read?" => f \in Active
      /\ \A f \in Active : f.op # "removed" => f \in Active'
      /\ Orderly(stack')
  BY <1>2, MovesFrames, MovesOrderly DEF WritingInv, RemovalInv
<1>4. ~Has({"free"})
  <2>1. NoneOf({"free"}, Tail(stack))
    BY <1>1, OverSteps, StackFacts DEF WritingInv, RemovalInv, Orderly, Top
  <2>2. \A f \in Frames(Tail(stack)) : f.op # "free"
    BY <2>1 DEF NoneOf, Frames
  <2> QED BY <1>1, <2>2, HasFrames DEF Has
<1>5. DeviceInv' /\ BuffersHaveOwners'
  BY <1>1 DEF WritingInv, DeviceInv, BuffersHaveOwners
<1>6. RemovalInv'
  <2>1. /\ \A f \in Active' : f.op = "gone" => f \in Active
        /\ \A d : FC("free", d) \in Active => FC("free", d) \in Active'
    BY <1>3 DEF FC
  <2>2. ~Has({"free"})' /\ (Has({"reset", "reset2"})' => Has({"reset", "reset2"}))
    BY <1>3, <1>4 DEF Has
  <2> QED BY <1>1, <1>3, <2>1, <2>2 DEF WritingInv, RemovalInv
<1>7. MigrationInv'
  BY <1>1 DEF MigrationInv
<1>8. waitMig /\ Usable' => Settled
  <2> SUFFICES ASSUME waitMig, Usable' PROVE Settled
    OBVIOUS
  <2>1. exists /\ Has({"removed"})
    BY <1>1, HasFrames DEF Usable, WritingInv, DeviceInv, Has
  <2>2. \A d \in clients : FC("free", d) \in Active
    BY <2>1 DEF WritingInv, MigrationInv
  <2>3. clients = {}
    BY <1>4, <2>2 DEF Has, FC
  <2>4. /\ cur = NoBuf
        /\ \A b \in Queued(writeQueue) : b.origin = "client" /\ b.c \in clients
    BY <2>1, QueuedMeans DEF WritingInv, MigrationInv
  <2>5. writeQueue = <<>>
    BY <2>3, <2>4, QueuedSteps DEF TypeOK, WriteTypes
  <2> QED BY <2>4, <2>5 DEF Settled
<1>9. ScheduleInv'
  <2>1. /\ (Has(WriteFrames) => Has(WriteFrames)')
        /\ (Has({"wrote0"})' => Has({"wrote0"}))
    BY <1>3 DEF Has, WriteFrames, WritingOps
  <2>2. Usable' /\ ~Has(WriteFrames)' => Settled
    BY <1>1, <1>8, <2>1 DEF WritingInv, ScheduleInv, Usable
  <2> QED BY <1>1, <2>1, <2>2 DEF WritingInv, ScheduleInv, Settled
<1> QED BY <1>5, <1>6, <1>7, <1>9 DEF WritingInv

LEMMA GoneInv ==
  ASSUME ConstantsOK, TypeOK, LoopInv, WritingInv, NEW c \in Clients, Gone(c)
  PROVE  WritingInv'
<1>1. /\ UNCHANGED <<exists, attached, running, waitMig, clients, cur, retry, writing>>
      /\ conn' = [conn EXCEPT ![c] = "none"]
      /\ stack # <<>> /\ Top.op = "gone" /\ Top.c = c
      /\ \/ writeQueue' = Append(writeQueue, NoTokenBuf) /\ Become(<<F("write?")>>)
         \/ writeQueue' = writeQueue /\ Return
  BY DEF Gone, deviceVars, writeLocals, At, Top
<1>2. \A d \in Clients : conn'[d] = IF d = c THEN "none" ELSE conn[d]
  BY <1>1 DEF TypeOK, ChanTypes
<1>3. Moves({"write?"}, {"gone"})
  BY <1>1, MovesSteps, OnlyFacts DEF Ops
<1>4. /\ \A f \in Active' : f.op # "write?" => f \in Active
      /\ \A f \in Active : f.op # "gone" => f \in Active'
      /\ Orderly(stack')
  BY <1>3, MovesFrames, MovesOrderly DEF WritingInv, RemovalInv
<1>5. ~Has({"free"}) /\ ~Has({"removed"}) /\ Has({"gone"})
  <2>1. NoneOf({"free"}, Tail(stack)) /\ NoneOf({"removed"}, Tail(stack))
    BY <1>1, OverSteps, StackFacts DEF WritingInv, RemovalInv, Orderly, Top
  <2>2. \A f \in Frames(Tail(stack)) : f.op # "free" /\ f.op # "removed"
    BY <2>1 DEF NoneOf, Frames
  <2> QED BY <1>1, <2>2, HasFrames DEF Has
<1>6. c \notin clients
  <2>1. Top \in Active
    BY <1>1, HasFrames
  <2> QED BY <1>1, <1>5, <2>1 DEF WritingInv, RemovalInv, Has, FC
<1>7. ~(exists /\ waitMig)
  BY <1>5 DEF WritingInv, MigrationInv
<1>8. DeviceInv'
  BY <1>1, <1>2, <1>6 DEF WritingInv, DeviceInv, TypeOK, DeviceTypes
<1>9. RemovalInv'
  <2>1. /\ \A f \in Active' : f.op = "gone" => f \in Active
        /\ \A d : FC("free", d) \in Active => FC("free", d) \in Active'
    BY <1>4 DEF FC
  <2>2. ~Has({"free"})' /\ (Has({"reset", "reset2"})' => Has({"reset", "reset2"}))
    BY <1>4, <1>5 DEF Has
  <2> QED BY <1>1, <1>4, <2>1, <2>2 DEF WritingInv, RemovalInv
<1>10. MigrationInv'
  BY <1>1, <1>7 DEF WritingInv, MigrationInv
<1>11. Has({"wrote0"})' => Has({"wrote0"})
  BY <1>4 DEF Has
<1>12. CASE writeQueue' = writeQueue
  <2>1. Has(WriteFrames) => Has(WriteFrames)'
    BY <1>4 DEF Has, WriteFrames, WritingOps
  <2>2. ScheduleInv' /\ BuffersHaveOwners'
    BY <1>1, <1>11, <1>12, <2>1 DEF WritingInv, ScheduleInv, Usable, Settled, BuffersHaveOwners
  <2> QED BY <1>8, <1>9, <1>10, <2>2 DEF WritingInv
<1>13. CASE writeQueue' = Append(writeQueue, NoTokenBuf) /\ Become(<<F("write?")>>)
  <2>1. <<F("write?")>> \in Seq(Frame) /\ F("write?") \in Frames(<<F("write?")>>)
    BY FrameFacts, FramesOf DEF Ops
  <2>2. F("write?") \in Active' /\ F("write?").op \in WriteFrames
    BY <1>1, <1>13, <2>1, FrameSteps DEF F, WriteFrames, WritingOps
  <2>3. ScheduleInv'
    BY <1>1, <1>11, <2>2 DEF WritingInv, ScheduleInv, Has
  <2>4. /\ writeQueue \in Seq(WriteBuf) /\ writeQueue' \in Seq(WriteBuf)
        /\ Queued(writeQueue') = Queued(writeQueue) \cup {NoTokenBuf}
    BY <1>13, WriteFacts, QueuedSteps DEF TypeOK, WriteTypes
  <2>5. BuffersHaveOwners'
    BY <1>1, <2>4, QueuedMeans, OwnersAfter DEF WritingInv, NoTokenBuf
  <2> QED BY <1>8, <1>9, <1>10, <2>3, <2>5 DEF WritingInv
<1> QED BY <1>1, <1>12, <1>13

-----------------------------------------------------------------------------
(* The device.                                                             *)

LEMMA AttachInv ==
  ASSUME ConstantsOK, TypeOK, LoopInv, WritingInv, NEW c \in Clients \cup {None},
         NEW vm \in BOOLEAN, Attach(c, vm)
  PROVE  WritingInv'
<1>1. /\ Idle /\ ~attached /\ exists' /\ attached' /\ running' = vm
      /\ UNCHANGED <<conn, writing>>
      /\ stack' = IF vm THEN <<F("start")>> ELSE <<>>
      /\ IF Waiting = {} THEN c = None ELSE c \in Waiting
  BY DEF Attach, writeLocals
<1>2. writing = 0 /\ \A L : ~Has(L)
  BY <1>1, IdleFacts
<1>3. /\ Orderly(stack') /\ (\A f \in Active' : f.op = "start")
      /\ vm => F("start") \in Active'
  <2>1. {"start"} \subseteq Ops \ {"free", "removed"} /\ {"start"} \in SUBSET Ops
    BY DEF Ops
  <2>2. stack' \in Only({"start"})
    BY <1>1, <2>1, OnlyFacts
  <2>3. Orderly(stack')
    BY <2>1, <2>2, OnlyWider, OrderlyFacts
  <2>4. Active' = IF vm THEN {F("start")} ELSE {}
    BY <1>1, FramesOf DEF Active
  <2> QED BY <2>3, <2>4 DEF F
<1>4. Waiting # {} => ConnectedTokens /\ ~MultiClient
  BY DEF Waiting, WritingInv, DeviceInv
<1>5. None \notin Clients /\ clients \subseteq Clients
  BY DEF ConstantsOK, TypeOK, DeviceTypes
<1>6. ScheduleInv'
  <2>1. F("start").op = "start"
    BY DEF F
  <2> QED BY <1>1, <1>3, <2>1 DEF ScheduleInv, Usable, Has, WriteFrames, WritingOps
<1>7. /\ ~Has({"free"})' /\ ~Has({"reset", "reset2"})' /\ ~Has({"gone"})' /\ ~Has({"removed"})'
      /\ \A f \in Active' : f.op # "gone"
  BY <1>3 DEF Has
<1>8. RemovalInv'
  BY <1>3, <1>7 DEF RemovalInv
<1>9. CASE exists
  <2>1. ~ConnectedTokens
    BY <1>1, <1>9 DEF WritingInv, DeviceInv
  <2>2. c = None
    BY <1>1, <1>4, <2>1
  <2>3. UNCHANGED <<writeQueue, cur, clients>>
    BY <1>9, <2>2 DEF Attach
  <2>4. ~waitMig'
    <3>1. waitMig' = (c \notin clients \cup {None} \/ (exists /\ waitMig))
      BY DEF Attach
    <3> QED BY <1>9, <2>1, <2>2, <3>1 DEF WritingInv, MigrationInv
  <2>5. DeviceInv' /\ MigrationInv' /\ BuffersHaveOwners'
    BY <1>1, <1>9, <2>3, <2>4 DEF WritingInv, DeviceInv, MigrationInv, BuffersHaveOwners
  <2> QED BY <1>6, <1>8, <2>5 DEF WritingInv
<1>10. CASE ~exists
  <2>1. clients = {} /\ writeQueue' = <<>> /\ cur' = NoBuf
    BY <1>10 DEF WritingInv, DeviceInv, Attach
  <2>2. waitMig' <=> c # None
    <3>1. waitMig' = (c \notin clients \cup {None} \/ (exists /\ waitMig))
      BY DEF Attach
    <3> QED BY <1>10, <2>1, <3>1
  <2>3. CASE c = None
    <3>1. clients' = {}
      BY <2>1, <2>3 DEF Attach
    <3> QED BY <1>1, <1>2, <1>6, <1>8, <2>1, <2>2, <2>3, <3>1
            DEF WritingInv, DeviceInv, MigrationInv, BuffersHaveOwners, NoBuf
  <2>4. CASE c # None
    <3>1. clients' = {c} /\ c \in Waiting
      BY <1>1, <1>5, <2>1, <2>4 DEF Attach, AddClient
    <3>2. conn[c] \in {"mig", "late"} /\ ConnectedTokens /\ ~MultiClient
      BY <1>4, <3>1 DEF Waiting
    <3>3. DeviceInv'
      BY <1>1, <3>1, <3>2 DEF WritingInv, DeviceInv
    <3>4. MigrationInv'
      <4>1. \A i \in 1..Len(writeQueue') : FALSE
        BY <2>1
      <4> QED BY <1>1, <1>2, <1>7, <2>1, <3>1, <3>2, <4>1 DEF MigrationInv
    <3>5. BuffersHaveOwners'
      BY <2>1 DEF BuffersHaveOwners, NoBuf
    <3> QED BY <1>6, <1>8, <3>3, <3>4, <3>5 DEF WritingInv
  <2> QED BY <2>3, <2>4
<1> QED BY <1>9, <1>10

LEMMA StartStopInv ==
  ASSUME ConstantsOK, TypeOK, LoopInv, WritingInv, Start \/ Stop
  PROVE  WritingInv'
<1>1. /\ UNCHANGED <<exists, attached, waitMig, clients, cur, writeQueue, conn, writing>>
      /\ Idle
      /\ \/ ~running' /\ stack' = stack
         \/ Call(<<F("start")>>)
  BY DEF Start, Stop, deviceVars, writeVars, chanVars, writeLocals
<1>2. <<F("start")>> \in Seq(Frame) /\ Frames(<<F("start")>>) = {F("start")}
  BY FrameFacts, FramesOf DEF Ops
<1>3. /\ \A L : ~Has(L)
      /\ \/ stack' = stack /\ Active' = {} /\ ~running'
         \/ stack' = <<F("start")>> /\ Active' = {F("start")}
  BY <1>1, <1>2, IdleFacts
<1>4. Orderly(stack')
  <2>1. {"start"} \subseteq Ops \ {"free", "removed"} /\ <<F("start")>> \in Only({"start"})
    BY OnlyFacts DEF Ops
  <2> QED BY <1>3, <2>1, OnlyWider, OrderlyFacts DEF WritingInv, RemovalInv
<1>5. F("start").op = "start" /\ \A f \in Active' : f.op = "start"
  BY <1>3 DEF F
<1>6. /\ ~Has({"free"})' /\ ~Has({"reset", "reset2"})' /\ ~Has({"gone"})' /\ ~Has({"removed"})'
      /\ ~Has({"wrote0"})'
  BY <1>5 DEF Has
<1>7. DeviceInv' /\ BuffersHaveOwners'
  BY <1>1 DEF WritingInv, DeviceInv, BuffersHaveOwners
<1>8. RemovalInv'
  BY <1>4, <1>5, <1>6 DEF RemovalInv
<1>9. MigrationInv'
  BY <1>1, <1>3, <1>6 DEF WritingInv, MigrationInv
<1>10. ScheduleInv'
  BY <1>3, <1>5, <1>6 DEF ScheduleInv, Usable, Has, WriteFrames, WritingOps
<1> QED BY <1>7, <1>8, <1>9, <1>10 DEF WritingInv

LEMMA DetachInv ==
  ASSUME ConstantsOK, TypeOK, LoopInv, WritingInv, Detach
  PROVE  WritingInv'
<1>1. /\ UNCHANGED <<exists, attached, clients, writing>> /\ Idle /\ attached
      /\ conn' = [d \in Clients |-> IF conn[d] = "mig" THEN "late" ELSE conn[d]]
      /\ \/ /\ writeQueue' = <<>> /\ cur' = NoBuf /\ Call(<<F("destroy")>>)
            /\ UNCHANGED <<running, waitMig>>
         \/ /\ ~running' /\ ~waitMig' /\ ~ConnectedTokens /\ Call(<<F("reset")>>)
            /\ UNCHANGED <<writeQueue, cur>>
  BY DEF Detach, writeLocals
<1>2. \A d \in Clients : conn'[d] = IF conn[d] = "mig" THEN "late" ELSE conn[d]
  BY <1>1
<1>3. /\ <<F("destroy")>> \in Seq(Frame) /\ Frames(<<F("destroy")>>) = {F("destroy")}
      /\ <<F("reset")>> \in Seq(Frame) /\ Frames(<<F("reset")>>) = {F("reset")}
  BY FrameFacts, FramesOf DEF Ops
<1>4. /\ writing = 0 /\ \A L : ~Has(L)
      /\ Call(<<F("destroy")>>) => stack' = <<F("destroy")>> /\ Active' = {F("destroy")}
      /\ Call(<<F("reset")>>) => stack' = <<F("reset")>> /\ Active' = {F("reset")}
  BY <1>1, <1>3, IdleFacts
<1>5. /\ Active' = {F("destroy")} \/ Active' = {F("reset")}
      /\ Orderly(stack')
  <2>1. /\ {"destroy", "reset"} \subseteq Ops \ {"free", "removed"}
        /\ <<F("destroy")>> \in Only({"destroy", "reset"})
        /\ <<F("reset")>> \in Only({"destroy", "reset"})
    BY OnlyFacts DEF Ops
  <2> QED BY <1>1, <1>4, <2>1, OnlyWider, OrderlyFacts
<1>6. F("destroy").op = "destroy" /\ F("reset").op = "reset"
  BY DEF F
<1>7. /\ ~Has({"free"})' /\ ~Has({"gone"})' /\ ~Has({"removed"})' /\ ~Has({"wrote0"})'
      /\ \A f \in Active' : f.op # "gone"
  BY <1>5, <1>6 DEF Has
<1>8. clients \subseteq Clients
  BY DEF TypeOK, DeviceTypes
<1>9. DeviceInv'
  BY <1>1, <1>2, <1>8 DEF WritingInv, DeviceInv
<1>10. CASE /\ writeQueue' = <<>> /\ cur' = NoBuf /\ Call(<<F("destroy")>>)
            /\ UNCHANGED <<running, waitMig>>
  <2>1. ~Has({"reset", "reset2"})'
    BY <1>4, <1>6, <1>10 DEF Has
  <2>2. RemovalInv'
    BY <1>5, <1>7, <2>1 DEF RemovalInv
  <2>3. \A i \in 1..Len(writeQueue') : FALSE
    BY <1>10
  <2>4. exists /\ waitMig => clients # {} /\ ConnectedTokens /\ ~MultiClient
    BY <1>4 DEF WritingInv, MigrationInv
  <2>5. MigrationInv'
    BY <1>1, <1>4, <1>7, <1>10, <2>3, <2>4 DEF MigrationInv
  <2>6. ScheduleInv' /\ BuffersHaveOwners'
    BY <1>7, <1>10 DEF ScheduleInv, Settled, BuffersHaveOwners, NoBuf
  <2> QED BY <1>9, <2>2, <2>5, <2>6 DEF WritingInv
<1>11. CASE /\ ~running' /\ ~waitMig' /\ ~ConnectedTokens /\ Call(<<F("reset")>>)
            /\ UNCHANGED <<writeQueue, cur>>
  <2>1. RemovalInv'
    BY <1>1, <1>4, <1>5, <1>7, <1>11 DEF RemovalInv
  <2>2. MigrationInv' /\ ScheduleInv'
    BY <1>7, <1>11 DEF MigrationInv, ScheduleInv, Usable
  <2>3. BuffersHaveOwners'
    BY <1>1, <1>11 DEF WritingInv, BuffersHaveOwners
  <2> QED BY <1>9, <2>1, <2>2, <2>3 DEF WritingInv
<1> QED BY <1>1, <1>10, <1>11

LEMMA DestroyInv ==
  ASSUME ConstantsOK, TypeOK, LoopInv, WritingInv, Destroy
  PROVE  WritingInv'
<1>1. /\ UNCHANGED <<waitMig, clients, cur, writeQueue, retry, conn, writing>>
      /\ stack # <<>> /\ Top.op = "destroy"
      /\ \/ /\ \E c \in clients : Call(<<FC("free", c)>>)
            /\ UNCHANGED <<exists, attached, running>>
         \/ clients = {} /\ ~exists' /\ ~attached' /\ ~running' /\ Return
  BY DEF Destroy, writeVars, chanVars, writeLocals, At, Top
<1>2. BuffersHaveOwners'
  BY <1>1 DEF WritingInv, BuffersHaveOwners
<1>3. Has({"destroy"}) /\ Top \in Active
  BY <1>1, HasFrames DEF Has
<1>4. CASE \E c \in clients : Call(<<FC("free", c)>>) /\ UNCHANGED <<exists, attached, running>>
  <2>1. PICK c \in clients : Call(<<FC("free", c)>>)
    BY <1>4
  <2>2. /\ c \in Clients /\ "free" \in Ops /\ stack \in Seq(Frame)
        /\ <<FC("free", c)>> \in Only({"free"}) /\ <<FC("free", c)>> \in Seq(Frame)
    BY OnlyFacts, FrameFacts, StackFacts DEF Ops, TypeOK, DeviceTypes
  <2>3. Moves({"free"}, {})
    BY <2>1, <2>2, MovesSteps
  <2>4. /\ \A f \in Active' : f.op # "free" => f \in Active
        /\ \A f \in Active : f \in Active'
        /\ Orderly(stack')
    BY <2>3, MovesFrames, MovesOrderly DEF WritingInv, RemovalInv
  <2>5. \A L : /\ Has(L) => Has(L)'
               /\ "free" \notin L => (Has(L)' => Has(L))
    BY <2>4 DEF Has
  <2>6. Has({"destroy"})' /\ Has({"removed", "destroy"})'
    <3>1. Has({"removed", "destroy"})
      BY <1>3 DEF Has
    <3> QED BY <1>3, <2>5, <3>1
  <2>7. DeviceInv'
    BY <1>1, <1>4 DEF WritingInv, DeviceInv
  <2>8. RemovalInv'
    <3>1. Has({"reset", "reset2"})' => Has({"reset", "reset2"})
      BY <2>5
    <3>2. \A f \in Active' : f.op = "gone" => f \in Active
      BY <2>4
    <3> QED BY <1>1, <1>4, <2>4, <2>6, <3>1, <3>2 DEF WritingInv, RemovalInv
  <2>9. MigrationInv'
    <3>1. (Has({"removed"})' => Has({"removed"})) /\ (Has({"gone"})' => Has({"gone"}))
          /\ (Has({"removed"}) => Has({"removed"})')
      BY <2>5
    <3> QED BY <1>1, <1>4, <2>4, <2>6, <3>1 DEF WritingInv, MigrationInv
  <2>10. ScheduleInv'
    <3>1. (Has({"wrote0"})' => Has({"wrote0"})) /\ (Has(WriteFrames) => Has(WriteFrames)')
      BY <2>5
    <3> QED BY <1>1, <1>4, <3>1 DEF WritingInv, ScheduleInv, Usable, Settled
  <2> QED BY <1>2, <2>7, <2>8, <2>9, <2>10 DEF WritingInv
<1>5. CASE clients = {} /\ ~exists' /\ ~attached' /\ ~running' /\ Return
  <2>1. Moves({}, {"destroy"})
    BY <1>1, <1>5, MovesSteps
  <2>2. /\ \A f \in Active' : f \in Active
        /\ Orderly(stack')
    BY <2>1, MovesFrames, MovesOrderly DEF WritingInv, RemovalInv
  <2>3. ~Has({"free"})'
    <3>1. NoneOf({"free"}, Tail(stack))
      BY <1>1, OverSteps, StackFacts DEF WritingInv, RemovalInv, Orderly, Top
    <3>2. Active' = Frames(Tail(stack))
      BY <1>1, <1>5, FrameSteps
    <3> QED BY <3>1, <3>2 DEF Has, NoneOf, Frames
  <2>4. /\ Has({"reset", "reset2"})' => Has({"reset", "reset2"})
        /\ Has({"wrote0"})' => Has({"wrote0"})
    BY <2>2 DEF Has
  <2>5. DeviceInv'
    BY <1>1, <1>5 DEF WritingInv, DeviceInv
  <2>6. RemovalInv'
    BY <1>1, <1>5, <2>2, <2>3, <2>4 DEF WritingInv, RemovalInv
  <2>7. MigrationInv' /\ ScheduleInv'
    BY <1>1, <1>5, <2>4 DEF WritingInv, MigrationInv, ScheduleInv, Usable
  <2> QED BY <1>2, <2>5, <2>6, <2>7 DEF WritingInv
<1> QED BY <1>1, <1>4, <1>5

LEMMA ResetReleaseInv ==
  ASSUME ConstantsOK, TypeOK, LoopInv, WritingInv, ResetRelease
  PROVE  WritingInv'
<1>1. /\ UNCHANGED <<exists, attached, running, waitMig, clients, conn>>
      /\ stack # <<>> /\ Top.op = "reset"
  BY DEF ResetRelease, deviceVars, At, Top
<1>2. /\ stack \in Seq(Frame) /\ Tail(stack) \in Seq(Frame)
      /\ <<F("reset2")>> \in Only({"flush", "reset2"})
      /\ {"flush", "reset2"} \in SUBSET Ops
      /\ <<F("reset2")>> \o Tail(stack) \in Seq(Frame)
  BY <1>1, StackFacts, OnlyFacts, FrameFacts DEF Ops
<1>3. Has({"reset", "reset2"}) /\ ~running /\ ~waitMig /\ ~ConnectedTokens /\ writing = 0
  <2>1. Has({"reset", "reset2"})
    BY <1>1, HasFrames DEF Has
  <2> QED BY <2>1 DEF WritingInv, RemovalInv
<1>4. writeQueue \in Seq(WriteBuf)
  BY DEF TypeOK, WriteTypes
<1>5. \/ /\ writeQueue # <<>> /\ cur' = cur
         /\ Release(Head(writeQueue), Tail(writeQueue), stack)
      \/ /\ cur' = NoBuf
         /\ Release(cur, writeQueue, <<F("reset2")>> \o Tail(stack))
      \/ /\ UNCHANGED <<cur, writeQueue, writing>> /\ Become(<<F("reset2")>>)
  BY DEF ResetRelease
<1>6. /\ Moves({"flush", "reset2"}, {"reset"}) /\ writing' = 0 /\ BuffersHaveOwners'
  <2>0. \A b \in Queued(writeQueue) : b.origin = "client" => b.c \in clients
    BY QueuedMeans DEF WritingInv
  <2>1. CASE /\ writeQueue # <<>> /\ cur' = cur
             /\ Release(Head(writeQueue), Tail(writeQueue), stack)
    <3>1. \E fs \in Only({"flush", "reset2"}) : stack' = fs \o stack
      BY <1>2, <2>1, ReleaseOver
    <3>2. Tail(writeQueue) \in Seq(WriteBuf) /\ Queued(Tail(writeQueue)) \subseteq Queued(writeQueue)
      BY <1>4, <2>1, QueuedSteps
    <3>3. /\ writeQueue' = Tail(writeQueue) \/ writeQueue' = Append(Tail(writeQueue), ServerBuf)
          /\ \A b \in Queued(writeQueue') : b \in Queued(Tail(writeQueue)) \/ b.origin # "client"
          /\ writing' # 0 => writing # 0
      BY <2>1, <3>2, ReleaseQueue
    <3>4. writeQueue' \in Seq(WriteBuf)
      BY <3>2, <3>3, WriteFacts
    <3>5. BuffersHaveOwners'
      BY <1>1, <2>0, <2>1, <3>2, <3>3, <3>4, OwnersAfter DEF WritingInv, BuffersHaveOwners
    <3> QED BY <1>3, <3>1, <3>3, <3>5 DEF Moves
  <2>2. CASE cur' = NoBuf /\ Release(cur, writeQueue, <<F("reset2")>> \o Tail(stack))
    <3>1. \E fs \in Only({"flush", "reset2"}) : stack' = fs \o (<<F("reset2")>> \o Tail(stack))
      BY <1>2, <2>2, ReleaseOver
    <3>2. Moves({"flush", "reset2"}, {"reset"})
      BY <1>1, <1>2, <3>1, MovesOver
    <3>3. /\ writeQueue' = writeQueue \/ writeQueue' = Append(writeQueue, ServerBuf)
          /\ \A b \in Queued(writeQueue') : b \in Queued(writeQueue) \/ b.origin # "client"
          /\ writing' # 0 => writing # 0
      BY <1>4, <2>2, ReleaseQueue
    <3>4. writeQueue' \in Seq(WriteBuf)
      BY <1>4, <3>3, WriteFacts
    <3>5. BuffersHaveOwners'
      BY <1>1, <2>0, <2>2, <3>3, <3>4, OwnersAfter DEF NoBuf
    <3> QED BY <1>3, <3>2, <3>3, <3>5
  <2>3. CASE UNCHANGED <<cur, writeQueue, writing>> /\ Become(<<F("reset2")>>)
    <3>1. Moves({"flush", "reset2"}, {"reset"})
      BY <1>1, <1>2, <2>3, MovesSteps
    <3> QED BY <1>1, <1>3, <2>3, <3>1 DEF WritingInv, BuffersHaveOwners
  <2> QED BY <1>5, <2>1, <2>2, <2>3
<1>7. /\ \A f \in Active' : f.op \notin {"flush", "reset2"} => f \in Active
      /\ \A f \in Active : f.op # "reset" => f \in Active'
      /\ Orderly(stack')
  BY <1>6, MovesFrames, MovesOrderly DEF WritingInv, RemovalInv
<1>8. DeviceInv'
  BY <1>1 DEF WritingInv, DeviceInv
<1>9. RemovalInv'
  <2>1. /\ \A f \in Active' : f.op = "gone" => f \in Active
        /\ \A d : FC("free", d) \in Active => FC("free", d) \in Active'
    BY <1>7 DEF FC
  <2>2. /\ Has({"free"})' => Has({"free"})
        /\ Has({"removed", "destroy"}) => Has({"removed", "destroy"})'
    BY <1>7 DEF Has
  <2> QED BY <1>1, <1>3, <1>6, <1>7, <2>1, <2>2 DEF WritingInv, RemovalInv
<1>10. MigrationInv'
  BY <1>1, <1>3 DEF MigrationInv
<1>11. ScheduleInv'
  <2>1. ~Has({"wrote0"})
    BY <1>3, HasFrames DEF LoopInv, Guarded, Has, NoneOf, WriteOps, Active, Frames
  <2>2. ~Has({"wrote0"})'
    BY <1>7, <2>1 DEF Has
  <2> QED BY <1>1, <1>3, <2>2 DEF ScheduleInv, Usable
<1> QED BY <1>6, <1>8, <1>9, <1>10, <1>11 DEF WritingInv

LEMMA ResetQueuesInv ==
  ASSUME ConstantsOK, TypeOK, LoopInv, WritingInv, ResetQueues
  PROVE  WritingInv'
<1>1. /\ UNCHANGED <<exists, running, waitMig, clients, cur, writeQueue, conn, writing>>
      /\ ~attached' /\ stack # <<>> /\ Top.op = "reset2" /\ Return
  BY DEF ResetQueues, writeVars, chanVars, writeLocals, At, Top
<1>2. Moves({}, {"reset2"})
  BY <1>1, MovesSteps
<1>3. /\ \A f \in Active' : f \in Active
      /\ \A f \in Active : f.op # "reset2" => f \in Active'
      /\ Orderly(stack')
  BY <1>2, MovesFrames, MovesOrderly DEF WritingInv, RemovalInv
<1>4. Has({"reset", "reset2"}) /\ ~running /\ ~waitMig /\ ~ConnectedTokens /\ writing = 0
  <2>1. Has({"reset", "reset2"})
    BY <1>1, HasFrames DEF Has
  <2> QED BY <2>1 DEF WritingInv, RemovalInv
<1>5. DeviceInv' /\ BuffersHaveOwners'
  BY <1>1, <1>4 DEF WritingInv, DeviceInv, BuffersHaveOwners
<1>6. RemovalInv'
  <2>1. \A d : FC("free", d) \in Active => FC("free", d) \in Active'
    BY <1>3 DEF FC
  <2>2. /\ Has({"free"})' => Has({"free"})
        /\ Has({"removed", "destroy"}) => Has({"removed", "destroy"})'
    BY <1>3 DEF Has
  <2> QED BY <1>1, <1>3, <1>4, <2>1, <2>2 DEF WritingInv, RemovalInv
<1>7. MigrationInv'
  BY <1>1, <1>4 DEF MigrationInv
<1>8. ScheduleInv'
  <2>1. Has({"wrote0"})' => Has({"wrote0"})
    BY <1>3 DEF Has
  <2> QED BY <1>1, <2>1 DEF WritingInv, ScheduleInv, Usable
<1> QED BY <1>5, <1>6, <1>7, <1>8 DEF WritingInv

\* The migration data arrives.
LEMMA MigratedInv ==
  ASSUME ConstantsOK, TypeOK, LoopInv, WritingInv, Migrated
  PROVE  WritingInv'
<1>1. PICK c \in Clients, n, w \in 0..Window, t \in 0..MaxSend, data \in BOOLEAN :
         Restore(c, n, w, t, data)
  BY DEF Migrated
<1>2. /\ UNCHANGED <<exists, attached, running, clients, writeQueue, writing>>
      /\ conn' = [conn EXCEPT ![c] = "open"] /\ conn[c] = "mig"
      /\ cur' \in {ClientBuf(c, w), ServerBuf, NoBuf}
      /\ clients = {c} /\ writeQueue = <<>> /\ ~waitMig'
      /\ Idle /\ Call(Wakeup)
  BY <1>1 DEF Restore, writeLocals
<1>3. \A d \in Clients : conn'[d] = IF d = c THEN "open" ELSE conn[d]
  BY <1>2 DEF TypeOK, ChanTypes
<1>4. /\ stack' = Wakeup /\ Active' = {F("write?"), F("read?")} /\ writing = 0
  BY <1>2, IdleFacts, FrameFacts, FramesOf DEF Wakeup
<1>5. Orderly(stack')
  <2>1. Wakeup \in Only(WakeOps) /\ WakeOps \subseteq Ops \ {"free", "removed"}
    BY OnlyFacts DEF Ops, WakeOps
  <2> QED BY <1>4, <2>1, OnlyWider, OrderlyFacts
<1>6. DeviceInv'
  BY <1>2, <1>3 DEF WritingInv, DeviceInv
<1>7. RemovalInv' /\ MigrationInv' /\ ScheduleInv'
  BY <1>2, <1>4, <1>5 DEF RemovalInv, MigrationInv, ScheduleInv, Has, F, FC, WriteFrames,
                          WritingOps
<1>8. BuffersHaveOwners'
  BY <1>2 DEF BuffersHaveOwners, ClientBuf, ServerBuf, NoBuf
<1> QED BY <1>6, <1>7, <1>8 DEF WritingInv

-----------------------------------------------------------------------------
(* The theorems.                                                           *)

LEMMA CalmInv ==
  ASSUME TypeOK, WritingInv, Calm, Lazy
  PROVE  WritingInv'
BY CalmKeeps, LazyKeeps DEF WritingInv

LEMMA WritingInit ==
  ASSUME Init
  PROVE  WritingInv
<1>1. /\ ~exists /\ ~attached /\ ~running /\ ~waitMig /\ clients = {} /\ stack = <<>>
      /\ writeQueue = <<>> /\ cur = NoBuf /\ writing = 0
  BY DEF Init
<1>2. Active = {}
  BY <1>1 DEF Active, Frames
<1>3. \A L : ~Has(L)
  BY <1>2 DEF Has
<1>4. DeviceInv
  <2>1. CASE conn = [c \in Clients |-> "none"]
    BY <1>1, <2>1 DEF DeviceInv
  <2>2. ASSUME ~MultiClient, ConnectedTokens, NEW m \in Clients,
               conn = [c \in Clients |-> IF c = m THEN "mig" ELSE "none"]
        PROVE  DeviceInv
    BY <1>1, <2>2 DEF DeviceInv
  <2> QED BY <2>1, <2>2 DEF Init
<1>5. RemovalInv
  BY <1>1, <1>2, <1>3 DEF RemovalInv, Orderly, NoOver
<1>6. MigrationInv
  BY <1>1, <1>3 DEF MigrationInv
<1>7. ScheduleInv
  BY <1>1, <1>3 DEF ScheduleInv, Usable
<1>8. BuffersHaveOwners
  BY <1>1 DEF BuffersHaveOwners, NoBuf
<1> QED BY <1>4, <1>5, <1>6, <1>7, <1>8 DEF WritingInv

LEMMA WritingNext ==
  ASSUME ConstantsOK, TypeOK, LoopInv, WritingInv, [Next]_vars
  PROVE  WritingInv'
<1>1. CASE Reading
  BY <1>1, ReadingCalm, CalmInv
<1>2. CASE \/ WriteRefused \/ WriteNested \/ WriteBegin \/ WriteAgain \/ WriteEnd
           \/ WriteRetry \/ StartLoop
  <2>1. Calm /\ ScheduleInv'
    BY <1>2, TurnsCalm, TurnsSchedule DEF WritingInv
  <2> QED BY <2>1, CalmKeeps DEF WritingInv
<1>3. CASE WriteAll \/ WritePart \/ WriteNone
  <2>1. PICK op \in WriteOps : WriteSome(op)
    BY <1>3 DEF WriteOps, WriteAll, WritePart, WriteNone
  <2> QED BY <1>3, <2>1, WriteSomeInv
<1>4. CASE \E c \in Clients : Channel(c) \/ Pushing(c) \/ Writable(c) \/ PeerCloses(c)
                \/ WaitTimeout(c) \/ \E n \in 0..MaxSend : TokensSet(c, n) \/ TokensAdd(c, n)
  BY <1>4, ChannelCalm, PushingCalm, CalmInv
<1>5. CASE \E c \in Clients : Removing(c)
  <2>1. PICK c \in Clients : FreeQueued(c) \/ FreeWritten(c) \/ FreeEnd(c) \/ Gone(c)
    BY <1>5 DEF Removing
  <2>2. CASE FreeQueued(c)
    BY <2>2, FreeQueuedCalm, CalmInv
  <2> QED BY <2>1, <2>2, FreeWrittenInv, FreeEndInv, GoneInv
<1>6. CASE \/ GuestWrites
           \/ \E c \in Clients : BufGet(c) \/ BufStale(c) \/ BufGiveBack(c) \/ RestoreLate(c)
  BY <1>6, EventsCalm, CalmInv
<1>7. CASE MouseEvent \/ \E c \in Clients : BufAdd(c)
  BY <1>7, BufAddInv
<1>8. CASE \E c \in Clients : Connect(c) \/ ClientDisconnect(c) \/ RestoreNone(c)
                \/ \E n \in 0..MaxSend : ClientAdd(c, n)
  BY <1>8, ConnectInv, DisconnectInv, RestoreNoneInv, ClientAddInv
<1>9. CASE \E c \in Clients \cup {None}, vm \in BOOLEAN : Attach(c, vm)
  BY <1>9, AttachInv
<1>10. CASE Start \/ Stop \/ Detach \/ Destroy \/ RemovedEnd
  BY <1>10, StartStopInv, DetachInv, DestroyInv, RemovedEndInv
<1>11. CASE WriteRelease \/ ResetRelease \/ ResetQueues \/ Migrated
  BY <1>11, WriteReleaseInv, ResetReleaseInv, ResetQueuesInv, MigratedInv
<1>12. CASE UNCHANGED vars
  BY <1>12 DEF vars, deviceVars, writeVars, chanVars, writeLocals, WritingInv, DeviceInv,
       RemovalInv, MigrationInv, ScheduleInv, BuffersHaveOwners, Settled, Usable, Orderly,
       Has, Active
<1>13. CASE Running
  BY <1>1, <1>2, <1>3, <1>4, <1>5, <1>10, <1>11, <1>13 DEF Running, Writing
<1>14. CASE FromVM
  BY <1>6, <1>7, <1>9, <1>10, <1>14 DEF FromVM
<1>15. CASE \E c \in Clients : FromClient(c) \/ FromServer(c)
  BY <1>4, <1>6, <1>7, <1>8, <1>15 DEF FromClient, FromServer
<1> QED BY <1>2, <1>11, <1>12, <1>13, <1>14, <1>15 DEF Next

\* What the device knows of its clients and of its writing, in every state.
THEOREM WritingAlways == Spec => []WritingInv
<1>1. Init => WritingInv
  BY WritingInit
<1>2. TypeOK /\ LoopInv /\ WritingInv /\ [Next]_vars => WritingInv'
  BY WritingNext, ConstantsOK
<1> QED BY <1>1, <1>2, TypeCorrect, LoopsGuarded, PTL DEF Spec

\* A buffer of a client that waits to be written, or is being written, belongs to a
\* client that is attached, however clients come and go and are removed: the
\* spice_assert of spice_char_device_write_buffer_release never fails.
THEOREM OwnersAlways == Spec => []BuffersHaveOwners
<1>1. WritingInv => BuffersHaveOwners
  BY DEF WritingInv
<1> QED BY <1>1, WritingAlways, PTL

LEMMA SettledAtRest ==
  ASSUME TypeOK, LoopInv, WritingInv
  PROVE  WriteScheduled
<1>1. Idle => ~Has(WriteFrames)
  BY IdleFacts
<1> QED BY <1>1 DEF WritingInv, ScheduleInv, Settled, WriteScheduled

\* What is to be written is being written: whenever the device is at rest and can be
\* written to, nothing waits, or the device will call back, or the retry timer runs.
THEOREM ScheduledAlways == Spec => []WriteScheduled
  BY SettledAtRest, WritingAlways, LoopsGuarded, TypeCorrect, PTL

LEMMA OneClient ==
  ASSUME ConstantsOK, TypeOK, LoopInv, WritingInv
  PROVE  WaitsForOneClient
<1> SUFFICES ASSUME Idle, exists, waitMig
             PROVE  /\ attached /\ Cardinality(clients) = 1
                    /\ \A c \in clients : conn[c] = "mig" => writeQueue = <<>> /\ cur = NoBuf
  BY DEF WaitsForOneClient
<1>1. \A L : ~Has(L)
  BY IdleFacts
<1>2. /\ ConnectedTokens /\ ~MultiClient /\ cur = NoBuf /\ clients # {}
      /\ \A c \in clients : conn[c] = "mig" => writeQueue = <<>>
  BY <1>1 DEF WritingInv, MigrationInv
<1>3. attached /\ \A c, d \in clients : c = d
  BY <1>2 DEF WritingInv, DeviceInv, TypeOK, DeviceTypes
<1>4. PICK c : c \in clients
  BY <1>2
<1>5. Cardinality({c}) = 1
  BY FS_Singleton
<1>6. clients = {c}
  BY <1>3, <1>4
<1> QED BY <1>2, <1>3, <1>5, <1>6

\* A device waits for migration data only for its one client, which is attached, and
\* nothing is written to it before the data comes: the spice_asserts of
\* spice_char_device_client_remove and spice_char_device_state_restore never fail.
THEOREM WaitsAlways == Spec => []WaitsForOneClient
<1>1. TypeOK /\ LoopInv /\ WritingInv => WaitsForOneClient
  BY OneClient, ConstantsOK
<1> QED BY <1>1, WritingAlways, LoopsGuarded, TypeCorrect, PTL

-----------------------------------------------------------------------------
(* The server's own tokens.                                                *)

ServerBufs == {b \in WriteBuf : b.origin = "server"}
One(buf)   == IF buf.origin = "server" THEN 1 ELSE 0

\* All of them: those at hand, and those of the buffers in the queue and being written.
SelfSum == selfTokens + Count(writeQueue, ServerBufs) + One(cur)

SelfInv == exists /\ ~Has({"destroy"}) => SelfSum = SelfTokens

\* The step keeps the sum, the device and its end, if that has begun.
SelfKept ==
  /\ SelfSum' = SelfSum /\ exists' = exists
  /\ Has({"destroy"}) => Has({"destroy"})'

LEMMA SelfKeeps ==
  ASSUME SelfInv, SelfKept
  PROVE  SelfInv'
BY DEF SelfInv, SelfKept

LEMMA ServerCounts ==
  /\ \A b \in WriteBuf \cup {NoBuf} : One(b) \in {0, 1}
  /\ One(NoBuf) = 0 /\ One(NoTokenBuf) = 0 /\ One(ServerBuf) = 1
  /\ \A c, n : One(ClientBuf(c, n)) = 0
  /\ Count(<<>>, ServerBufs) = 0
  /\ \A q \in Seq(WriteBuf) : Count(q, ServerBufs) \in Nat
  /\ \A q \in Seq(WriteBuf), b \in WriteBuf :
        Count(Append(q, b), ServerBufs) = Count(q, ServerBufs) + One(b)
  /\ \A q \in Seq(WriteBuf) : q # <<>> =>
        Count(q, ServerBufs) = Count(Tail(q), ServerBufs) + One(Head(q))
  /\ \A q \in Seq(WriteBuf) : \A i \in 1..Len(q) :
        Count(q, ServerBufs)
          = Count(SubSeq(q, 1, i - 1) \o SubSeq(q, i + 1, Len(q)), ServerBufs) + One(q[i])
<1>1. \A b \in WriteBuf : One(b) = IF b \in ServerBufs THEN 1 ELSE 0
  BY DEF One, ServerBufs
<1>2. /\ \A b \in WriteBuf \cup {NoBuf} : One(b) \in {0, 1}
      /\ One(NoBuf) = 0 /\ One(NoTokenBuf) = 0 /\ One(ServerBuf) = 1
      /\ \A c, n : One(ClientBuf(c, n)) = 0
  BY DEF One, NoBuf, NoTokenBuf, ServerBuf, ClientBuf
<1>3. /\ Count(<<>>, ServerBufs) = 0
      /\ \A q \in Seq(WriteBuf) : Count(q, ServerBufs) \in Nat
  BY CountSteps, CountTypes
<1>4. ASSUME NEW q \in Seq(WriteBuf), NEW b \in WriteBuf
      PROVE  Count(Append(q, b), ServerBufs) = Count(q, ServerBufs) + One(b)
  <2>1. Count(Append(q, b), ServerBufs)
          = Count(q, ServerBufs) + (IF b \in ServerBufs THEN 1 ELSE 0)
    BY CountSteps
  <2> QED BY <1>1, <2>1
<1>5. ASSUME NEW q \in Seq(WriteBuf), q # <<>>
      PROVE  Count(q, ServerBufs) = Count(Tail(q), ServerBufs) + One(Head(q))
  <2>0. \A r \in Seq(WriteBuf) : r # <<>> =>
          Count(r, ServerBufs) = Count(Tail(r), ServerBufs) + (IF Head(r) \in ServerBufs THEN 1 ELSE 0)
    BY CountSteps
  <2>1. Count(q, ServerBufs)
          = Count(Tail(q), ServerBufs) + (IF Head(q) \in ServerBufs THEN 1 ELSE 0)
    BY <1>5, <2>0
  <2>2. Head(q) \in WriteBuf
    BY <1>5, WriteFacts
  <2> QED BY <1>1, <2>1, <2>2
<1>6. ASSUME NEW q \in Seq(WriteBuf), NEW i \in 1..Len(q)
      PROVE  Count(q, ServerBufs)
          = Count(SubSeq(q, 1, i - 1) \o SubSeq(q, i + 1, Len(q)), ServerBufs) + One(q[i])
  <2>1. q[i] \in WriteBuf
    BY ElementOfSeq
  <2> QED BY <1>1, <2>1, CountRemove
<1> QED BY <1>2, <1>3, <1>4, <1>5, <1>6

\* The terms of the sum are numbers.
LEMMA SelfTypes ==
  ASSUME TypeOK
  PROVE  /\ writeQueue \in Seq(WriteBuf) /\ cur \in WriteBuf \cup {NoBuf}
         /\ selfTokens \in Int /\ Count(writeQueue, ServerBufs) \in Nat /\ One(cur) \in {0, 1}
BY ServerCounts DEF TypeOK, WriteTypes

\* A released buffer brings its token back, or writes the next mouse event with it.
LEMMA ReleaseSelf ==
  ASSUME TypeOK, NEW buf \in WriteBuf, NEW q \in Seq(WriteBuf), NEW rest, Release(buf, q, rest)
  PROVE  selfTokens' + Count(writeQueue', ServerBufs)
            = selfTokens + Count(q, ServerBufs) + One(buf)
<1>1. selfTokens \in Int /\ Count(q, ServerBufs) \in Nat
  BY SelfTypes, ServerCounts
<1>2. CASE MouseAgain(buf)
  <2>1. buf.origin = "server" /\ writeQueue' = Append(q, ServerBuf) /\ selfTokens' = selfTokens
    BY <1>2 DEF Release, MouseAgain
  <2>2. Count(writeQueue', ServerBufs) = Count(q, ServerBufs) + 1
    BY <2>1, ServerCounts, WriteFacts
  <2> QED BY <1>1, <2>1, <2>2 DEF One
<1>3. CASE ~MouseAgain(buf)
  <2>1. /\ writeQueue' = q
        /\ selfTokens' = IF buf.origin = "server" THEN selfTokens + 1 ELSE selfTokens
    BY <1>3 DEF Release
  <2> QED BY <1>1, <2>1 DEF One
<1> QED BY <1>2, <1>3

LEMMA ResetMoves ==
  ASSUME TypeOK, ResetRelease
  PROVE  Moves({"flush", "reset2"}, {"reset"})
<1>1. stack # <<>> /\ Top.op = "reset"
  BY DEF ResetRelease, At, Top
<1>2. /\ stack \in Seq(Frame) /\ Tail(stack) \in Seq(Frame)
      /\ <<F("reset2")>> \in Only({"flush", "reset2"})
      /\ {"flush", "reset2"} \in SUBSET Ops
      /\ <<F("reset2")>> \o Tail(stack) \in Seq(Frame)
  BY <1>1, StackFacts, OnlyFacts, FrameFacts DEF Ops
<1>3. \/ \E buf, q : Release(buf, q, stack)
      \/ \E buf, q : Release(buf, q, <<F("reset2")>> \o Tail(stack))
      \/ Become(<<F("reset2")>>)
  BY DEF ResetRelease
<1>4. CASE \E buf, q : Release(buf, q, stack)
  <2>1. \E fs \in Only({"flush", "reset2"}) : stack' = fs \o stack
    BY <1>2, <1>4, ReleaseOver
  <2> QED BY <2>1 DEF Moves
<1>5. CASE \E buf, q : Release(buf, q, <<F("reset2")>> \o Tail(stack))
  <2>1. \E fs \in Only({"flush", "reset2"}) : stack' = fs \o (<<F("reset2")>> \o Tail(stack))
    BY <1>2, <1>5, ReleaseOver
  <2> QED BY <1>1, <1>2, <2>1, MovesOver
<1>6. CASE Become(<<F("reset2")>>)
  BY <1>1, <1>2, <1>6, MovesSteps
<1> QED BY <1>3, <1>4, <1>5, <1>6

\* A step that takes nothing but the frames T away, none of them of the device's end.
LEMMA EndKept ==
  ASSUME TypeOK, NEW A, NEW T, Moves(A, T), "destroy" \notin T
  PROVE  Has({"destroy"}) => Has({"destroy"})'
BY MovesFrames DEF Has

LEMMA CalmSelf ==
  ASSUME TypeOK, Calm, selfTokens' = selfTokens
  PROVE  SelfKept
<1>1. Has({"destroy"}) => Has({"destroy"})'
  <2>1. Moves(Ops \ KeyOps, Ops \ KeyOps) /\ "destroy" \notin Ops \ KeyOps
    BY DEF Calm, KeyOps
  <2> QED BY <2>1, EndKept
<1> QED BY <1>1 DEF Calm, SelfKept, SelfSum

LEMMA WriteSelf ==
  ASSUME ConstantsOK, TypeOK, WriteAll \/ WritePart \/ WriteNone \/ WriteRelease
  PROVE  SelfKept
<1>1. exists' = exists
  BY DEF WriteAll, WritePart, WriteNone, WriteSome, WriteRelease, deviceVars
<1>2. Has({"destroy"}) => Has({"destroy"})'
  <2>1. Moves(WakeOps \cup WritingOps \cup {"flush"}, WritingOps) /\ "destroy" \notin WritingOps
    BY WritingMoves DEF Writing, WritingOps
  <2> QED BY <2>1, EndKept
<1>3. SelfSum' = SelfSum
  <2>1. CASE \E op : WriteSome(op)
    <3>1. /\ cur' = IF cur = NoBuf THEN Head(writeQueue) ELSE cur
          /\ writeQueue' = IF cur = NoBuf THEN Tail(writeQueue) ELSE writeQueue
          /\ cur # NoBuf \/ writeQueue # <<>>
          /\ selfTokens' = selfTokens
      BY <2>1 DEF WriteSome, MayWrite
    <3>2. CASE cur = NoBuf
      <4>1. Head(writeQueue) \in WriteBuf /\ Tail(writeQueue) \in Seq(WriteBuf)
        BY <3>1, <3>2, SelfTypes, WriteFacts
      <4>2. One(Head(writeQueue)) \in {0, 1} /\ Count(Tail(writeQueue), ServerBufs) \in Nat
        BY <4>1, ServerCounts
      <4>3. Count(writeQueue, ServerBufs)
              = Count(Tail(writeQueue), ServerBufs) + One(Head(writeQueue))
        BY <3>1, <3>2, SelfTypes, ServerCounts
      <4> QED BY <3>1, <3>2, <4>2, <4>3, SelfTypes, ServerCounts DEF SelfSum
    <3>3. CASE cur # NoBuf
      BY <3>1, <3>3 DEF SelfSum
    <3> QED BY <3>2, <3>3
  <2>2. CASE WriteRelease
    <3>1. cur' = NoBuf /\ Release(cur, writeQueue, <<F("write")>> \o Tail(stack))
      BY <2>2 DEF WriteRelease
    <3>2. CASE cur \in WriteBuf
      <4>1. selfTokens' + Count(writeQueue', ServerBufs)
              = selfTokens + Count(writeQueue, ServerBufs) + One(cur)
        BY <3>1, <3>2, SelfTypes, ReleaseSelf
      <4>2. SelfSum' = (selfTokens' + Count(writeQueue', ServerBufs)) + 0
        BY <3>1, ServerCounts DEF SelfSum
      <4>3. selfTokens + Count(writeQueue, ServerBufs) + One(cur) \in Int
        BY SelfTypes
      <4> QED BY <4>1, <4>2, <4>3 DEF SelfSum
    <3>3. CASE cur = NoBuf
      <4>1. writeQueue' = writeQueue /\ selfTokens' = selfTokens
        BY <3>1, <3>3, ReleasePlain DEF NoBuf
      <4> QED BY <3>1, <3>3, <4>1 DEF SelfSum
    <3> QED BY <3>2, <3>3, SelfTypes
  <2> QED BY <2>1, <2>2 DEF WriteAll, WritePart, WriteNone
<1> QED BY <1>1, <1>2, <1>3 DEF SelfKept

LEMMA RemovingSelf ==
  ASSUME ConstantsOK, TypeOK, RemovedEnd \/ \E c \in Clients : FreeWritten(c) \/ FreeEnd(c) \/ Gone(c)
  PROVE  SelfKept
<1>1. exists' = exists /\ selfTokens' = selfTokens
  BY DEF RemovedEnd, FreeWritten, FreeEnd, Gone, deviceVars, writeVars
<1>2. Has({"destroy"}) => Has({"destroy"})'
  <2>1. Moves({"read?", "write?"}, {"removed", "free", "gone"})
    <3>1. /\ {"read?", "write?"} \in SUBSET Ops
          /\ <<F("read?")>> \in Only({"read?", "write?"})
          /\ <<F("write?")>> \in Only({"read?", "write?"})
      BY OnlyFacts DEF Ops
    <3>2. CASE RemovedEnd
      <4>1. stack # <<>> /\ Top.op = "removed" /\ (Become(<<F("read?")>>) \/ Return)
        BY <3>2 DEF RemovedEnd, At, Top
      <4> QED BY <3>1, <4>1, MovesSteps
    <3>3. CASE \E c \in Clients : FreeWritten(c)
      <4>1. stack' = stack
        BY <3>3 DEF FreeWritten
      <4> QED BY <3>1, <4>1, MovesSteps
    <3>4. CASE \E c \in Clients : FreeEnd(c) \/ Gone(c)
      <4>1. stack # <<>> /\ Top.op \in {"free", "gone"} /\ (Become(<<F("write?")>>) \/ Return)
        BY <3>4 DEF FreeEnd, Gone, At, Top
      <4> QED BY <3>1, <4>1, MovesSteps
    <3> QED BY <3>2, <3>3, <3>4
  <2> QED BY <2>1, EndKept
<1>3. SelfSum' = SelfSum
  <2>1. CASE RemovedEnd
    BY <2>1 DEF RemovedEnd, writeVars, SelfSum
  <2>2. CASE \E c \in Clients : FreeWritten(c)
    <3>1. PICK c \in Clients, i \in 1..Len(writeQueue) :
            /\ writeQueue[i].origin = "client"
            /\ writeQueue' = SubSeq(writeQueue, 1, i - 1)
                               \o SubSeq(writeQueue, i + 1, Len(writeQueue))
      BY <2>2, SelfTypes, LenProperties DEF FreeWritten, Owns
    <3>2. One(writeQueue[i]) = 0
      BY <3>1 DEF One
    <3>3. Count(writeQueue, ServerBufs)
            = Count(SubSeq(writeQueue, 1, i - 1)
                      \o SubSeq(writeQueue, i + 1, Len(writeQueue)), ServerBufs) + One(writeQueue[i])
      BY SelfTypes, ServerCounts
    <3>4. Count(SubSeq(writeQueue, 1, i - 1)
                  \o SubSeq(writeQueue, i + 1, Len(writeQueue)), ServerBufs) \in Nat
      BY SelfTypes, QueuedSteps, ServerCounts
    <3>5. Count(writeQueue', ServerBufs) = Count(writeQueue, ServerBufs)
      BY <3>1, <3>2, <3>3, <3>4
    <3>6. cur' = cur
      BY <2>2 DEF FreeWritten
    <3> QED BY <1>1, <3>5, <3>6 DEF SelfSum
  <2>3. CASE \E c \in Clients : FreeEnd(c)
    <3>1. writeQueue' = writeQueue /\ (cur' = cur \/ (cur.origin = "client" /\ cur' = NoTokenBuf))
      BY <2>3 DEF FreeEnd, Owns
    <3>2. One(cur') = One(cur)
      BY <3>1 DEF One, NoTokenBuf
    <3> QED BY <1>1, <3>1, <3>2 DEF SelfSum
  <2>4. CASE \E c \in Clients : Gone(c)
    <3>1. /\ cur' = cur
          /\ writeQueue' = Append(writeQueue, NoTokenBuf) \/ writeQueue' = writeQueue
      BY <2>4 DEF Gone
    <3>2. Count(Append(writeQueue, NoTokenBuf), ServerBufs)
            = Count(writeQueue, ServerBufs) + One(NoTokenBuf)
      BY SelfTypes, ServerCounts, WriteFacts
    <3>3. Count(writeQueue', ServerBufs) = Count(writeQueue, ServerBufs)
      <4>1. Count(writeQueue, ServerBufs) \in Nat
        BY SelfTypes
      <4>2. Count(Append(writeQueue, NoTokenBuf), ServerBufs) = Count(writeQueue, ServerBufs)
        BY <3>2, <4>1, ServerCounts
      <4> QED BY <3>1, <4>2
    <3> QED BY <1>1, <3>1, <3>3 DEF SelfSum
  <2> QED BY <2>1, <2>2, <2>3, <2>4
<1> QED BY <1>1, <1>2, <1>3 DEF SelfKept

LEMMA ResetSelf ==
  ASSUME ConstantsOK, TypeOK, ResetRelease \/ ResetQueues
  PROVE  SelfKept
<1>1. exists' = exists
  BY DEF ResetRelease, ResetQueues, deviceVars
<1>2. CASE ResetQueues
  <2>1. Moves({}, {"reset2"})
    <3>1. stack # <<>> /\ Top.op = "reset2" /\ Return
      BY <1>2 DEF ResetQueues, At, Top
    <3> QED BY <3>1, MovesSteps
  <2> QED BY <1>1, <1>2, <2>1, EndKept DEF ResetQueues, SelfKept, SelfSum, writeVars
<1>3. CASE ResetRelease
  <2>1. Has({"destroy"}) => Has({"destroy"})'
    BY <1>3, ResetMoves, EndKept
  <2>2. \/ /\ writeQueue # <<>> /\ cur' = cur
           /\ Release(Head(writeQueue), Tail(writeQueue), stack)
        \/ /\ cur # NoBuf /\ cur' = NoBuf
           /\ Release(cur, writeQueue, <<F("reset2")>> \o Tail(stack))
        \/ UNCHANGED <<cur, writeQueue, selfTokens>>
    BY <1>3 DEF ResetRelease
  <2>3. CASE /\ writeQueue # <<>> /\ cur' = cur
             /\ Release(Head(writeQueue), Tail(writeQueue), stack)
    <3>1. Head(writeQueue) \in WriteBuf /\ Tail(writeQueue) \in Seq(WriteBuf)
      BY <2>3, SelfTypes, WriteFacts
    <3>2. selfTokens' + Count(writeQueue', ServerBufs)
            = selfTokens + Count(Tail(writeQueue), ServerBufs) + One(Head(writeQueue))
      BY <2>3, <3>1, ReleaseSelf
    <3>3. Count(writeQueue, ServerBufs)
            = Count(Tail(writeQueue), ServerBufs) + One(Head(writeQueue))
      BY <2>3, SelfTypes, ServerCounts
    <3>4. Count(Tail(writeQueue), ServerBufs) \in Nat /\ One(Head(writeQueue)) \in {0, 1}
      BY <3>1, ServerCounts
    <3>5. selfTokens' + Count(writeQueue', ServerBufs) = selfTokens + Count(writeQueue, ServerBufs)
      BY <3>2, <3>3, <3>4, SelfTypes
    <3>6. SelfSum' = (selfTokens' + Count(writeQueue', ServerBufs)) + One(cur)
      BY <2>3 DEF SelfSum
    <3>7. SelfSum' = SelfSum
      BY <3>5, <3>6 DEF SelfSum
    <3> QED BY <1>1, <2>1, <3>7 DEF SelfKept
  <2>4. CASE /\ cur # NoBuf /\ cur' = NoBuf
             /\ Release(cur, writeQueue, <<F("reset2")>> \o Tail(stack))
    <3>1. selfTokens' + Count(writeQueue', ServerBufs)
            = selfTokens + Count(writeQueue, ServerBufs) + One(cur)
      BY <2>4, SelfTypes, ReleaseSelf
    <3>2. SelfSum' = (selfTokens' + Count(writeQueue', ServerBufs)) + 0
      BY <2>4, ServerCounts DEF SelfSum
    <3>3. selfTokens + Count(writeQueue, ServerBufs) + One(cur) \in Int
      BY SelfTypes
    <3>4. SelfSum' = SelfSum
      BY <3>1, <3>2, <3>3 DEF SelfSum
    <3> QED BY <1>1, <2>1, <3>4 DEF SelfKept
  <2>5. CASE UNCHANGED <<cur, writeQueue, selfTokens>>
    BY <1>1, <2>1, <2>5 DEF SelfKept, SelfSum
  <2> QED BY <2>2, <2>3, <2>4, <2>5
<1> QED BY <1>2, <1>3

\* Events that find the stack empty.
LEMMA EventsSelf ==
  ASSUME ConstantsOK, TypeOK, LoopInv,
         \/ Start \/ Stop \/ MouseEvent \/ Migrated
         \/ \E c \in Clients : \/ Connect(c) \/ ClientDisconnect(c) \/ RestoreNone(c) \/ BufAdd(c)
                               \/ \E n \in 0..MaxSend : ClientAdd(c, n)
  PROVE  SelfKept
<1>1. Idle /\ exists' = exists
  <2>1. CASE Start \/ Stop \/ MouseEvent \/ Migrated
    BY <2>1 DEF Start, Stop, MouseEvent, Migrated, Restore, deviceVars
  <2>2. CASE \E c \in Clients : Connect(c) \/ ClientDisconnect(c) \/ RestoreNone(c) \/ BufAdd(c)
    BY <2>2 DEF Connect, ClientDisconnect, RestoreNone, BufAdd, deviceVars
  <2>3. CASE \E c \in Clients, n \in 0..MaxSend : ClientAdd(c, n)
    BY <2>3 DEF ClientAdd
  <2> QED BY <2>1, <2>2, <2>3
<1>2. ~Has({"destroy"})
  BY <1>1, IdleFacts
<1>3. SelfSum' = SelfSum
  <2>1. CASE \/ Start \/ Stop
             \/ \E c \in Clients : \/ Connect(c) \/ ClientDisconnect(c) \/ RestoreNone(c)
                                   \/ \E n \in 0..MaxSend : ClientAdd(c, n)
    BY <2>1 DEF Start, Stop, Connect, ClientDisconnect, RestoreNone, ClientAdd, writeVars, SelfSum
  <2>2. CASE MouseEvent
    <3>1. CASE UNCHANGED <<selfTokens, writeQueue>>
      BY <2>2, <3>1 DEF MouseEvent, SelfSum
    <3>2. CASE selfTokens' = selfTokens - 1 /\ writeQueue' = Append(writeQueue, ServerBuf)
      <4>1. Count(writeQueue', ServerBufs) = Count(writeQueue, ServerBufs) + 1
        BY <3>2, SelfTypes, ServerCounts, WriteFacts
      <4>2. cur' = cur
        BY <2>2 DEF MouseEvent
      <4> QED BY <3>2, <4>1, <4>2, SelfTypes DEF SelfSum
    <3> QED BY <2>2, <3>1, <3>2 DEF MouseEvent
  <2>3. CASE \E c \in Clients : BufAdd(c)
    <3>1. PICK c \in Clients : BufAdd(c)
      BY <2>3
    <3>2. /\ cur' = cur /\ selfTokens' = selfTokens
          /\ writeQueue' = Append(writeQueue, ClientBuf(c, 1)) \/ writeQueue' = writeQueue
      BY <3>1 DEF BufAdd
    <3>3. Count(Append(writeQueue, ClientBuf(c, 1)), ServerBufs)
            = Count(writeQueue, ServerBufs) + One(ClientBuf(c, 1))
      BY SelfTypes, ServerCounts, WriteFacts
    <3>4. One(ClientBuf(c, 1)) = 0
      BY ServerCounts
    <3>5. Count(writeQueue', ServerBufs) = Count(writeQueue, ServerBufs)
      <4>1. Count(writeQueue, ServerBufs) \in Nat
        BY SelfTypes
      <4>2. Count(Append(writeQueue, ClientBuf(c, 1)), ServerBufs) = Count(writeQueue, ServerBufs)
        BY <3>3, <3>4, <4>1
      <4> QED BY <3>2, <4>2
    <3> QED BY <3>2, <3>5 DEF SelfSum
  <2>4. CASE Migrated
    <3>1. PICK c \in Clients, w \in 0..Window, data \in BOOLEAN :
            /\ cur = NoBuf /\ writeQueue' = writeQueue
            /\ cur' = IF w > 0 THEN ClientBuf(c, w) ELSE IF data THEN ServerBuf ELSE NoBuf
            /\ selfTokens' = IF w = 0 /\ data THEN selfTokens - 1 ELSE selfTokens
      BY <2>4 DEF Migrated, Restore
    <3>2. w \in Nat
      BY <3>1 DEF ConstantsOK
    <3>3. One(cur') = (IF w = 0 /\ data THEN 1 ELSE 0) /\ One(cur) = 0
      BY <3>1, <3>2, ServerCounts
    <3>4. selfTokens' = selfTokens - One(cur') /\ One(cur') \in Int
      <4>1. CASE w = 0 /\ data
        BY <3>1, <3>3, <4>1
      <4>2. CASE ~(w = 0 /\ data)
        <5>1. selfTokens' = selfTokens /\ One(cur') = 0 /\ selfTokens \in Int
          BY <3>1, <3>3, <4>2, SelfTypes
        <5> QED BY <5>1
      <4> QED BY <4>1, <4>2
    <3>5. Count(writeQueue', ServerBufs) = Count(writeQueue, ServerBufs)
      BY <3>1
    <3>6. selfTokens \in Int /\ Count(writeQueue, ServerBufs) \in Nat
      BY SelfTypes
    <3>7. selfTokens - One(cur') + Count(writeQueue, ServerBufs) + One(cur')
            = selfTokens + Count(writeQueue, ServerBufs) + 0
      BY <3>4, <3>6
    <3> QED BY <3>3, <3>4, <3>5, <3>7 DEF SelfSum
  <2> QED BY <2>1, <2>2, <2>3, <2>4
<1> QED BY <1>1, <1>2, <1>3 DEF SelfKept

\* The device is created, or taken up again, reset or ended.
LEMMA DeviceSelf ==
  ASSUME ConstantsOK, TypeOK, LoopInv, SelfInv,
         Detach \/ Destroy \/ \E c \in Clients \cup {None}, vm \in BOOLEAN : Attach(c, vm)
  PROVE  SelfInv'
<1>1. CASE Detach
  <2>1. Idle /\ exists' = exists /\ selfTokens' = selfTokens
    BY <1>1 DEF Detach
  <2>2. ~Has({"destroy"}) /\ stack \in Seq(Frame)
    BY <2>1, IdleFacts, StackFacts
  <2>3. \/ Call(<<F("destroy")>>)
        \/ UNCHANGED <<writeQueue, cur>>
    BY <1>1 DEF Detach
  <2>4. ASSUME Call(<<F("destroy")>>) PROVE Has({"destroy"})'
    <3>1. <<F("destroy")>> \in Seq(Frame)
      BY FrameFacts DEF Ops
    <3>2. Frames(<<F("destroy")>>) = {F("destroy")}
      BY FramesOf
    <3>3. F("destroy") \in Active'
      BY <2>4, <3>1, <3>2, FrameSteps
    <3>4. F("destroy").op = "destroy"
      BY DEF F
    <3> QED BY <3>3, <3>4 DEF Has
  <2> QED BY <2>1, <2>2, <2>3, <2>4 DEF SelfInv, SelfSum
<1>2. CASE Destroy
  <2>1. CASE clients = {}
    BY <1>2, <2>1 DEF Destroy, SelfInv
  <2>2. CASE clients # {}
    <3>1. stack # <<>> /\ Top.op = "destroy"
      BY <1>2 DEF Destroy, At, Top
    <3>2. PICK c \in clients : Call(<<FC("free", c)>>)
      BY <1>2, <2>2 DEF Destroy
    <3>3. <<FC("free", c)>> \in Seq(Frame)
      BY FrameFacts DEF Ops, TypeOK, DeviceTypes
    <3>4. Top \in Active' /\ Top.op = "destroy"
      BY <3>1, <3>2, <3>3, FrameSteps, HasFrames
    <3>5. Has({"destroy"})'
      BY <3>4 DEF Has
    <3> QED BY <3>5 DEF SelfInv
  <2> QED BY <2>1, <2>2
<1>3. CASE \E c \in Clients \cup {None}, vm \in BOOLEAN : Attach(c, vm)
  <2>1. /\ Idle
        /\ \/ exists /\ UNCHANGED <<writeQueue, cur, selfTokens>>
           \/ writeQueue' = <<>> /\ cur' = NoBuf /\ selfTokens' = SelfTokens
    BY <1>3 DEF Attach
  <2>2. ~Has({"destroy"})
    BY <2>1, IdleFacts
  <2>3. CASE exists /\ UNCHANGED <<writeQueue, cur, selfTokens>>
    BY <2>2, <2>3 DEF SelfInv, SelfSum
  <2>4. CASE writeQueue' = <<>> /\ cur' = NoBuf /\ selfTokens' = SelfTokens
    <3>1. Count(<<>>, ServerBufs) = 0 /\ One(NoBuf) = 0 /\ SelfTokens \in Nat
      BY ServerCounts DEF ConstantsOK
    <3>2. SelfSum' = SelfTokens
      BY <2>4, <3>1 DEF SelfSum
    <3> QED BY <3>2 DEF SelfInv
  <2> QED BY <2>1, <2>3, <2>4
<1> QED BY <1>1, <1>2, <1>3

LEMMA SelfNext ==
  ASSUME ConstantsOK, TypeOK, LoopInv, SelfInv, [Next]_vars
  PROVE  SelfInv'
<1>1. CASE \/ Reading \/ WriteRefused \/ WriteNested \/ WriteBegin \/ WriteAgain \/ WriteEnd
           \/ WriteRetry \/ StartLoop \/ GuestWrites
           \/ \E c \in Clients : \/ Channel(c) \/ Writable(c) \/ PeerCloses(c) \/ FreeQueued(c)
                                 \/ Pushing(c) \/ WaitTimeout(c) \/ BufGet(c) \/ BufStale(c)
                                 \/ BufGiveBack(c) \/ RestoreLate(c)
                                 \/ \E n \in 0..MaxSend : TokensSet(c, n) \/ TokensAdd(c, n)
  <2>1. Calm
    BY <1>1, ReadingCalm, TurnsCalm, EventsCalm, ChannelCalm, FreeQueuedCalm, PushingCalm
  <2>2. selfTokens' = selfTokens
    <3>1. CASE \E c \in Clients : BufGiveBack(c)
      <4>1. PICK c \in Clients : BufGiveBack(c)
        BY <3>1
      <4>2. Release(ClientBuf(c, 1), writeQueue, <<>>) => selfTokens' = selfTokens
        BY ReleasePlain DEF ClientBuf
      <4> QED BY <4>1, <4>2 DEF BufGiveBack
    <3>2. CASE Reading
      BY <3>2 DEF Reading, ReadRefused, ReadNested, ReadBegin, ReadMsg, ReadDiscard, ReadNothing,
         ReadAgain, ReadEnd, SendDone, DropMsg, SendNow, SendOverflow, SendLater, writeVars
    <3>3. CASE \E c \in Clients : \/ Channel(c) \/ Writable(c) \/ PeerCloses(c) \/ FreeQueued(c)
                                  \/ BufGet(c) \/ BufStale(c) \/ RestoreLate(c)
      BY <3>3 DEF Channel, FlushSend, FlushStop, FlushFail, HangupItem, HangupEnd, Writable,
         PeerCloses, FreeQueued, BufGet, BufStale, RestoreLate, writeVars
    <3>4. CASE \E c \in Clients : \/ Pushing(c) \/ WaitTimeout(c)
                                  \/ \E n \in 0..MaxSend : TokensSet(c, n) \/ TokensAdd(c, n)
      BY <3>4 DEF Pushing, PushOne, PushUnref, PushShrink, PushEnd, AbsorbEnd, WaitTimeout,
         TokensSet, TokensAdd, Absorb, writeVars
    <3>5. CASE \/ WriteRefused \/ WriteNested \/ WriteBegin \/ WriteAgain \/ WriteEnd
               \/ WriteRetry \/ StartLoop \/ GuestWrites
      BY <3>5 DEF WriteRefused, WriteNested, WriteBegin, WriteAgain, WriteEnd, WriteRetry,
         StartLoop, GuestWrites, writeVars
    <3> QED BY <1>1, <3>1, <3>2, <3>3, <3>4, <3>5
  <2> QED BY <2>1, <2>2, CalmSelf, SelfKeeps
<1>2. CASE \/ WriteAll \/ WritePart \/ WriteNone \/ WriteRelease
           \/ RemovedEnd \/ ResetRelease \/ ResetQueues
           \/ \E c \in Clients : FreeWritten(c) \/ FreeEnd(c) \/ Gone(c)
  BY <1>2, WriteSelf, RemovingSelf, ResetSelf, SelfKeeps
<1>3. CASE \/ Start \/ Stop \/ MouseEvent \/ Migrated
           \/ \E c \in Clients : \/ Connect(c) \/ ClientDisconnect(c) \/ RestoreNone(c) \/ BufAdd(c)
                                 \/ \E n \in 0..MaxSend : ClientAdd(c, n)
  BY <1>3, EventsSelf, SelfKeeps
<1>4. CASE Detach \/ Destroy \/ \E c \in Clients \cup {None}, vm \in BOOLEAN : Attach(c, vm)
  BY <1>4, DeviceSelf
<1>5. CASE UNCHANGED vars
  BY <1>5 DEF vars, deviceVars, writeVars, SelfInv, SelfSum, Has, Active
<1>6. CASE Running
  BY <1>1, <1>2, <1>4, <1>6 DEF Running, Writing, Removing
<1>7. CASE FromVM
  BY <1>1, <1>3, <1>4, <1>7 DEF FromVM
<1>8. CASE \E c \in Clients : FromClient(c) \/ FromServer(c)
  BY <1>1, <1>3, <1>8 DEF FromClient, FromServer
<1> QED BY <1>1, <1>3, <1>5, <1>6, <1>7, <1>8 DEF Next

LEMMA SelfMeans ==
  ASSUME TypeOK, SelfInv
  PROVE  SelfTokensConserved
<1>1. (\A i \in DOMAIN stack : stack[i].op # "destroy") => ~Has({"destroy"})
  BY StackFacts, LenProperties DEF Has, Active, Frames
<1>2. {i \in DOMAIN writeQueue : writeQueue[i].origin = "server"} = Hits(writeQueue, ServerBufs)
  <2>1. \A i \in 1..Len(writeQueue) : writeQueue[i] \in WriteBuf
    BY SelfTypes, ElementOfSeq
  <2>2. DOMAIN writeQueue = 1..Len(writeQueue)
    BY SelfTypes, LenProperties
  <2> QED BY <2>1, <2>2 DEF Hits, ServerBufs
<1> QED BY <1>1, <1>2 DEF SelfInv, SelfSum, Count, One, SelfTokensConserved

\* Messages of the server never take more than num_self_tokens buffers, and no token
\* of its own is lost, whether its buffer is written, dropped by a reset, or restored
\* after a migration.
THEOREM SelfTokensAlways == Spec => []SelfTokensConserved
<1>1. Init => SelfInv
  BY DEF Init, SelfInv
<1>2. TypeOK /\ LoopInv /\ SelfInv /\ [Next]_vars => SelfInv'
  BY SelfNext, ConstantsOK
<1>3. TypeOK /\ SelfInv => SelfTokensConserved
  BY SelfMeans
<1> QED BY <1>1, <1>2, <1>3, TypeCorrect, LoopsGuarded, PTL DEF Spec
=============================================================================

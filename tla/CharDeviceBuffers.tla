--------------------------- MODULE CharDeviceBuffers --------------------------
(***************************************************************************)
(* The buffers read from the guest and the messages in them, for any       *)
(* number of clients, read buffers and messages.                           *)
(*                                                                         *)
(* The references of each buffer are counted in the pipes, the queues and  *)
(* the calls on the stack (RefsInv); the read loop asks for a free buffer, *)
(* so it never reads into one that is still to be sent (RefsAlways).  What *)
(* a client has been handed, what waits for it and what it is just about   *)
(* to be handed are the messages read since it was added, without a gap    *)
(* (GapInv, GapAlways).  And whenever a message could be read for a        *)
(* client, some call on the stack has yet to ask the device for it         *)
(* (WakeInv, WakeupsAlways).                                               *)
(***************************************************************************)
EXTENDS CharDeviceReading

-----------------------------------------------------------------------------
(* References to read buffers.                                             *)

\* Who may hold a reference to b: items in pipes, places in queues, send loops that
\* have taken a message from a queue, and the read loop.
Carrying(b)   == {i \in PipeItem : i.buf = b}
PushedWith(b) == {f \in Frame : f.op = "pushed" /\ f.b = b}

PipeRefs(b)  == Cardinality(Places(pipe, Clients, Carrying(b)))
QueueRefs(b) == Cardinality(Places(sendQueue, Clients, {b}))
StackRefs(b) == Count(stack, PushedWith(b))
MsgRef(b)    == IF msg = b THEN 1 ELSE 0

RefsInv ==
  \A b \in Bufs : refs[b] = PipeRefs(b) + QueueRefs(b) + StackRefs(b) + MsgRef(b)

LEMMA RefTypes ==
  ASSUME ConstantsOK, TypeOK, NEW b \in Bufs
  PROVE  /\ PipeRefs(b) \in Nat /\ QueueRefs(b) \in Nat /\ StackRefs(b) \in Nat
         /\ MsgRef(b) \in {0, 1} /\ refs[b] \in Int
<1>1. /\ \A c \in Clients : pipe[c] \in Seq(PipeItem) /\ sendQueue[c] \in Seq(Bufs)
      /\ stack \in Seq(Frame) /\ refs[b] \in Int
  BY DEF TypeOK, ChanTypes, SendTypes, StackTypes, PoolTypes
<1>2. IsFiniteSet(Clients)
  BY DEF ConstantsOK
<1> QED BY <1>1, <1>2, PlacesTypes, CountTypes DEF PipeRefs, QueueRefs, StackRefs, MsgRef

\* What holds of one term while the others stay as they are.
LEMMA RefsSame ==
  ASSUME RefsInv, NEW b \in Bufs, refs'[b] = refs[b], PipeRefs(b)' = PipeRefs(b),
         QueueRefs(b)' = QueueRefs(b), StackRefs(b)' = StackRefs(b), msg' = msg
  PROVE  refs'[b] = PipeRefs(b)' + QueueRefs(b)' + StackRefs(b)' + MsgRef(b)'
<1>1. MsgRef(b)' = MsgRef(b)
  BY DEF MsgRef
<1> QED BY <1>1 DEF RefsInv

LEMMA CountAppend ==
  ASSUME NEW X, NEW S, NEW q \in Seq(X), NEW x \in X
  PROVE  Count(Append(q, x), S) = Count(q, S) + (IF x \in S THEN 1 ELSE 0)
<1>0. <<x>> \in Seq(X)
  BY SeqFacts
<1>1. \A r, t \in Seq(X) : Count(r \o t, S) = Count(r, S) + Count(t, S)
  BY CountConcat
<1>2. Append(q, x) = q \o <<x>>
  BY AppendIsConcat
<1>3. Count(<<x>>, S) = IF x \in S THEN 1 ELSE 0
  BY CountSteps
<1> QED BY <1>0, <1>1, <1>2, <1>3

\* The pipe of c gets an item, or loses its oldest or its newest one.
LEMMA PipeSteps ==
  ASSUME ConstantsOK, TypeOK, NEW c \in Clients, NEW b \in Bufs
  PROVE  /\ \A i \in PipeItem : pipe' = [pipe EXCEPT ![c] = Append(@, i)] =>
              PipeRefs(b)' = PipeRefs(b) + (IF i.buf = b THEN 1 ELSE 0)
         /\ pipe[c] # <<>> /\ pipe' = [pipe EXCEPT ![c] = Tail(@)] =>
              PipeRefs(b) = PipeRefs(b)' + (IF Head(pipe[c]).buf = b THEN 1 ELSE 0)
         /\ pipe[c] # <<>> /\ pipe' = [pipe EXCEPT ![c] = SubSeq(@, 1, Len(pipe[c]) - 1)] =>
              PipeRefs(b) = PipeRefs(b)' + (IF pipe[c][Len(pipe[c])].buf = b THEN 1 ELSE 0)
<1> DEFINE K == Carrying(b)
           q == pipe[c]
<1>1. /\ \A d \in Clients : pipe[d] \in Seq(PipeItem)
      /\ IsFiniteSet(Clients) /\ pipe \in [Clients -> Seq(PipeItem)]
  BY DEF TypeOK, ChanTypes, ConstantsOK
<1>2. q \in Seq(PipeItem) /\ PipeRefs(b) \in Nat /\ Count(q, K) \in Nat
  <2>1. q \in Seq(PipeItem)
    BY <1>1
  <2> QED BY <2>1, RefTypes, CountTypes
<1>3. \A x \in PipeItem : x \in K <=> x.buf = b
  BY DEF Carrying
<1> HIDE DEF K, q
<1>4. ASSUME NEW r \in Seq(PipeItem), pipe' = [pipe EXCEPT ![c] = r]
      PROVE  PipeRefs(b)' = PipeRefs(b) - Count(q, K) + Count(r, K) /\ Count(r, K) \in Nat
  <2>1. /\ \A d \in Clients : pipe'[d] \in Seq(PipeItem)
        /\ \A d \in Clients \ {c} : pipe'[d] = pipe[d]
        /\ pipe'[c] = r
    BY <1>1, <1>4
  <2>2. Cardinality(Places(pipe', Clients, K))
          = Cardinality(Places(pipe, Clients, K)) - Count(pipe[c], K) + Count(pipe'[c], K)
    BY <1>1, <2>1, PlacesExcept
  <2>3. Count(r, K) \in Nat
    BY CountTypes
  <2> QED BY <2>1, <2>2, <2>3 DEF PipeRefs, K, q
<1>5. ASSUME NEW i \in PipeItem, pipe' = [pipe EXCEPT ![c] = Append(@, i)]
      PROVE  PipeRefs(b)' = PipeRefs(b) + (IF i.buf = b THEN 1 ELSE 0)
  <2>1. Append(q, i) \in Seq(PipeItem) /\ pipe' = [pipe EXCEPT ![c] = Append(q, i)]
    BY <1>2, <1>5, PipeFacts DEF q
  <2>2. Count(Append(q, i), K) = Count(q, K) + (IF i \in K THEN 1 ELSE 0)
    BY <1>2, CountAppend
  <2>3. PICK n \in {0, 1} : n = IF i.buf = b THEN 1 ELSE 0
    OBVIOUS
  <2>4. Count(Append(q, i), K) = Count(q, K) + n
    BY <1>2, <1>3, <2>2, <2>3
  <2>5. PipeRefs(b)' = PipeRefs(b) - Count(q, K) + Count(Append(q, i), K)
    BY <1>4, <2>1
  <2>6. PipeRefs(b)' = PipeRefs(b) + n
    BY <1>2, <2>4, <2>5
  <2> QED BY <2>3, <2>6
<1>6. ASSUME pipe[c] # <<>>, pipe' = [pipe EXCEPT ![c] = Tail(@)]
      PROVE  PipeRefs(b) = PipeRefs(b)' + (IF Head(pipe[c]).buf = b THEN 1 ELSE 0)
  <2>1. /\ Tail(q) \in Seq(PipeItem) /\ Head(q) \in PipeItem /\ q # <<>>
        /\ pipe' = [pipe EXCEPT ![c] = Tail(q)]
    BY <1>2, <1>6, PipeFacts DEF q
  <2>2. \A r \in Seq(PipeItem) : r # <<>> =>
          Count(r, K) = Count(Tail(r), K) + (IF Head(r) \in K THEN 1 ELSE 0)
    BY CountSteps
  <2>3. PICK n \in {0, 1} : n = IF Head(q).buf = b THEN 1 ELSE 0
    OBVIOUS
  <2>4. Count(q, K) = Count(Tail(q), K) + n
    BY <1>2, <1>3, <2>1, <2>2, <2>3
  <2>5. PipeRefs(b)' = PipeRefs(b) - Count(q, K) + Count(Tail(q), K) /\ Count(Tail(q), K) \in Nat
    BY <1>4, <2>1
  <2>6. PipeRefs(b) = PipeRefs(b)' + n
    BY <1>2, <2>4, <2>5
  <2> QED BY <2>3, <2>6 DEF q
<1>7. ASSUME pipe[c] # <<>>, pipe' = [pipe EXCEPT ![c] = SubSeq(@, 1, Len(pipe[c]) - 1)]
      PROVE  PipeRefs(b) = PipeRefs(b)' + (IF pipe[c][Len(pipe[c])].buf = b THEN 1 ELSE 0)
  <2> DEFINE n == Len(q)
             r == SubSeq(q, 1, n - 1)
  <2>1. n \in Nat /\ n \in 1..Len(q) /\ q[n] \in PipeItem
    BY <1>2, <1>6, <1>7, EmptySeq, LenProperties, ElementOfSeq DEF q
  <2>2. r \in Seq(PipeItem) /\ SubSeq(q, n + 1, Len(q)) = <<>>
    BY <1>2, <2>1, SubSeqProperties
  <2>3. pipe' = [pipe EXCEPT ![c] = r]
    BY <1>7 DEF q
  <2>4. Count(q, K) = Count(r \o SubSeq(q, n + 1, Len(q)), K) + (IF q[n] \in K THEN 1 ELSE 0)
    BY <1>2, <2>1, CountRemove
  <2>5. r \o <<>> = r
    BY <2>2, ConcatEmptySeq
  <2>6. PICK k \in {0, 1} : k = IF q[n].buf = b THEN 1 ELSE 0
    OBVIOUS
  <2> HIDE DEF n, r
  <2>7. Count(q, K) = Count(r, K) + k
    BY <1>3, <2>1, <2>2, <2>4, <2>5, <2>6
  <2>8. PipeRefs(b)' = PipeRefs(b) - Count(q, K) + Count(r, K) /\ Count(r, K) \in Nat
    BY <1>4, <2>2, <2>3
  <2>9. PipeRefs(b) = PipeRefs(b)' + k
    BY <1>2, <2>7, <2>8
  <2> QED BY <2>6, <2>9 DEF q, n
<1> QED BY <1>5, <1>6, <1>7

\* The queue of c gets a message, or loses its oldest one.
LEMMA QueueSteps ==
  ASSUME ConstantsOK, TypeOK, NEW c \in Clients, NEW b \in Bufs
  PROVE  /\ \A x \in Bufs : sendQueue' = [sendQueue EXCEPT ![c] = Append(@, x)] =>
              QueueRefs(b)' = QueueRefs(b) + (IF x = b THEN 1 ELSE 0)
         /\ sendQueue[c] # <<>> /\ sendQueue' = [sendQueue EXCEPT ![c] = Tail(@)] =>
              QueueRefs(b) = QueueRefs(b)' + (IF Head(sendQueue[c]) = b THEN 1 ELSE 0)
<1> DEFINE q == sendQueue[c]
<1>1. /\ \A d \in Clients : sendQueue[d] \in Seq(Bufs)
      /\ IsFiniteSet(Clients) /\ sendQueue \in [Clients -> Seq(Bufs)]
  BY DEF TypeOK, SendTypes, ConstantsOK
<1>2. q \in Seq(Bufs) /\ QueueRefs(b) \in Nat /\ Count(q, {b}) \in Nat
  <2>1. q \in Seq(Bufs)
    BY <1>1
  <2> QED BY <2>1, RefTypes, CountTypes
<1> HIDE DEF q
<1>3. ASSUME NEW r \in Seq(Bufs), sendQueue' = [sendQueue EXCEPT ![c] = r]
      PROVE  QueueRefs(b)' = QueueRefs(b) - Count(q, {b}) + Count(r, {b}) /\ Count(r, {b}) \in Nat
  <2>1. /\ \A d \in Clients : sendQueue'[d] \in Seq(Bufs)
        /\ \A d \in Clients \ {c} : sendQueue'[d] = sendQueue[d]
        /\ sendQueue'[c] = r
    BY <1>1, <1>3
  <2>2. Cardinality(Places(sendQueue', Clients, {b}))
          = Cardinality(Places(sendQueue, Clients, {b})) - Count(sendQueue[c], {b})
            + Count(sendQueue'[c], {b})
    BY <1>1, <2>1, PlacesExcept
  <2>3. Count(r, {b}) \in Nat
    BY CountTypes
  <2> QED BY <2>1, <2>2, <2>3 DEF QueueRefs, q
<1>4. ASSUME NEW x \in Bufs, sendQueue' = [sendQueue EXCEPT ![c] = Append(@, x)]
      PROVE  QueueRefs(b)' = QueueRefs(b) + (IF x = b THEN 1 ELSE 0)
  <2>1. Append(q, x) \in Seq(Bufs) /\ sendQueue' = [sendQueue EXCEPT ![c] = Append(q, x)]
    BY <1>2, <1>4, SeqFacts DEF q
  <2>2. Count(Append(q, x), {b}) = Count(q, {b}) + (IF x \in {b} THEN 1 ELSE 0)
    BY <1>2, CountAppend
  <2>3. PICK n \in {0, 1} : n = IF x = b THEN 1 ELSE 0
    OBVIOUS
  <2>4. Count(Append(q, x), {b}) = Count(q, {b}) + n
    BY <1>2, <2>2, <2>3
  <2>5. QueueRefs(b)' = QueueRefs(b) - Count(q, {b}) + Count(Append(q, x), {b})
    BY <1>3, <2>1
  <2>6. QueueRefs(b)' = QueueRefs(b) + n
    BY <1>2, <2>4, <2>5
  <2> QED BY <2>3, <2>6
<1>5. ASSUME sendQueue[c] # <<>>, sendQueue' = [sendQueue EXCEPT ![c] = Tail(@)]
      PROVE  QueueRefs(b) = QueueRefs(b)' + (IF Head(sendQueue[c]) = b THEN 1 ELSE 0)
  <2>1. /\ Tail(q) \in Seq(Bufs) /\ Head(q) \in Bufs /\ q # <<>>
        /\ sendQueue' = [sendQueue EXCEPT ![c] = Tail(q)]
    BY <1>2, <1>5, SeqFacts DEF q
  <2>2. \A r \in Seq(Bufs) : r # <<>> =>
          Count(r, {b}) = Count(Tail(r), {b}) + (IF Head(r) \in {b} THEN 1 ELSE 0)
    BY CountSteps
  <2>3. PICK n \in {0, 1} : n = IF Head(q) = b THEN 1 ELSE 0
    OBVIOUS
  <2>4. Count(q, {b}) = Count(Tail(q), {b}) + n
    BY <1>2, <2>1, <2>2, <2>3
  <2>5. QueueRefs(b)' = QueueRefs(b) - Count(q, {b}) + Count(Tail(q), {b}) /\ Count(Tail(q), {b}) \in Nat
    BY <1>3, <2>1
  <2>6. QueueRefs(b) = QueueRefs(b)' + n
    BY <1>2, <2>4, <2>5
  <2> QED BY <2>3, <2>6 DEF q
<1> QED BY <1>4, <1>5

\* Frames that hold no reference do not count.
LEMMA PushedOver ==
  ASSUME NEW b \in Bufs
  PROVE  /\ \A fs \in Only(Ops \ {"pushed"}), s \in Seq(Frame) :
              Count(fs \o s, PushedWith(b)) = Count(s, PushedWith(b))
         /\ \A s \in Seq(Frame) : s # <<>> =>
              /\ Count(s, PushedWith(b)) \in Nat
              /\ Head(s).op # "pushed" => Count(Tail(s), PushedWith(b)) = Count(s, PushedWith(b))
              /\ Head(s) \in Frame /\ Head(s).op = "pushed" =>
                   Count(s, PushedWith(b)) = Count(Tail(s), PushedWith(b))
                                             + (IF Head(s).b = b THEN 1 ELSE 0)
<1> DEFINE K == PushedWith(b)
<1>1. \A f \in K : f.op = "pushed"
  BY DEF PushedWith
<1>2. \A f \in Frame : f.op = "pushed" => (f \in K <=> f.b = b)
  BY DEF PushedWith
<1> HIDE DEF K
<1>3. ASSUME NEW fs \in Only(Ops \ {"pushed"}), NEW s \in Seq(Frame)
      PROVE  Count(fs \o s, K) = Count(s, K)
  <2>1. fs \in Seq(Frame) /\ \A i \in 1..Len(fs) : fs[i] \notin K
    BY <1>1 DEF Only
  <2>2. Hits(fs, K) = {}
    BY <2>1 DEF Hits
  <2>3. Count(fs, K) = 0
    BY <2>2, FS_EmptySet DEF Count
  <2>4. \A x, y \in Seq(Frame) : Count(x \o y, K) = Count(x, K) + Count(y, K)
    BY CountConcat
  <2>5. Count(s, K) \in Nat
    BY CountTypes
  <2>6. Count(fs \o s, K) = Count(fs, K) + Count(s, K)
    BY <2>1, <2>4
  <2> QED BY <2>3, <2>5, <2>6
<1>4. ASSUME NEW s \in Seq(Frame), s # <<>>
      PROVE  /\ Count(s, K) \in Nat
             /\ Head(s).op # "pushed" => Count(Tail(s), K) = Count(s, K)
             /\ Head(s) \in Frame /\ Head(s).op = "pushed" =>
                  Count(s, K) = Count(Tail(s), K) + (IF Head(s).b = b THEN 1 ELSE 0)
  <2>0. \A r \in Seq(Frame) : r # <<>> =>
          Count(r, K) = Count(Tail(r), K) + (IF Head(r) \in K THEN 1 ELSE 0)
    BY CountSteps
  <2>1. Tail(s) \in Seq(Frame)
    BY <1>4, SeqFacts
  <2>2. Count(s, K) \in Nat /\ Count(Tail(s), K) \in Nat
    BY <2>1, CountTypes
  <2>3. PICK n \in {0, 1} : n = IF Head(s) \in K THEN 1 ELSE 0
    OBVIOUS
  <2>4. Count(s, K) = Count(Tail(s), K) + n
    BY <1>4, <2>0, <2>3
  <2>5. Head(s).op # "pushed" => n = 0
    BY <1>1, <2>3
  <2>6. Head(s) \in Frame /\ Head(s).op = "pushed" => n = IF Head(s).b = b THEN 1 ELSE 0
    BY <1>2, <2>3
  <2>7. Head(s).op # "pushed" => Count(Tail(s), K) = Count(s, K)
    BY <2>2, <2>4, <2>5
  <2> QED BY <2>2, <2>4, <2>6, <2>7
<1> QED BY <1>3, <1>4 DEF K

LEMMA PushedMoves ==
  ASSUME TypeOK, NEW A \in SUBSET (Ops \ {"pushed"}), NEW T \in SUBSET (Ops \ {"pushed"}), Moves(A, T)
  PROVE  \A b \in Bufs : StackRefs(b)' = StackRefs(b)
<1> TAKE b \in Bufs
<1>1. PICK fs \in Only(A) : \/ stack' = fs \o stack
                            \/ stack # <<>> /\ Top.op \in T /\ stack' = fs \o Tail(stack)
  BY DEF Moves
<1>2. fs \in Only(Ops \ {"pushed"}) /\ stack \in Seq(Frame)
      /\ (stack # <<>> => Tail(stack) \in Seq(Frame))
  BY OnlyWider, StackFacts
<1>3. CASE stack' = fs \o stack
  BY <1>2, <1>3, PushedOver DEF StackRefs
<1>4. CASE stack # <<>> /\ Top.op \in T /\ stack' = fs \o Tail(stack)
  <2>1. Head(stack).op # "pushed"
    BY <1>4 DEF Top
  <2>2. Count(fs \o Tail(stack), PushedWith(b)) = Count(Tail(stack), PushedWith(b))
    BY <1>2, <1>4, PushedOver
  <2>3. Count(Tail(stack), PushedWith(b)) = Count(stack, PushedWith(b))
    BY <1>2, <1>4, <2>1, PushedOver
  <2> QED BY <1>4, <2>2, <2>3 DEF StackRefs
<1> QED BY <1>1, <1>3, <1>4

\* A step whose frames hold no reference.
Unpushed == Moves(Ops \ {"pushed"}, Ops \ {"pushed"})

LEMMA UnpushedSteps ==
  ASSUME TypeOK
  PROVE  /\ Unpushed => \A b \in Bufs : StackRefs(b)' = StackRefs(b)
         /\ \A A, T \in SUBSET (Ops \ {"pushed"}) : Moves(A, T) => Unpushed
         /\ stack' = stack => Unpushed
         /\ \A fs \in Only(Ops \ {"pushed"}) : stack = <<>> /\ stack' = fs => Unpushed
         /\ \A fs \in Only(Ops \ {"pushed"}) : stack # <<>> /\ Top.op # "pushed" =>
              (Return => Unpushed) /\ (Become(fs) => Unpushed)
<1> DEFINE A == Ops \ {"pushed"}
<1>1. A \in SUBSET (Ops \ {"pushed"}) /\ A \in SUBSET Ops
  OBVIOUS
<1>2. Moves(A, A) => \A b \in Bufs : StackRefs(b)' = StackRefs(b)
  BY <1>1, PushedMoves
<1>3. \A B, T \in SUBSET A : Moves(B, T) => Moves(A, A)
  BY MovesWider
<1>4. stack' = stack => Moves(A, A)
  BY <1>1, MovesSteps
<1>5. \A fs \in Only(A) : stack = <<>> /\ stack' = fs => Moves(A, A)
  <2> TAKE fs \in Only(A)
  <2>1. fs \in Seq(Frame)
    BY DEF Only
  <2>2. fs \o <<>> = fs
    BY <2>1, ConcatEmptySeq
  <2> QED BY <2>2 DEF Moves
<1>6. \A fs \in Only(A) : stack # <<>> /\ Top.op # "pushed" =>
        (Return => Moves(A, A)) /\ (Become(fs) => Moves(A, A))
  <2>1. stack # <<>> /\ Top.op # "pushed" => Top.op \in A
    BY StackFacts DEF Frame
  <2> QED BY <1>1, <2>1, MovesSteps
<1> QED BY <1>2, <1>3, <1>4, <1>5, <1>6 DEF Unpushed

LEMMA ReleaseRefs ==
  ASSUME ConstantsOK, TypeOK, NEW buf \in WriteBuf \cup {NoBuf}, NEW q, NEW rest,
         Release(buf, q, rest)
  PROVE  \A b \in Bufs : PipeRefs(b)' = PipeRefs(b)
<1>1. CASE pipe' = pipe
  BY <1>1 DEF PipeRefs
<1>2. CASE pipe' # pipe
  <2>1. /\ buf.origin = "client" /\ buf.c \in clients
        /\ PushItem(buf.c, TokensItem(tokensFree[buf.c] + buf.price), rest)
    BY <1>2 DEF Release
  <2> DEFINE c == buf.c
             i == TokensItem(tokensFree[buf.c] + buf.price)
  <2>2. c \in Clients /\ tokensFree[c] \in Nat /\ buf.price \in Nat
    BY <2>1 DEF TypeOK, DeviceTypes, RxTypes, WriteBuf, NoBuf
  <2>3. tokensFree[c] + buf.price \in Nat
    BY <2>2
  <2>4. i \in PipeItem /\ i.buf = None
    BY <2>3, PipeFacts DEF TokensItem
  <2>5. pipe' = [pipe EXCEPT ![c] = Append(@, i)]
    BY <1>2, <2>1 DEF PushItem
  <2> HIDE DEF c, i
  <2>6. ASSUME NEW b \in Bufs PROVE PipeRefs(b)' = PipeRefs(b)
    <3>1. PipeRefs(b)' = PipeRefs(b) + (IF i.buf = b THEN 1 ELSE 0)
      BY <2>2, <2>4, <2>5, PipeSteps
    <3>2. PipeRefs(b)' = PipeRefs(b) + 0
      BY <2>4, <3>1 DEF ConstantsOK
    <3> QED BY <3>2, RefTypes
  <2> QED BY <2>6
<1> QED BY <1>1, <1>2

\* The steps that change references, or what is in the pipes but tokens.
PoolSame == refs' = refs /\ \A b \in Bufs : PipeRefs(b)' = PipeRefs(b)

LEMMA PoolSteps ==
  ASSUME ConstantsOK, TypeOK, [Next]_vars
  PROVE  \/ PoolSame \/ Reading \/ ResetQueues
         \/ \E c \in Clients : FlushSend(c) \/ HangupItem(c) \/ Pushing(c) \/ FreeQueued(c)
<1>1. UNCHANGED <<refs, pipe>> => PoolSame
  BY DEF PoolSame, PipeRefs
<1>2. \A buf \in WriteBuf \cup {NoBuf} : \A q, rest : Release(buf, q, rest) /\ refs' = refs => PoolSame
  BY ReleaseRefs DEF PoolSame
<1>3. /\ cur \in WriteBuf \cup {NoBuf} /\ writeQueue \in Seq(WriteBuf)
      /\ \A c \in Clients : ClientBuf(c, 1) \in WriteBuf \cup {NoBuf}
      /\ writeQueue # <<>> => Head(writeQueue) \in WriteBuf \cup {NoBuf}
  <2>1. cur \in WriteBuf \cup {NoBuf} /\ writeQueue \in Seq(WriteBuf)
    BY DEF TypeOK, WriteTypes
  <2> QED BY <2>1, WriteFacts
<1>4. CASE UNCHANGED vars
  BY <1>1, <1>4 DEF vars, poolVars, chanVars
<1>5. CASE Writing
  <2>1. CASE WriteRelease
    <3>1. Release(cur, writeQueue, <<F("write")>> \o Tail(stack)) /\ refs' = refs
      BY <2>1 DEF WriteRelease, poolVars
    <3> QED BY <1>2, <1>3, <3>1
  <2>2. CASE ~WriteRelease
    <3>1. UNCHANGED <<refs, pipe>>
      BY <1>5, <2>2 DEF Writing, WriteRefused, WriteNested, WriteBegin, WriteAll, WritePart, WriteNone,
                        WriteSome, WriteAgain, WriteEnd, poolVars, chanVars
    <3> QED BY <1>1, <3>1
  <2> QED BY <2>1, <2>2
<1>6. CASE RemovedEnd \/ StartLoop \/ Destroy \/ WriteRetry
  <2>1. UNCHANGED <<refs, pipe>>
    BY <1>6 DEF RemovedEnd, StartLoop, Destroy, WriteRetry, poolVars, chanVars
  <2> QED BY <1>1, <2>1
<1>7. CASE ResetRelease
  <2>1. refs' = refs
    BY <1>7 DEF ResetRelease, poolVars
  <2>2. \/ writeQueue # <<>> /\ Release(Head(writeQueue), Tail(writeQueue), stack)
        \/ Release(cur, writeQueue, <<F("reset2")>> \o Tail(stack))
        \/ pipe' = pipe
    BY <1>7 DEF ResetRelease
  <2> QED BY <1>1, <1>2, <1>3, <2>1, <2>2
<1>8. ASSUME NEW c \in Clients, Channel(c)
      PROVE  PoolSame \/ FlushSend(c) \/ HangupItem(c)
  <2>1. FlushStop(c) \/ FlushFail(c) \/ HangupEnd(c) => UNCHANGED <<refs, pipe>>
    BY DEF FlushStop, FlushFail, HangupEnd, poolVars, chanVars
  <2> QED BY <1>1, <1>8, <2>1 DEF Channel
<1>9. ASSUME NEW c \in Clients, Removing(c)
      PROVE  PoolSame \/ FreeQueued(c)
  <2>1. FreeWritten(c) \/ FreeEnd(c) \/ Gone(c) => UNCHANGED <<refs, pipe>>
    BY DEF FreeWritten, FreeEnd, Gone, poolVars, chanVars
  <2> QED BY <1>1, <1>9, <2>1 DEF Removing
<1>10. CASE FromVM
  <2>1. UNCHANGED <<refs, pipe>>
    BY <1>10 DEF FromVM, Attach, Start, Stop, Detach, GuestWrites, MouseEvent, poolVars, chanVars
  <2> QED BY <1>1, <2>1
<1>11. CASE Migrated
  <2>1. UNCHANGED <<refs, pipe>>
    BY <1>11 DEF Migrated, Restore, poolVars
  <2> QED BY <1>1, <2>1
<1>12. ASSUME NEW c \in Clients, FromClient(c) PROVE PoolSame
  <2>1. CASE Connect(c) \/ ClientDisconnect(c) \/ PeerCloses(c) \/ BufGet(c) \/ BufStale(c)
             \/ RestoreLate(c) \/ RestoreNone(c)
    <3>1. UNCHANGED <<refs, pipe>>
      BY <2>1 DEF Connect, ClientDisconnect, PeerCloses, BufGet, BufStale, RestoreLate, RestoreNone,
                  poolVars, chanVars
    <3> QED BY <1>1, <3>1
  <2>2. CASE \E n \in 0..MaxSend : ClientAdd(c, n) \/ TokensSet(c, n) \/ TokensAdd(c, n)
    <3>1. UNCHANGED <<refs, pipe>>
      BY <2>2 DEF ClientAdd, TokensSet, TokensAdd, Absorb, poolVars
    <3> QED BY <1>1, <3>1
  <2> QED BY <1>12, <2>1, <2>2 DEF FromClient
<1>13. ASSUME NEW c \in Clients, FromServer(c) PROVE PoolSame
  <2>1. CASE Writable(c) \/ WaitTimeout(c) \/ BufAdd(c)
    <3>1. UNCHANGED <<refs, pipe>>
      BY <2>1 DEF Writable, WaitTimeout, BufAdd, poolVars, chanVars
    <3> QED BY <1>1, <3>1
  <2>2. CASE BufGiveBack(c)
    <3>1. /\ refs' = refs
          /\ Release(ClientBuf(c, 1), writeQueue, <<>>) \/ pipe' = pipe
      BY <2>2 DEF BufGiveBack, poolVars
    <3> QED BY <1>1, <1>2, <1>3, <3>1
  <2> QED BY <1>13, <2>1, <2>2 DEF FromServer
<1> QED BY <1>4, <1>5, <1>6, <1>7, <1>8, <1>9, <1>10, <1>11, <1>12, <1>13 DEF Next, Running

LEMMA PlainRefs ==
  ASSUME ConstantsOK, TypeOK, RefsInv, PoolSame, Unpushed, UNCHANGED <<sendQueue, msg>>
  PROVE  RefsInv'
<1>1. \A b \in Bufs : StackRefs(b)' = StackRefs(b)
  BY UnpushedSteps
<1>2. \A b \in Bufs : QueueRefs(b)' = QueueRefs(b)
  BY DEF QueueRefs
<1> QED BY <1>1, <1>2, RefsSame DEF RefsInv, PoolSame

\* An item leaves the pipe, with its reference if it has one.
LEMMA ChannelRefs ==
  ASSUME ConstantsOK, TypeOK, RefsInv, NEW c \in Clients, FlushSend(c) \/ HangupItem(c)
  PROVE  RefsInv'
<1>1. pipe[c] # <<>> /\ pipe[c] \in Seq(PipeItem)
  BY DEF FlushSend, HangupItem, TypeOK, ChanTypes
<1>2. PICK i \in PipeItem :
        /\ i.buf # None => Unref(i.buf, stack)
        /\ i.buf = None => refs' = refs
        /\ \A b \in Bufs : PipeRefs(b) = PipeRefs(b)' + (IF i.buf = b THEN 1 ELSE 0)
  <2>1. CASE FlushSend(c)
    <3>1. /\ Head(pipe[c]) \in PipeItem
          /\ pipe' = [pipe EXCEPT ![c] = Tail(@)]
          /\ Head(pipe[c]).buf # None => Unref(Head(pipe[c]).buf, stack)
          /\ Head(pipe[c]).buf = None => refs' = refs
      BY <1>1, <2>1, PipeFacts DEF FlushSend
    <3> QED BY <1>1, <3>1, PipeSteps
  <2>2. CASE HangupItem(c)
    <3>1. pipe[c][Len(pipe[c])] \in PipeItem
      BY <1>1, EmptySeq, LenProperties, ElementOfSeq
    <3>2. /\ pipe' = [pipe EXCEPT ![c] = SubSeq(@, 1, Len(pipe[c]) - 1)]
          /\ pipe[c][Len(pipe[c])].buf # None => Unref(pipe[c][Len(pipe[c])].buf, stack)
          /\ pipe[c][Len(pipe[c])].buf = None => refs' = refs
      BY <2>2 DEF HangupItem
    <3> QED BY <1>1, <3>1, <3>2, PipeSteps
  <2> QED BY <2>1, <2>2
<1>3. Unpushed
  <2>1. {WakeOps \cup ChannelOps, ChannelOps} \subseteq SUBSET (Ops \ {"pushed"})
    BY DEF WakeOps, ChannelOps, Ops
  <2>2. Moves(WakeOps \cup ChannelOps, ChannelOps)
    BY ChannelMoves DEF Channel
  <2> QED BY <2>1, <2>2, UnpushedSteps
<1>4. UNCHANGED <<sendQueue, msg>>
  BY DEF FlushSend, HangupItem, sendVars, readLocals
<1>5. ASSUME NEW b \in Bufs
      PROVE  refs'[b] = PipeRefs(b)' + QueueRefs(b)' + StackRefs(b)' + MsgRef(b)'
  <2>1. PICK n \in {0, 1} : n = IF i.buf = b THEN 1 ELSE 0
    OBVIOUS
  <2>2. refs[b] \in Int /\ PipeRefs(b) \in Nat /\ StackRefs(b) \in Nat /\ MsgRef(b) \in {0, 1}
        /\ QueueRefs(b) \in Nat
    BY RefTypes
  <2>3. refs'[b] = refs[b] - n
    <3>1. i.buf # None => refs' = [refs EXCEPT ![i.buf] = @ - 1]
      BY <1>2 DEF Unref
    <3> QED BY <1>2, <2>1, <2>2, <3>1 DEF TypeOK, PoolTypes, ConstantsOK
  <2>4. PipeRefs(b) = PipeRefs(b)' + n
    BY <1>2, <2>1
  <2>5. StackRefs(b)' = StackRefs(b) /\ QueueRefs(b)' = QueueRefs(b) /\ MsgRef(b)' = MsgRef(b)
    BY <1>3, <1>4, UnpushedSteps DEF QueueRefs, MsgRef
  <2>6. PipeRefs(b)' \in Int
    <3>1. \A d \in Clients : pipe'[d] \in Seq(PipeItem)
      <4>1. Tail(pipe[c]) \in Seq(PipeItem)
        BY <1>1, PipeFacts
      <4>2. SubSeq(pipe[c], 1, Len(pipe[c]) - 1) \in Seq(PipeItem)
        BY <1>1, EmptySeq, LenProperties, SubSeqProperties
      <4>3. pipe' = [pipe EXCEPT ![c] = Tail(pipe[c])]
            \/ pipe' = [pipe EXCEPT ![c] = SubSeq(pipe[c], 1, Len(pipe[c]) - 1)]
        BY DEF FlushSend, HangupItem
      <4> QED BY <4>1, <4>2, <4>3 DEF TypeOK, ChanTypes
    <3>2. Cardinality(Places(pipe', Clients, Carrying(b))) \in Nat
      BY <3>1, PlacesTypes DEF ConstantsOK
    <3> QED BY <3>2 DEF PipeRefs
  <2>7. refs[b] = PipeRefs(b) + QueueRefs(b) + StackRefs(b) + MsgRef(b)
    BY DEF RefsInv
  <2> HIDE DEF RefsInv
  <2> QED BY <2>2, <2>3, <2>4, <2>5, <2>6, <2>7
<1> QED BY <1>5 DEF RefsInv

\* A message is sent: if the channel has a stream, the item gets a reference of its own.
LEMMA SendRefs ==
  ASSUME ConstantsOK, TypeOK, NEW c \in Clients, NEW x \in Bufs, NEW rest, SendMsg(c, x, rest)
  PROVE  \A b \in Bufs : \E n \in {0, 1} :
           refs'[b] = refs[b] + n /\ PipeRefs(b)' = PipeRefs(b) + n
<1> TAKE b \in Bufs
<1>1. /\ pipe' = IF Linked(c) THEN [pipe EXCEPT ![c] = Append(@, DataItem(x))] ELSE pipe
      /\ refs' = IF Linked(c) THEN [refs EXCEPT ![x] = @ + 1] ELSE refs
  BY DEF SendMsg, PushItem, RefForPipe
<1>2. refs[b] \in Int /\ PipeRefs(b) \in Nat /\ refs \in [Bufs -> Int]
  BY RefTypes DEF TypeOK, PoolTypes
<1>3. CASE Linked(c)
  <2>1. PICK n \in {0, 1} : n = IF x = b THEN 1 ELSE 0
    OBVIOUS
  <2>2. DataItem(x) \in PipeItem /\ DataItem(x).buf = x
    BY PipeFacts DEF DataItem
  <2>3. PipeRefs(b)' = PipeRefs(b) + (IF DataItem(x).buf = b THEN 1 ELSE 0)
    BY <1>1, <1>3, <2>2, PipeSteps
  <2>4. PipeRefs(b)' = PipeRefs(b) + n
    BY <2>1, <2>2, <2>3
  <2>5. refs'[b] = refs[b] + n
    BY <1>1, <1>2, <1>3, <2>1
  <2> QED BY <2>4, <2>5
<1>4. CASE ~Linked(c)
  <2>1. refs'[b] = refs[b] + 0 /\ PipeRefs(b)' = PipeRefs(b) + 0
    BY <1>1, <1>2, <1>4 DEF PipeRefs
  <2> QED BY <2>1
<1> QED BY <1>3, <1>4

LEMMA ReadingRefs ==
  ASSUME ConstantsOK, TypeOK, RefsInv, Reading
  PROVE  RefsInv'
<1>1. Unpushed
  <2>1. {WakeOps \cup ReadingOps \cup {"flush"}, ReadingOps} \subseteq SUBSET (Ops \ {"pushed"})
    BY DEF WakeOps, ReadingOps, Ops
  <2> QED BY <2>1, ReadingMoves, UnpushedSteps
<1>2. \A b \in Bufs : /\ StackRefs(b)' = StackRefs(b) /\ StackRefs(b) \in Nat
                      /\ PipeRefs(b) \in Nat /\ QueueRefs(b) \in Nat /\ MsgRef(b) \in {0, 1}
                      /\ refs[b] \in Int
                      /\ refs[b] = PipeRefs(b) + QueueRefs(b) + StackRefs(b) + MsgRef(b)
  BY <1>1, UnpushedSteps, RefTypes DEF RefsInv
<1>3. CASE UNCHANGED <<refs, pipe, sendQueue, msg>>
  <2>1. PoolSame
    BY <1>3 DEF PoolSame, PipeRefs
  <2> QED BY <1>1, <1>3, <2>1, PlainRefs
<1>4. CASE ReadMsg
  <2>1. PICK x \in Free : refs' = [refs EXCEPT ![x] = 1] /\ msg' = x
    BY <1>4 DEF ReadMsg
  <2>2. x \in Bufs /\ refs[x] = 0 /\ msg = None /\ UNCHANGED <<pipe, sendQueue>>
    BY <1>4, <2>1 DEF Free, ReadMsg, chanVars, sendVars
  <2>3. ASSUME NEW b \in Bufs
        PROVE  refs'[b] = PipeRefs(b)' + QueueRefs(b)' + StackRefs(b)' + MsgRef(b)'
    <3>1. PipeRefs(b)' = PipeRefs(b) /\ QueueRefs(b)' = QueueRefs(b) /\ MsgRef(b) = 0
      BY <2>2 DEF PipeRefs, QueueRefs, MsgRef, ConstantsOK
    <3>2. refs \in [Bufs -> Int]
      BY DEF TypeOK, PoolTypes
    <3>3. CASE b = x
      <4>1. refs'[b] = 1 /\ MsgRef(b)' = 1 /\ refs[b] = 0
        BY <2>1, <2>2, <3>2, <3>3 DEF MsgRef
      <4> QED BY <1>2, <3>1, <4>1
    <3>4. CASE b # x
      <4>1. refs'[b] = refs[b] /\ MsgRef(b)' = 0
        BY <2>1, <2>2, <3>2, <3>4 DEF MsgRef
      <4> QED BY <1>2, <3>1, <4>1
    <3> QED BY <3>3, <3>4
  <2> QED BY <2>3 DEF RefsInv
<1>5. ASSUME NEW c \in Clients, SendNow(c) PROVE RefsInv'
  <2>1. /\ UNCHANGED <<sendQueue, msg>> /\ c \in todo /\ SendMsg(c, msg, stack)
    BY <1>5 DEF SendNow
  <2>2. msg \in Bufs
    BY <2>1 DEF TypeOK, ReadTypes
  <2>3. ASSUME NEW b \in Bufs
        PROVE  refs'[b] = PipeRefs(b)' + QueueRefs(b)' + StackRefs(b)' + MsgRef(b)'
    <3>1. PICK n \in {0, 1} : refs'[b] = refs[b] + n /\ PipeRefs(b)' = PipeRefs(b) + n
      BY <2>1, <2>2, SendRefs
    <3>2. QueueRefs(b)' = QueueRefs(b) /\ MsgRef(b)' = MsgRef(b)
      BY <2>1 DEF QueueRefs, MsgRef
    <3> QED BY <1>2, <3>1, <3>2
  <2> QED BY <2>3 DEF RefsInv
<1>6. ASSUME NEW c \in Clients, SendLater(c) PROVE RefsInv'
  <2>1. /\ UNCHANGED <<pipe, msg>> /\ c \in todo
        /\ refs' = [refs EXCEPT ![msg] = @ + 1]
        /\ sendQueue' = [sendQueue EXCEPT ![c] = Append(@, msg)]
    BY <1>6 DEF SendLater, Enqueue, chanVars
  <2>2. msg \in Bufs
    BY <2>1 DEF TypeOK, ReadTypes
  <2>3. ASSUME NEW b \in Bufs
        PROVE  refs'[b] = PipeRefs(b)' + QueueRefs(b)' + StackRefs(b)' + MsgRef(b)'
    <3>1. PICK n \in {0, 1} : n = IF msg = b THEN 1 ELSE 0
      OBVIOUS
    <3>2. QueueRefs(b)' = QueueRefs(b) + (IF msg = b THEN 1 ELSE 0)
      BY <2>1, <2>2, QueueSteps
    <3>3. refs'[b] = refs[b] + n
      <4>1. refs \in [Bufs -> Int] /\ refs[b] \in Int
        BY DEF TypeOK, PoolTypes
      <4>2. msg = b => refs'[b] = refs[b] + 1
        BY <2>1, <2>2, <4>1
      <4>3. msg # b => refs'[b] = refs[b]
        BY <2>1, <2>2, <4>1
      <4> QED BY <3>1, <4>1, <4>2, <4>3
    <3>4. PipeRefs(b)' = PipeRefs(b) /\ MsgRef(b)' = MsgRef(b) /\ QueueRefs(b)' = QueueRefs(b) + n
      BY <2>1, <3>1, <3>2 DEF PipeRefs, MsgRef
    <3> QED BY <1>2, <3>3, <3>4
  <2> QED BY <2>3 DEF RefsInv
<1>7. CASE SendDone
  <2>1. /\ UNCHANGED <<pipe, sendQueue>> /\ msg \in Bufs /\ msg' = None
        /\ refs' = [refs EXCEPT ![msg] = @ - 1]
    BY <1>7 DEF SendDone, DropMsg, Unref, chanVars, sendVars, TypeOK, ReadTypes
  <2>2. ASSUME NEW b \in Bufs
        PROVE  refs'[b] = PipeRefs(b)' + QueueRefs(b)' + StackRefs(b)' + MsgRef(b)'
    <3>1. MsgRef(b)' = 0 /\ refs'[b] = refs[b] - MsgRef(b)
      BY <1>2, <2>1 DEF MsgRef, ConstantsOK, TypeOK, PoolTypes
    <3>2. PipeRefs(b)' = PipeRefs(b) /\ QueueRefs(b)' = QueueRefs(b)
      BY <2>1 DEF PipeRefs, QueueRefs
    <3> QED BY <1>2, <3>1, <3>2
  <2> QED BY <2>2 DEF RefsInv
<1>8. CASE \/ ReadRefused \/ ReadNested \/ ReadBegin \/ ReadDiscard \/ ReadNothing \/ ReadAgain
           \/ ReadEnd \/ \E c \in Clients : SendOverflow(c)
  <2>1. UNCHANGED <<refs, pipe, sendQueue, msg>>
    BY <1>8 DEF ReadRefused, ReadNested, ReadBegin, ReadDiscard, ReadNothing, ReadAgain, ReadEnd,
                SendOverflow, poolVars, chanVars, sendVars, readLocals
  <2> QED BY <1>3, <2>1
<1> QED BY <1>4, <1>5, <1>6, <1>7, <1>8 DEF Reading

LEMMA PushingRefs ==
  ASSUME ConstantsOK, TypeOK, RefsInv, NEW c \in Clients, Pushing(c)
  PROVE  RefsInv'
<1> DEFINE t == Tail(stack)
<1>1. stack # <<>> /\ t \in Seq(Frame) /\ Top \in Frame /\ Top = Head(stack) /\ stack \in Seq(Frame)
  <2>1. stack # <<>>
    BY DEF Pushing, PushOne, PushUnref, PushShrink, PushEnd, AbsorbEnd, At
  <2> QED BY <2>1, StackFacts DEF Top
<1>2. \A b \in Bufs : /\ StackRefs(b) \in Nat
                      /\ PipeRefs(b) \in Nat /\ QueueRefs(b) \in Nat /\ MsgRef(b) \in {0, 1}
                      /\ refs[b] \in Int
                      /\ refs[b] = PipeRefs(b) + QueueRefs(b) + StackRefs(b) + MsgRef(b)
  BY RefTypes DEF RefsInv
<1>3. \A b \in Bufs : /\ Top.op # "pushed" => Count(t, PushedWith(b)) = StackRefs(b)
                      /\ Top.op = "pushed" =>
                           StackRefs(b) = Count(t, PushedWith(b)) + (IF Top.b = b THEN 1 ELSE 0)
  BY <1>1, PushedOver DEF StackRefs
<1>4. msg' = msg
  BY DEF Pushing, PushOne, PushUnref, PushShrink, PushEnd, AbsorbEnd, readLocals
<1> HIDE DEF t
<1>5. CASE PushOne(c)
  <2> DEFINE x == Head(sendQueue[c])
             f == [op |-> "pushed", c |-> c, b |-> x]
  <2>1. /\ sendQueue[c] # <<>> /\ sendQueue' = [sendQueue EXCEPT ![c] = Tail(@)]
        /\ SendMsg(c, x, <<f>> \o t) /\ Top.op = "push"
    BY <1>5 DEF PushOne, At, Top, t
  <2>2. x \in Bufs
    BY <2>1, SeqFacts DEF TypeOK, SendTypes
  <2>3. f \in Frame /\ f.op = "pushed" /\ f.b = x /\ <<f>> \in Seq(Frame)
    BY <2>2, SeqFacts DEF Frame, Ops
  <2> HIDE DEF x, f
  <2>4. PICK fs \in Only({"flush"}) : stack' = fs \o (<<f>> \o t)
    <3>1. {"flush"} \in SUBSET Ops
      BY DEF Ops
    <3> QED BY <2>1, <3>1, PushItemOver DEF SendMsg
  <2>5. /\ fs \in Only(Ops \ {"pushed"}) /\ <<f>> \o t \in Seq(Frame)
        /\ <<f>> \o t # <<>> /\ Head(<<f>> \o t) = f /\ Tail(<<f>> \o t) = t
    <3>1. {"flush"} \subseteq Ops \ {"pushed"}
      BY DEF Ops
    <3>2. fs \in Only(Ops \ {"pushed"})
      BY <3>1, OnlyWider
    <3>3. <<f>> \o t \in Seq(Frame)
      BY <1>1, <2>3, SeqFacts
    <3>4. <<f>> \o t # <<>> /\ Head(<<f>> \o t) = f /\ Tail(<<f>> \o t) = t
      BY <1>1, <2>3, SeqFacts
    <3> QED BY <3>2, <3>3, <3>4
  <2>6. ASSUME NEW b \in Bufs
        PROVE  refs'[b] = PipeRefs(b)' + QueueRefs(b)' + StackRefs(b)' + MsgRef(b)'
    <3>1. PICK n \in {0, 1} : refs'[b] = refs[b] + n /\ PipeRefs(b)' = PipeRefs(b) + n
      BY <2>1, <2>2, SendRefs
    <3>2. PICK k \in {0, 1} : k = IF x = b THEN 1 ELSE 0
      OBVIOUS
    <3>3. QueueRefs(b) = QueueRefs(b)' + k
      BY <2>1, <3>2, QueueSteps DEF x
    <3>4. StackRefs(b)' = StackRefs(b) + k
      <4>1. Count(stack', PushedWith(b)) = Count(<<f>> \o t, PushedWith(b))
        BY <2>4, <2>5, PushedOver
      <4>2. Count(<<f>> \o t, PushedWith(b)) = Count(t, PushedWith(b)) + k
        BY <2>3, <2>5, <3>2, PushedOver
      <4>3. Count(t, PushedWith(b)) = StackRefs(b)
        BY <1>3, <2>1
      <4> QED BY <4>1, <4>2, <4>3 DEF StackRefs
    <3>5. MsgRef(b)' = MsgRef(b)
      BY <1>4 DEF MsgRef
    <3>6. QueueRefs(b)' \in Int
      <4>1. Tail(sendQueue[c]) \in Seq(Bufs)
        BY <2>1, SeqFacts DEF TypeOK, SendTypes
      <4>2. \A d \in Clients : sendQueue'[d] \in Seq(Bufs)
        BY <2>1, <4>1 DEF TypeOK, SendTypes
      <4>3. Cardinality(Places(sendQueue', Clients, {b})) \in Nat
        BY <4>2, PlacesTypes DEF ConstantsOK
      <4> QED BY <4>3 DEF QueueRefs
    <3> QED BY <1>2, <3>1, <3>3, <3>4, <3>5, <3>6
  <2> QED BY <2>6 DEF RefsInv
<1>6. CASE PushUnref(c)
  <2> DEFINE r == <<FC("shrink", c)>> \o t
  <2>1. Unref(Top.b, r) /\ Top.op = "pushed" /\ UNCHANGED <<pipe, sendQueue>>
    BY <1>6 DEF PushUnref, At, Top, t, sendVars, chanVars
  <2>2. <<FC("shrink", c)>> \in Only(Ops \ {"pushed"}) /\ r \in Seq(Frame)
    <3>1. "shrink" \in Ops \ {"pushed"}
      BY DEF Ops
    <3>2. <<FC("shrink", c)>> \in Only(Ops \ {"pushed"})
      BY <3>1, OnlyFacts
    <3>3. <<FC("shrink", c)>> \in Seq(Frame)
      BY <3>2 DEF Only
    <3> QED BY <1>1, <3>2, <3>3, SeqFacts
  <2>3. PICK fs \in Only(WakeOps) : stack' = fs \o r
    <3>1. WakeOps \in SUBSET Ops
      BY DEF WakeOps, Ops
    <3> QED BY <2>1, <3>1, UnrefOver
  <2>4. fs \in Only(Ops \ {"pushed"})
    <3>1. WakeOps \subseteq Ops \ {"pushed"}
      BY DEF WakeOps, Ops
    <3> QED BY <3>1, OnlyWider
  <2>5. ASSUME NEW b \in Bufs
        PROVE  refs'[b] = PipeRefs(b)' + QueueRefs(b)' + StackRefs(b)' + MsgRef(b)'
    <3>1. PICK k \in {0, 1} : k = IF Top.b = b THEN 1 ELSE 0
      OBVIOUS
    <3>2. Count(stack', PushedWith(b)) = Count(r, PushedWith(b))
      BY <2>2, <2>3, <2>4, PushedOver
    <3>3. Count(r, PushedWith(b)) = Count(t, PushedWith(b))
      BY <1>1, <2>2, PushedOver
    <3>4. Count(t, PushedWith(b)) \in Nat
      BY <1>1, CountTypes
    <3>5. StackRefs(b) = StackRefs(b)' + k /\ StackRefs(b)' \in Nat
      BY <1>3, <2>1, <3>1, <3>2, <3>3, <3>4 DEF StackRefs
    <3>6. refs'[b] = refs[b] - k
      <4>1. refs \in [Bufs -> Int] /\ refs[b] \in Int
        BY DEF TypeOK, PoolTypes
      <4>2. refs' = [refs EXCEPT ![Top.b] = @ - 1]
        BY <2>1 DEF Unref
      <4>3. Top.b = b => refs'[b] = refs[b] - 1
        BY <4>1, <4>2
      <4>4. Top.b # b => refs'[b] = refs[b]
        BY <4>1, <4>2
      <4> QED BY <3>1, <4>1, <4>3, <4>4
    <3>7. PipeRefs(b)' = PipeRefs(b) /\ QueueRefs(b)' = QueueRefs(b) /\ MsgRef(b)' = MsgRef(b)
      BY <1>4, <2>1 DEF PipeRefs, QueueRefs, MsgRef
    <3> QED BY <1>2, <3>5, <3>6, <3>7
  <2> QED BY <2>5 DEF RefsInv
<1>7. CASE PushShrink(c) \/ PushEnd(c) \/ AbsorbEnd(c)
  <2>1. UNCHANGED <<refs, pipe, sendQueue>> /\ Top.op # "pushed"
    BY <1>7 DEF PushShrink, PushEnd, AbsorbEnd, poolVars, chanVars, sendVars, At, Top
  <2>2. Unpushed
    <3>1. {"push", "read?"} \subseteq Ops \ {"pushed"} /\ Ops \ {"pushed"} \in SUBSET Ops
      BY DEF Ops
    <3>2. <<FC("push", c)>> \in Only(Ops \ {"pushed"}) /\ <<F("read?")>> \in Only(Ops \ {"pushed"})
      BY <3>1, OnlyFacts
    <3>3. Return \/ Become(<<FC("push", c)>>) \/ Become(<<F("read?")>>)
      BY <1>7 DEF PushShrink, PushEnd, AbsorbEnd
    <3>4. <<>> \in Only(Ops \ {"pushed"})
      BY <3>1, OnlyFacts
    <3> QED BY <1>1, <2>1, <3>2, <3>3, <3>4, UnpushedSteps
  <2>3. PoolSame
    BY <2>1 DEF PoolSame, PipeRefs
  <2> QED BY <1>4, <2>1, <2>2, <2>3, PlainRefs
<1> QED BY <1>5, <1>6, <1>7 DEF Pushing

\* A client's queue is dropped, one message at a time.
LEMMA FreeQueuedRefs ==
  ASSUME ConstantsOK, TypeOK, RefsInv, NEW c \in Clients, FreeQueued(c)
  PROVE  RefsInv'
<1> DEFINE x == Head(sendQueue[c])
<1>1. /\ sendQueue[c] # <<>> /\ sendQueue' = [sendQueue EXCEPT ![c] = Tail(@)]
      /\ Unref(x, stack) /\ UNCHANGED <<pipe, msg>>
  BY DEF FreeQueued, chanVars, readLocals
<1>2. x \in Bufs /\ Tail(sendQueue[c]) \in Seq(Bufs)
  BY <1>1, SeqFacts DEF TypeOK, SendTypes
<1>3. Unpushed
  <2>1. WakeOps \in SUBSET (Ops \ {"pushed"})
    BY DEF WakeOps, Ops
  <2>2. PICK fs \in Only(WakeOps) : stack' = fs \o stack
    BY <1>1, <2>1, UnrefOver
  <2>3. Moves(WakeOps, {})
    BY <2>2 DEF Moves
  <2> QED BY <2>1, <2>3, UnpushedSteps
<1>4. ASSUME NEW b \in Bufs
      PROVE  refs'[b] = PipeRefs(b)' + QueueRefs(b)' + StackRefs(b)' + MsgRef(b)'
  <2>1. PICK k \in {0, 1} : k = IF x = b THEN 1 ELSE 0
    OBVIOUS
  <2>2. QueueRefs(b) = QueueRefs(b)' + k
    BY <1>1, <2>1, QueueSteps
  <2>3. QueueRefs(b)' \in Int
    <3>1. \A d \in Clients : sendQueue'[d] \in Seq(Bufs)
      BY <1>1, <1>2 DEF TypeOK, SendTypes
    <3>2. Cardinality(Places(sendQueue', Clients, {b})) \in Nat
      BY <3>1, PlacesTypes DEF ConstantsOK
    <3> QED BY <3>2 DEF QueueRefs
  <2> HIDE DEF x
  <2>4. refs'[b] = refs[b] - k
    <3>1. refs \in [Bufs -> Int] /\ refs[b] \in Int /\ refs' = [refs EXCEPT ![x] = @ - 1]
      BY <1>1 DEF TypeOK, PoolTypes, Unref
    <3>2. x = b => refs'[b] = refs[b] - 1
      BY <3>1
    <3>3. x # b => refs'[b] = refs[b]
      BY <3>1
    <3> QED BY <2>1, <3>1, <3>2, <3>3
  <2>5. PipeRefs(b)' = PipeRefs(b) /\ StackRefs(b)' = StackRefs(b) /\ MsgRef(b)' = MsgRef(b)
    BY <1>1, <1>3, UnpushedSteps DEF PipeRefs, MsgRef
  <2>6. /\ PipeRefs(b) \in Nat /\ StackRefs(b) \in Nat /\ MsgRef(b) \in {0, 1} /\ refs[b] \in Int
        /\ refs[b] = PipeRefs(b) + QueueRefs(b) + StackRefs(b) + MsgRef(b)
    BY RefTypes DEF RefsInv
  <2> QED BY <2>2, <2>3, <2>4, <2>5, <2>6
<1> QED BY <1>4 DEF RefsInv

\* A reset drops the queues of all clients; who is no client has none.
LEMMA ResetQueuesRefs ==
  ASSUME ConstantsOK, TypeOK, MessageInv, RefsInv, ResetQueues
  PROVE  RefsInv'
<1>1. /\ refs' = [b \in Bufs |-> refs[b] - Cardinality(InQueues(b, clients))]
      /\ sendQueue' = [c \in Clients |-> IF c \in clients THEN <<>> ELSE sendQueue[c]]
      /\ stack # <<>> /\ Top.op # "pushed" /\ Return /\ UNCHANGED <<pipe, msg>>
  BY DEF ResetQueues, At, Top, chanVars, readLocals
<1>2. Unpushed
  <2>1. <<>> \in Only(Ops \ {"pushed"})
    BY OnlyFacts
  <2> QED BY <1>1, <2>1, UnpushedSteps
<1>3. \A c \in Clients : sendQueue'[c] = <<>>
  BY <1>1 DEF MessageInv
<1>4. clients \in SUBSET Clients
  BY DEF TypeOK, DeviceTypes
<1>5. ASSUME NEW b \in Bufs
      PROVE  refs'[b] = PipeRefs(b)' + QueueRefs(b)' + StackRefs(b)' + MsgRef(b)'
  <2>1. InQueues(b, clients) = Places(sendQueue, Clients, {b})
    <3>1. InQueues(b, Clients) = Places(sendQueue, Clients, {b})
      BY QueuePlaces
    <3>2. \A c \in Clients \ clients : {i \in DOMAIN sendQueue[c] : sendQueue[c][i] = b} = {}
      BY DEF MessageInv
    <3>3. InQueues(b, clients) = InQueues(b, Clients)
      BY <1>4, <3>2 DEF InQueues
    <3> QED BY <3>1, <3>3
  <2>2. refs'[b] = refs[b] - QueueRefs(b)
    BY <1>1, <2>1 DEF QueueRefs
  <2>3. QueueRefs(b)' = 0
    <3>1. \A c \in Clients : Hits(sendQueue'[c], {b}) = {}
      BY <1>3 DEF Hits
    <3>2. Places(sendQueue', Clients, {b}) = {}
      BY <3>1 DEF Places
    <3>3. Cardinality(Places(sendQueue', Clients, {b})) = 0
      BY <3>2, FS_EmptySet
    <3> QED BY <3>3 DEF QueueRefs
  <2>4. PipeRefs(b)' = PipeRefs(b) /\ StackRefs(b)' = StackRefs(b) /\ MsgRef(b)' = MsgRef(b)
    BY <1>1, <1>2, UnpushedSteps DEF PipeRefs, MsgRef
  <2>5. /\ PipeRefs(b) \in Nat /\ StackRefs(b) \in Nat /\ MsgRef(b) \in {0, 1} /\ refs[b] \in Int
        /\ QueueRefs(b) \in Nat
        /\ refs[b] = PipeRefs(b) + QueueRefs(b) + StackRefs(b) + MsgRef(b)
    BY RefTypes DEF RefsInv
  <2> QED BY <2>2, <2>3, <2>4, <2>5
<1> QED BY <1>5 DEF RefsInv

\* Tokens come from a client, or it is removed, or the device comes or goes: no frame
\* that is pushed or popped then holds a reference, and what is queued stays.
LEMMA EventsRefs ==
  ASSUME ConstantsOK, TypeOK, MessageInv, NEW c \in Clients,
         \/ WaitTimeout(c) \/ FreeEnd(c) \/ ClientDisconnect(c) \/ RestoreNone(c)
         \/ \E n \in 0..MaxSend : TokensSet(c, n) \/ TokensAdd(c, n) \/ ClientAdd(c, n)
  PROVE  Unpushed /\ UNCHANGED <<sendQueue, msg>>
<1> DEFINE U == Only(Ops \ {"pushed"})
<1>1. /\ <<>> \in U /\ <<FC("absorb", c)>> \in U /\ <<FC("push", c)>> \in U /\ <<FC("free", c)>> \in U
      /\ \A fs, gs \in U : fs \o gs \in U
  <2>1. {"absorb", "push", "free"} \subseteq Ops \ {"pushed"} /\ Ops \ {"pushed"} \in SUBSET Ops
    BY DEF Ops
  <2> QED BY <2>1, OnlyFacts
<1> HIDE DEF U
<1>2. CASE WaitTimeout(c)
  <2>1. UNCHANGED <<stack, sendQueue, msg>>
    BY <1>2 DEF WaitTimeout, readLocals
  <2> QED BY <2>1, UnpushedSteps
<1>3. CASE FreeEnd(c)
  <2>1. stack # <<>> /\ Top.op # "pushed" /\ Return /\ UNCHANGED <<sendQueue, msg>>
    BY <1>3 DEF FreeEnd, At, Top, readLocals
  <2> QED BY <1>1, <2>1, UnpushedSteps DEF U
<1>4. CASE ClientDisconnect(c) \/ RestoreNone(c)
  <2>1. UNCHANGED <<sendQueue, msg>>
    BY <1>4 DEF ClientDisconnect, RestoreNone, sendVars, readLocals
  <2>2. {"hangup", "gone", "removed"} \subseteq Ops \ {"pushed"}
    BY DEF Ops
  <2>3. PICK s \in Only({"hangup", "gone", "removed"}) :
           stack' = s \/ stack' = <<FC("free", c)>> \o s
    BY <1>4, LeavingMoves
  <2>4. s \in U
    BY <2>2, OnlyWider DEF U
  <2>5. stack' \in U /\ stack = <<>>
    BY <1>1, <1>4, <2>3, <2>4, LeavingMoves
  <2> QED BY <2>1, <2>5, UnpushedSteps DEF U
<1>5. ASSUME NEW n \in 0..MaxSend, TokensSet(c, n) \/ TokensAdd(c, n)
      PROVE  Unpushed /\ UNCHANGED <<sendQueue, msg>>
  <2> DEFINE fs == (IF queueSize[c] > 0 THEN <<FC("push", c)>> ELSE <<>>) \o <<FC("absorb", c)>>
  <2>1. stack = <<>> /\ Call(fs) /\ UNCHANGED <<sendQueue, msg>>
    BY <1>5 DEF TokensSet, TokensAdd, Absorb, Idle, readLocals
  <2>2. fs \in U
    BY <1>1
  <2> HIDE DEF fs
  <2>3. stack' = fs
    BY <2>1, <2>2, ConcatEmptySeq DEF Call, U, Only
  <2> QED BY <2>1, <2>2, <2>3, UnpushedSteps DEF U
<1>6. ASSUME NEW n \in 0..MaxSend, ClientAdd(c, n)
      PROVE  Unpushed /\ UNCHANGED <<sendQueue, msg>>
  <2>1. /\ c \notin clients /\ sendQueue' = [sendQueue EXCEPT ![c] = <<>>] /\ msg' = msg
    BY <1>6 DEF ClientAdd, AddClient, readLocals
  <2>2. sendQueue' = sendQueue
    BY <2>1 DEF MessageInv, TypeOK, SendTypes
  <2>3. Moves(WakeOps \cup {"flush", "start", "startW", "startR"}, {"start", "startW", "startR"})
    BY <1>6, CallingMoves
  <2>4. {WakeOps \cup {"flush", "start", "startW", "startR"}, {"start", "startW", "startR"}}
          \subseteq SUBSET (Ops \ {"pushed"})
    BY DEF WakeOps, Ops
  <2> QED BY <2>1, <2>2, <2>3, <2>4, UnpushedSteps
<1> QED BY <1>2, <1>3, <1>4, <1>5, <1>6

LEMMA DeviceRefs ==
  ASSUME ConstantsOK, TypeOK, MessageInv,
         \/ Detach \/ Destroy \/ ResetRelease \/ Migrated
         \/ \E c \in Clients \cup {None}, vm \in BOOLEAN : Attach(c, vm)
  PROVE  Unpushed /\ UNCHANGED <<sendQueue, msg>>
<1>1. CASE Migrated
  <2>1. UNCHANGED <<sendQueue, msg>>
    BY <1>1 DEF Migrated, Restore, readLocals
  <2>2. Moves(WakeOps \cup {"flush", "start", "startW", "startR"}, {"start", "startW", "startR"})
    BY <1>1, CallingMoves
  <2>3. {WakeOps \cup {"flush", "start", "startW", "startR"}, {"start", "startW", "startR"}}
          \subseteq SUBSET (Ops \ {"pushed"})
    BY DEF WakeOps, Ops
  <2> QED BY <2>1, <2>2, <2>3, UnpushedSteps
<1>2. CASE \/ Detach \/ Destroy \/ ResetRelease
           \/ \E c \in Clients \cup {None}, vm \in BOOLEAN : Attach(c, vm)
  <2>1. Moves({"flush", "start"} \cup EndOps, EndOps)
    BY <1>2, EndingMoves
  <2>2. {{"flush", "start"} \cup EndOps, EndOps} \subseteq SUBSET (Ops \ {"pushed"})
    BY DEF EndOps, Ops
  <2>3. Unpushed
    BY <2>1, <2>2, UnpushedSteps
  <2>4. Detach \/ Destroy \/ ResetRelease => UNCHANGED <<sendQueue, msg>>
    BY DEF Detach, Destroy, ResetRelease, sendVars, readLocals
  <2>5. ASSUME NEW c \in Clients \cup {None}, NEW vm \in BOOLEAN, Attach(c, vm)
        PROVE  UNCHANGED <<sendQueue, msg>>
    <3>1. /\ msg' = msg
          /\ \/ sendQueue' = sendQueue
             \/ c \notin clients /\ c \in Clients /\ sendQueue' = [sendQueue EXCEPT ![c] = <<>>]
      BY <2>5 DEF Attach, AddClient, sendVars, readLocals
    <3> QED BY <3>1 DEF MessageInv, TypeOK, SendTypes
  <2> QED BY <1>2, <2>3, <2>4, <2>5
<1> QED BY <1>1, <1>2

LEMMA RefsNext ==
  ASSUME ConstantsOK, TypeOK, DeviceInv, RemovalInv, MessageInv, RefsInv, [Next]_vars
  PROVE  RefsInv'
<1>1. ASSUME Unpushed, UNCHANGED <<sendQueue, msg>>, PoolSame PROVE RefsInv'
  BY <1>1, PlainRefs
<1>2. Still => Unpushed /\ UNCHANGED <<sendQueue, msg>>
  <2>1. {Ops \ KeepOps} \subseteq SUBSET (Ops \ {"pushed"})
    BY DEF KeepOps, RootOps, PushOps
  <2> QED BY <2>1, UnpushedSteps DEF Still, sendVars
<1>3. CASE PoolSame
  <2>1. CASE \E c \in Clients : \/ WaitTimeout(c) \/ FreeEnd(c) \/ ClientDisconnect(c) \/ RestoreNone(c)
                                \/ \E n \in 0..MaxSend : TokensSet(c, n) \/ TokensAdd(c, n) \/ ClientAdd(c, n)
    BY <1>1, <1>3, <2>1, EventsRefs
  <2>2. CASE \/ Detach \/ Destroy \/ ResetRelease \/ Migrated
             \/ \E c \in Clients \cup {None}, vm \in BOOLEAN : Attach(c, vm)
    BY <1>1, <1>3, <2>2, DeviceRefs
  <2> QED BY <1>1, <1>2, <1>3, <2>1, <2>2, Steps, ReadingRefs, PushingRefs, FreeQueuedRefs, ResetQueuesRefs
<1> QED BY <1>3, PoolSteps, ReadingRefs, ResetQueuesRefs, ChannelRefs, PushingRefs, FreeQueuedRefs

LEMMA RefsInit ==
  ASSUME ConstantsOK, Init
  PROVE  RefsInv
<1>1. ASSUME NEW b \in Bufs PROVE refs[b] = PipeRefs(b) + QueueRefs(b) + StackRefs(b) + MsgRef(b)
  <2>1. \A c \in Clients : Hits(pipe[c], Carrying(b)) = {} /\ Hits(sendQueue[c], {b}) = {}
    BY DEF Init, Hits
  <2>2. /\ Places(pipe, Clients, Carrying(b)) = {} /\ Places(sendQueue, Clients, {b}) = {}
        /\ Hits(stack, PushedWith(b)) = {}
    BY <2>1 DEF Places, Init, Hits
  <2>3. PipeRefs(b) = 0 /\ QueueRefs(b) = 0 /\ StackRefs(b) = 0
    BY <2>2, FS_EmptySet DEF PipeRefs, QueueRefs, StackRefs, Count
  <2>4. MsgRef(b) = 0 /\ refs[b] = 0
    BY DEF MsgRef, Init, ConstantsOK
  <2> QED BY <2>3, <2>4
<1> QED BY <1>1 DEF RefsInv

LEMMA RefsMean ==
  ASSUME ConstantsOK, TypeOK, RefsInv
  PROVE  RefsMatch
<1> DEFINE InPipes(b) == UNION {{c} \X {i \in DOMAIN pipe[c] : pipe[c][i].buf = b} : c \in Clients}
<1>1. ASSUME NEW b \in Bufs
      PROVE  /\ InPipes(b) = Places(pipe, Clients, Carrying(b))
             /\ {i \in DOMAIN stack : stack[i].op = "pushed" /\ stack[i].b = b}
                  = Hits(stack, PushedWith(b))
  <2>1. \A c \in Clients : pipe[c] \in Seq(PipeItem)
    BY DEF TypeOK, ChanTypes
  <2>2. \A c \in Clients : {i \in DOMAIN pipe[c] : pipe[c][i].buf = b} = Hits(pipe[c], Carrying(b))
    <3> TAKE c \in Clients
    <3>1. /\ DOMAIN pipe[c] = 1..Len(pipe[c])
          /\ \A i \in 1..Len(pipe[c]) : pipe[c][i] \in PipeItem
      BY <2>1, LenProperties, ElementOfSeq
    <3> QED BY <3>1 DEF Hits, Carrying
  <2>3. {{c} \X {i \in DOMAIN pipe[c] : pipe[c][i].buf = b} : c \in Clients}
          = {{c} \X Hits(pipe[c], Carrying(b)) : c \in Clients}
    BY <2>2
  <2>4. InPipes(b) = Places(pipe, Clients, Carrying(b))
    BY <2>3 DEF Places
  <2>5. /\ DOMAIN stack = 1..Len(stack)
        /\ \A i \in 1..Len(stack) : stack[i] \in Frame
    BY StackFacts, LenProperties, ElementOfSeq
  <2>6. {i \in DOMAIN stack : stack[i].op = "pushed" /\ stack[i].b = b} = Hits(stack, PushedWith(b))
    BY <2>5 DEF Hits, PushedWith
  <2> QED BY <2>4, <2>6
<1>2. \A b \in Bufs : InQueues(b, Clients) = Places(sendQueue, Clients, {b})
  BY QueuePlaces
<1> HIDE DEF InPipes
<1>3. \A b \in Bufs :
        refs[b] = Cardinality(InPipes(b)) + Cardinality(InQueues(b, Clients))
                  + Cardinality({i \in DOMAIN stack : stack[i].op = "pushed" /\ stack[i].b = b})
                  + (IF msg = b THEN 1 ELSE 0)
  BY <1>1, <1>2 DEF RefsInv, PipeRefs, QueueRefs, StackRefs, MsgRef, Count
<1> QED BY <1>3 DEF RefsMatch, InPipes

\* The references of a read buffer are counted right in every state, frame by frame: an item
\* of a pipe, a place in a queue, a send loop that has taken the message, the read loop.
THEOREM RefsInvAlways == Spec => []RefsInv
<1> DEFINE I == TypeOK /\ WritingInv
           J == MessageInv /\ QueueInv
<1>1. Init => RefsInv
  BY ConstantsOK, RefsInit
<1>2. I /\ J /\ RefsInv /\ [Next]_vars => RefsInv'
  BY ConstantsOK, RefsNext DEF WritingInv
<1> HIDE DEF J
<1> QED BY <1>1, <1>2, TypeCorrect, WritingAlways, QueuesAlways, PTL DEF Spec, J

\* A buffer read from the device is freed when the last one who may send it is done with it,
\* and not before: every reference counted in VDIReadBuf.refs is held by an item of a pipe, a
\* place in a queue, the read loop or a send loop, and the other way round, however these
\* calls nest and whatever clients are removed or reset meanwhile.
THEOREM RefsAlways == Spec => []RefsMatch
<1>1. TypeOK /\ RefsInv => RefsMatch
  BY ConstantsOK, RefsMean
<1> QED BY <1>1, TypeCorrect, RefsInvAlways, PTL

-----------------------------------------------------------------------------
(* What a client was sent.                                                 *)

\* The messages handed to the channel of c, those in its queue and, until it is dealt
\* with, the one at hand are all that was read, in the order of reading.
GapOf(c) ==
  /\ handed[c] + Len(sendQueue[c]) + (IF c \in todo THEN 1 ELSE 0) = lastRead
  /\ \A i \in 1..Len(sendQueue[c]) : serial[sendQueue[c][i]] = handed[c] + i

GapInv ==
  /\ msg # None => serial[msg] = lastRead
  /\ \A c \in Clients : Served(c) => GapOf(c)

\* A client for which a step changes nothing.
LEMMA GapKept ==
  ASSUME NEW c \in Clients, GapOf(c), UNCHANGED <<lastRead, serial>>,
         handed'[c] = handed[c], sendQueue'[c] = sendQueue[c], c \in todo' <=> c \in todo
  PROVE  GapOf(c)'
BY DEF GapOf

\* What was read so far was handed to c, or is not for it.
LEMMA GapNone ==
  ASSUME NEW c, sendQueue'[c] = <<>>, handed'[c] = lastRead', c \notin todo', lastRead' \in Nat
  PROVE  GapOf(c)'
<1>1. Len(sendQueue'[c]) = 0
  BY EmptySeq
<1>2. 1..0 = {}
  OBVIOUS
<1>3. handed'[c] + 0 + 0 = lastRead'
  <2>1. \A r \in Nat : r + 0 + 0 = r
    OBVIOUS
  <2> QED BY <2>1
<1> QED BY <1>1, <1>2, <1>3 DEF GapOf

LEMMA GapTypes ==
  ASSUME TypeOK, NEW c \in Clients
  PROVE  /\ handed[c] \in Nat /\ sendQueue[c] \in Seq(Bufs) /\ Len(sendQueue[c]) \in Nat
         /\ lastRead \in Nat /\ \A b \in Bufs : serial[b] \in Nat
         /\ \A i \in 1..Len(sendQueue[c]) : sendQueue[c][i] \in Bufs
<1>1. sendQueue[c] \in Seq(Bufs)
  BY DEF TypeOK, SendTypes
<1> QED BY <1>1, LenProperties, ElementOfSeq DEF TypeOK, SendTypes, ReadTypes, PoolTypes

LEMMA GapStill ==
  ASSUME TypeOK, GapInv, Still
  PROVE  GapInv'
<1>1. \A c \in Clients : Served(c)' => Served(c)
  BY StillServed
<1>2. UNCHANGED <<handed, sendQueue, serial, lastRead, msg, todo>>
  BY DEF Still, sendVars
<1> QED BY <1>1, <1>2, GapKept DEF GapInv

\* A buffer without references is in no queue.
LEMMA FreeNowhere ==
  ASSUME ConstantsOK, TypeOK, RefsInv, NEW b \in Free, NEW c \in Clients,
         NEW i \in 1..Len(sendQueue[c])
  PROVE  sendQueue[c][i] # b
<1>1. b \in Bufs /\ refs[b] = 0
  BY DEF Free
<1>2. QueueRefs(b) = 0
  <2>1. /\ PipeRefs(b) \in Nat /\ StackRefs(b) \in Nat /\ MsgRef(b) \in {0, 1} /\ QueueRefs(b) \in Nat
        /\ refs[b] = PipeRefs(b) + QueueRefs(b) + StackRefs(b) + MsgRef(b)
    BY <1>1, RefTypes DEF RefsInv
  <2> QED BY <1>1, <2>1
<1>3. Places(sendQueue, Clients, {b}) = {}
  <2>1. IsFiniteSet(Places(sendQueue, Clients, {b}))
    <3>1. IsFiniteSet(Clients) /\ \A d \in Clients : sendQueue[d] \in Seq(Bufs)
      BY DEF ConstantsOK, TypeOK, SendTypes
    <3> QED BY <3>1, PlacesTypes
  <2> QED BY <1>2, <2>1, FS_EmptySet DEF QueueRefs
<1>4. Hits(sendQueue[c], {b}) = {}
  <2>1. {c} \X Hits(sendQueue[c], {b}) \subseteq Places(sendQueue, Clients, {b})
    BY DEF Places
  <2>2. \A j \in Hits(sendQueue[c], {b}) : <<c, j>> \in {c} \X Hits(sendQueue[c], {b})
    OBVIOUS
  <2> QED BY <1>3, <2>1, <2>2
<1> QED BY <1>4 DEF Hits

LEMMA GapReading ==
  ASSUME ConstantsOK, TypeOK, DeviceInv, MessageInv, QueueInv, RefsInv, GapInv, Reading
  PROVE  GapInv'
<1>1. \A c \in Clients : Served(c)' => Served(c)
  BY ReadingServed
<1>2. CASE UNCHANGED <<handed, sendQueue, serial, lastRead, msg, todo>>
  BY <1>1, <1>2, GapKept DEF GapInv
<1>3. CASE ReadMsg
  <2>1. PICK b \in Free : serial' = [serial EXCEPT ![b] = lastRead + 1] /\ msg' = b
    BY <1>3 DEF ReadMsg
  <2>2. /\ msg = None /\ todo = {} /\ todo' = clients /\ lastRead' = lastRead + 1
        /\ UNCHANGED <<handed, sendQueue>> /\ b \in Bufs
    BY <1>3 DEF ReadMsg, sendVars, Free, TypeOK, ReadTypes
  <2>3. serial'[msg'] = lastRead'
    BY <2>1, <2>2 DEF TypeOK, PoolTypes
  <2>4. ASSUME NEW c \in Clients, Served(c)' PROVE GapOf(c)'
    <3>1. GapOf(c) /\ c \in todo'
      BY <1>1, <2>2, <2>4 DEF GapInv, Served
    <3>2. \A i \in 1..Len(sendQueue[c]) : serial'[sendQueue[c][i]] = serial[sendQueue[c][i]]
      BY <2>1, FreeNowhere DEF TypeOK, PoolTypes
    <3>3. handed[c] + Len(sendQueue[c]) + 0 = lastRead
      BY <2>2, <3>1 DEF GapOf
    <3>4. handed[c] + Len(sendQueue[c]) + 1 = lastRead'
      BY <2>2, <3>3, GapTypes
    <3> QED BY <2>2, <3>1, <3>2, <3>4 DEF GapOf
  <2> QED BY <2>3, <2>4 DEF GapInv
<1>4. ASSUME NEW c \in Clients, SendNow(c) PROVE GapInv'
  <2>1. /\ UNCHANGED <<sendQueue, serial, lastRead, msg>> /\ c \in todo /\ todo' = todo \ {c}
        /\ sendQueue[c] = <<>> /\ handed' = [handed EXCEPT ![c] = serial[msg]]
    BY <1>4 DEF SendNow, SendMsg, guestVars
  <2>2. msg # None /\ serial[msg] = lastRead
    BY <2>1 DEF TypeOK, ReadTypes, GapInv
  <2>3. handed'[c] = lastRead /\ \A d \in Clients \ {c} : handed'[d] = handed[d]
    BY <2>1, <2>2 DEF TypeOK, SendTypes
  <2>4. GapOf(c)'
    BY <2>1, <2>3, GapNone, GapTypes
  <2>5. \A d \in Clients \ {c} : GapOf(d) => GapOf(d)'
    BY <2>1, <2>3, GapKept
  <2> QED BY <1>1, <2>1, <2>2, <2>4, <2>5 DEF GapInv
<1>5. ASSUME NEW c \in Clients, SendLater(c) PROVE GapInv'
  <2>1. /\ UNCHANGED <<handed, serial, lastRead, msg>> /\ c \in todo /\ todo' = todo \ {c}
        /\ sendQueue' = [sendQueue EXCEPT ![c] = Append(@, msg)]
    BY <1>5 DEF SendLater, Enqueue, guestVars
  <2>2. msg \in Bufs /\ msg # None /\ serial[msg] = lastRead
    BY <2>1 DEF TypeOK, ReadTypes, GapInv
  <2>3. \A d \in Clients \ {c} : GapOf(d) => GapOf(d)'
    <3>1. \A d \in Clients \ {c} : sendQueue'[d] = sendQueue[d]
      BY <2>1 DEF TypeOK, SendTypes
    <3> QED BY <2>1, <3>1, GapKept
  <2>4. ASSUME GapOf(c) PROVE GapOf(c)'
    <3> DEFINE q == sendQueue[c]
               n == Len(q)
    <3>1. /\ q \in Seq(Bufs) /\ n \in Nat /\ handed[c] \in Nat /\ lastRead \in Nat
          /\ sendQueue'[c] = Append(q, msg)
      BY <2>1, GapTypes DEF TypeOK, SendTypes
    <3>2. handed[c] + n + 1 = lastRead /\ \A i \in 1..n : serial[q[i]] = handed[c] + i
      BY <2>1, <2>4 DEF GapOf
    <3> HIDE DEF q
    <3>0. n = Len(q) /\ msg \in Bufs
      BY <2>2
    <3>3. /\ Len(Append(q, msg)) = n + 1 /\ Append(q, msg)[n + 1] = msg
          /\ \A i \in 1..n : Append(q, msg)[i] = q[i]
      BY <3>0, <3>1, AppendProperties
    <3> HIDE DEF n
    <3>4. \A i \in 1..(n + 1) : serial[Append(q, msg)[i]] = handed[c] + i
      <4> TAKE i \in 1..(n + 1)
      <4>0. handed[c] + (n + 1) = lastRead
        BY <3>1, <3>2, SMTT(20)
      <4>1. CASE i = n + 1
        BY <2>2, <3>3, <4>0, <4>1
      <4>2. CASE i # n + 1
        <5>1. i \in 1..n
          BY <3>1, <4>2
        <5> QED BY <3>2, <3>3, <5>1
      <4> QED BY <4>1, <4>2
    <3>5. Len(sendQueue'[c]) = n + 1 /\ handed'[c] = handed[c] /\ lastRead' = lastRead
      BY <2>1, <3>1, <3>3
    <3>6. \A i \in 1..Len(sendQueue'[c]) : serial'[sendQueue'[c][i]] = handed'[c] + i
      BY <2>1, <3>1, <3>4, <3>5
    <3>7. handed[c] + (n + 1) + 0 = lastRead
      <4>1. \A h, m \in Nat : h + (m + 1) + 0 = h + m + 1
        OBVIOUS
      <4> QED BY <3>1, <3>2, <4>1
    <3>8. handed'[c] + Len(sendQueue'[c]) + 0 = lastRead'
      BY <3>5, <3>7
    <3> QED BY <2>1, <3>6, <3>8 DEF GapOf
  <2> QED BY <1>1, <2>1, <2>2, <2>3, <2>4 DEF GapInv
<1>6. ASSUME NEW c \in Clients, SendOverflow(c) PROVE GapInv'
  <2>1. /\ UNCHANGED <<handed, sendQueue, serial, lastRead, msg>> /\ todo' = todo \ {c}
        /\ queueSize[c] >= MaxQueue /\ RemoveClient(c)
    BY <1>6 DEF SendOverflow, sendVars, poolVars, guestVars
  <2>2. conn[c] \notin {"mig", "late"}
    <3>1. queueSize[c] # 0
      <4>1. MaxQueue \in Nat \ {0}
        BY DEF ConstantsOK
      <4> QED BY <2>1, <4>1
    <3> QED BY <3>1 DEF DeviceInv, QueueInv, NothingQueued
  <2>3. ~Served(c)'
    <3>1. conn'[c] \notin Open
      BY <2>1, <2>2 DEF RemoveClient, Open, TypeOK, ChanTypes
    <3> QED BY <3>1 DEF Served
  <2>4. \A d \in Clients \ {c} : GapOf(d) => GapOf(d)'
    BY <2>1, GapKept
  <2> QED BY <1>1, <2>1, <2>3, <2>4 DEF GapInv
<1>7. CASE SendDone
  <2>1. UNCHANGED <<handed, sendQueue, serial, lastRead, todo>> /\ msg' = None
    BY <1>7 DEF SendDone, DropMsg, sendVars, guestVars
  <2> QED BY <1>1, <2>1, GapKept DEF GapInv
<1>8. CASE ReadRefused \/ ReadNested \/ ReadBegin \/ ReadDiscard \/ ReadNothing \/ ReadAgain \/ ReadEnd
  <2>1. UNCHANGED <<handed, sendQueue, serial, lastRead, msg, todo>>
    BY <1>8 DEF ReadRefused, ReadNested, ReadBegin, ReadDiscard, ReadNothing, ReadAgain, ReadEnd,
                sendVars, poolVars, guestVars, readLocals
  <2> QED BY <1>2, <2>1
<1> QED BY <1>3, <1>4, <1>5, <1>6, <1>7, <1>8 DEF Reading

\* The send loop takes the oldest message of the queue.
LEMMA GapPushing ==
  ASSUME ConstantsOK, TypeOK, MessageInv, GapInv, NEW c \in Clients, Pushing(c)
  PROVE  GapInv'
<1>1. \A d \in Clients : Served(d)' => Served(d)
  BY PushingServed
<1>2. CASE PushOne(c)
  <2> DEFINE q == sendQueue[c]
             n == Len(q)
  <2>1. /\ q # <<>> /\ sendQueue' = [sendQueue EXCEPT ![c] = Tail(@)]
        /\ handed' = [handed EXCEPT ![c] = serial[Head(q)]]
        /\ UNCHANGED <<serial, lastRead, msg, todo>>
    BY <1>2 DEF PushOne, SendMsg, guestVars, readLocals
  <2>2. \A d \in Clients \ {c} : GapOf(d) => GapOf(d)'
    <3>1. \A d \in Clients \ {c} : sendQueue'[d] = sendQueue[d] /\ handed'[d] = handed[d]
      BY <2>1 DEF TypeOK, SendTypes
    <3> QED BY <2>1, <3>1, GapKept
  <2>3. ASSUME GapOf(c) PROVE GapOf(c)'
    <3>1. /\ q \in Seq(Bufs) /\ n \in Nat /\ handed[c] \in Nat /\ lastRead \in Nat
          /\ sendQueue'[c] = Tail(q) /\ handed'[c] = serial[Head(q)]
      BY <2>1, GapTypes DEF TypeOK, SendTypes
    <3>2. PICK k \in {0, 1} : k = IF c \in todo THEN 1 ELSE 0
      OBVIOUS
    <3>3. handed[c] + n + k = lastRead /\ \A i \in 1..n : serial[q[i]] = handed[c] + i
      BY <2>3, <3>2 DEF GapOf
    <3>4. q # <<>>
      BY <2>1
    <3> HIDE DEF q
    <3>5. /\ n > 0 /\ Head(q) = q[1] /\ Len(Tail(q)) = n - 1
          /\ \A i \in 1..(n - 1) : Tail(q)[i] = q[i + 1]
      BY <3>1, <3>4, EmptySeq, LenProperties, HeadTailProperties
    <3> HIDE DEF n
    <3>6. serial[q[1]] = handed[c] + 1
      BY <3>1, <3>3, <3>5
    <3>7. handed'[c] + Len(sendQueue'[c]) + k = lastRead'
      <4>1. handed'[c] = handed[c] + 1 /\ Len(sendQueue'[c]) = n - 1 /\ lastRead' = lastRead
        BY <2>1, <3>1, <3>5, <3>6
      <4>2. (handed[c] + 1) + (n - 1) + k = lastRead
        <5>1. \A h, m, j \in Nat : (h + 1) + (m - 1) + j = h + m + j
          OBVIOUS
        <5>2. k \in Nat
          BY <3>2
        <5>3. handed[c] \in Nat /\ n \in Nat
          BY <3>1
        <5>4. handed[c] + n + k = lastRead
          BY <3>3
        <5> QED BY <5>1, <5>2, <5>3, <5>4
      <4> QED BY <4>1, <4>2
    <3>8. \A i \in 1..(n - 1) : serial[Tail(q)[i]] = handed[c] + 1 + i
      <4> TAKE i \in 1..(n - 1)
      <4>1. i + 1 \in 1..n /\ Tail(q)[i] = q[i + 1] /\ i \in Nat
        BY <3>1, <3>5
      <4>2. serial[q[i + 1]] = handed[c] + (i + 1)
        BY <3>3, <4>1
      <4>3. handed[c] + (i + 1) = handed[c] + 1 + i
        <5>1. \A h, m \in Nat : h + (m + 1) = h + 1 + m
          OBVIOUS
        <5> QED BY <3>1, <4>1, <5>1
      <4> QED BY <4>1, <4>2, <4>3
    <3>9. \A i \in 1..Len(sendQueue'[c]) : serial'[sendQueue'[c][i]] = handed'[c] + i
      <4>1. /\ handed'[c] = handed[c] + 1 /\ Len(sendQueue'[c]) = n - 1 /\ serial' = serial
            /\ sendQueue'[c] = Tail(q)
        BY <2>1, <3>1, <3>5, <3>6
      <4> QED BY <3>8, <4>1
    <3> QED BY <2>1, <3>2, <3>7, <3>9 DEF GapOf
  <2> QED BY <1>1, <2>1, <2>2, <2>3 DEF GapInv
<1>3. CASE ~PushOne(c)
  <2>1. UNCHANGED <<handed, sendQueue, serial, lastRead, msg, todo>>
    BY <1>3 DEF Pushing, PushUnref, PushShrink, PushEnd, AbsorbEnd, sendVars, poolVars, guestVars,
                readLocals
  <2> QED BY <1>1, <2>1, GapKept DEF GapInv
<1> QED BY <1>2, <1>3

\* Steps that bring or take tokens, remove clients, or end or reset the device.
LEMMA GapEvents ==
  ASSUME ConstantsOK, TypeOK, MessageInv, GapInv, NEW c \in Clients,
         \/ WaitTimeout(c) \/ FreeQueued(c) \/ FreeEnd(c) \/ ClientDisconnect(c) \/ RestoreNone(c)
         \/ \E n \in 0..MaxSend : TokensSet(c, n) \/ TokensAdd(c, n)
  PROVE  GapInv'
<1>1. CASE FreeQueued(c) \/ FreeEnd(c)
  <2>1. /\ UNCHANGED <<handed, serial, lastRead, msg, todo>>
        /\ \A d \in Clients \ {c} : sendQueue'[d] = sendQueue[d]
    BY <1>1 DEF FreeQueued, FreeEnd, poolVars, guestVars, readLocals, TypeOK, SendTypes
  <2> QED BY <1>1, <2>1, FreeServed, GapKept DEF GapInv
<1>2. CASE \/ WaitTimeout(c) \/ ClientDisconnect(c) \/ RestoreNone(c)
           \/ \E n \in 0..MaxSend : TokensSet(c, n) \/ TokensAdd(c, n)
  <2>1. UNCHANGED <<handed, sendQueue, serial, lastRead, msg, todo, clients>>
    BY <1>2 DEF WaitTimeout, ClientDisconnect, RestoreNone, TokensSet, TokensAdd, Absorb, poolVars,
                guestVars, readLocals, sendVars
  <2>2. Active = {}
    BY <1>2, HasFrames DEF WaitTimeout, ClientDisconnect, RestoreNone, TokensSet, TokensAdd, Absorb, Idle
  <2>3. \A d \in Clients : conn'[d] \in Open => conn[d] \in Open
    <3>1. \/ conn' = conn \/ RemoveClient(c)
          \/ c \in Waiting /\ conn' = [conn EXCEPT ![c] = "open"]
      BY <1>2 DEF WaitTimeout, ClientDisconnect, RestoreNone, TokensSet, TokensAdd, Absorb, chanVars
    <3> QED BY <3>1 DEF RemoveClient, Waiting, Open, TypeOK, ChanTypes
  <2>4. \A d \in Clients : Served(d)' => Served(d)
    BY <2>1, <2>2, <2>3 DEF Served
  <2> QED BY <2>1, <2>4, GapKept DEF GapInv
<1> QED BY <1>1, <1>2

LEMMA GapEnding ==
  ASSUME ConstantsOK, TypeOK, MessageInv, GapInv, Detach \/ Destroy \/ ResetRelease \/ ResetQueues
  PROVE  GapInv'
<1>1. \A c \in Clients : Served(c)' => Served(c)
  BY EndingServed
<1>2. msg = None /\ todo = {}
  BY EndingMessage DEF TypeOK, ReadTypes
<1>3. UNCHANGED <<serial, lastRead, msg, todo>>
  BY DEF Detach, Destroy, ResetRelease, ResetQueues, poolVars, guestVars, readLocals
<1>4. CASE ResetQueues
  <2>1. \A c \in clients : c \in Clients /\ sendQueue'[c] = <<>> /\ handed'[c] = lastRead'
    BY <1>3, <1>4 DEF ResetQueues, TypeOK, DeviceTypes
  <2>2. lastRead' \in Nat /\ todo' = {}
    BY <1>2, <1>3 DEF TypeOK, ReadTypes
  <2>3. \A c \in clients : GapOf(c)'
    BY <2>1, <2>2, GapNone
  <2> QED BY <1>1, <1>2, <1>3, <2>3 DEF GapInv, Served
<1>5. CASE Detach \/ Destroy \/ ResetRelease
  <2>1. UNCHANGED <<handed, sendQueue>>
    BY <1>5 DEF Detach, Destroy, ResetRelease, sendVars
  <2> QED BY <1>1, <1>3, <2>1, GapKept DEF GapInv
<1> QED BY <1>4, <1>5

LEMMA GapAdding ==
  ASSUME ConstantsOK, TypeOK, MessageInv, GapInv,
         \/ \E c \in Clients, n \in 0..MaxSend : ClientAdd(c, n)
         \/ \E c \in Clients \cup {None}, vm \in BOOLEAN : Attach(c, vm)
         \/ Migrated
  PROVE  GapInv'
<1>1. Active = {} /\ msg = None /\ todo = {}
  BY AddingFrames, AddingMessage DEF TypeOK, ReadTypes
<1>2. UNCHANGED <<serial, lastRead, msg, todo>>
  BY DEF ClientAdd, Attach, Migrated, Restore, poolVars, guestVars, readLocals
<1>3. ASSUME NEW c \in Clients, NEW n, AddClient(c, n), conn' = conn
      PROVE  GapInv'
  <2>1. /\ sendQueue'[c] = <<>> /\ handed'[c] = lastRead'
        /\ \A d \in Clients \ {c} : UNCHANGED <<sendQueue[d], handed[d]>>
        /\ clients' = clients \cup {c}
    BY <1>2, <1>3 DEF AddClient, TypeOK, SendTypes
  <2>2. GapOf(c)'
    <3>1. lastRead' \in Nat /\ c \notin todo'
      BY <1>1, <1>2 DEF TypeOK, ReadTypes
    <3> QED BY <2>1, <3>1, GapNone
  <2>3. \A d \in Clients \ {c} : GapOf(d) => GapOf(d)'
    BY <1>2, <2>1, GapKept
  <2>4. \A d \in Clients \ {c} : Served(d)' => Served(d)
    BY <1>1, <1>3, <2>1 DEF Served
  <2> QED BY <1>1, <1>2, <2>2, <2>3, <2>4 DEF GapInv
<1>4. ASSUME UNCHANGED <<clients, sendQueue, handed>>,
             \A d \in Clients : conn'[d] \in Open => conn[d] \in Open
      PROVE  GapInv'
  <2>1. \A d \in Clients : Served(d)' => Served(d)
    BY <1>1, <1>4 DEF Served
  <2> QED BY <1>2, <1>4, <2>1, GapKept DEF GapInv
<1>5. CASE \E c \in Clients, n \in 0..MaxSend : ClientAdd(c, n)
  BY <1>3, <1>5 DEF ClientAdd
<1>6. CASE \E c \in Clients \cup {None}, vm \in BOOLEAN : Attach(c, vm)
  BY <1>3, <1>4, <1>6 DEF Attach, sendVars
<1>7. CASE Migrated
  <2>1. UNCHANGED <<clients, sendQueue, handed>>
    BY <1>7 DEF Migrated, Restore
  <2>2. \A d \in Clients : conn'[d] \in Open => conn[d] \in Open
    BY <1>7 DEF Migrated, Restore, TypeOK, ChanTypes, Open
  <2> QED BY <1>4, <2>1, <2>2
<1> QED BY <1>5, <1>6, <1>7

LEMMA GapNext ==
  ASSUME ConstantsOK, TypeOK, DeviceInv, RemovalInv, MessageInv, QueueInv, RefsInv, GapInv, [Next]_vars
  PROVE  GapInv'
BY Steps, GapStill, GapReading, GapPushing, GapEvents, GapEnding, GapAdding

\* Every attached client whose channel works gets every message read from the device since
\* it was added, once and in the order of reading, whatever is queued, sent later, removed
\* or read in between.
THEOREM GapAlways == Spec => []NoGap
<1> DEFINE I == TypeOK /\ WritingInv
           J == MessageInv /\ QueueInv
<1>1. Init => GapInv
  BY DEF Init, GapInv, Served
<1>2. I /\ J /\ RefsInv /\ GapInv /\ [Next]_vars => GapInv'
  BY ConstantsOK, GapNext DEF WritingInv
<1>3. TypeOK /\ GapInv => NoGap
  <2>1. SUFFICES ASSUME TypeOK, GapInv, NEW c \in clients, conn[c] = "open", ~Leaving(c)
                 PROVE  /\ handed[c] + Len(sendQueue[c]) + (IF c \in todo THEN 1 ELSE 0) = lastRead
                        /\ \A i \in DOMAIN sendQueue[c] : serial[sendQueue[c][i]] = handed[c] + i
    BY DEF NoGap
  <2>2. c \in Clients /\ DOMAIN stack = 1..Len(stack) /\ DOMAIN sendQueue[c] = 1..Len(sendQueue[c])
    <3>1. c \in Clients
      BY <2>1 DEF TypeOK, DeviceTypes
    <3>2. stack \in Seq(Frame) /\ sendQueue[c] \in Seq(Bufs)
      BY <2>1, <3>1, StackFacts, GapTypes
    <3> QED BY <3>1, <3>2, LenProperties
  <2>3. Served(c)
    BY <2>1, <2>2 DEF Served, Open, Active, Frames, Leaving
  <2> QED BY <2>1, <2>2, <2>3 DEF GapInv, GapOf
<1> HIDE DEF J
<1> QED BY <1>1, <1>2, <1>3, TypeCorrect, WritingAlways, QueuesAlways, RefsInvAlways, PTL DEF Spec, J

-----------------------------------------------------------------------------
(* Messages that could be read.                                            *)

\* The device has a message that c can be sent, and a buffer for it.
Eager(c) == c \in clients /\ Usable /\ CanSend(c) /\ pending > 0 /\ Free # {}

\* A frame that has yet to ask the device for messages.
AwakeOps == {"read?", "read", "start", "startW"}

Awake(c) ==
  \/ Has(AwakeOps)
  \/ Has({"read0"}) /\ reading = 2
  \/ FC("absorb", c) \in Active

WakeInv == \A c \in Clients : Eager(c) => Awake(c)

\* Steps after which nobody has more to wait for, unless the device was woken up.
Drowsy ==
  /\ reading' = reading
  /\ \A f \in Active : f.op \in AwakeOps \cup {"read0", "absorb"} => f \in Active'
  /\ \A c \in Clients : Eager(c)' => Eager(c) \/ F("read?") \in Active'

LEMMA WokenUp ==
  ASSUME F("read?") \in Active' \/ F("read") \in Active' \/ F("start") \in Active'
  PROVE  \A c \in Clients : Awake(c)'
<1>1. F("read?").op \in AwakeOps /\ F("read").op \in AwakeOps /\ F("start").op \in AwakeOps
  BY DEF F, AwakeOps
<1>2. Has(AwakeOps)'
  BY <1>1 DEF Has
<1> QED BY <1>2 DEF Awake

LEMMA WakeupRuns ==
  ASSUME NEW rest \in Seq(Frame), stack' = Wakeup \o rest
  PROVE  F("read?") \in Active'
<1>1. Wakeup \in Seq(Frame)
  BY FrameFacts
<1>2. Frames(Wakeup) = {F("write?"), F("read?")}
  BY FramesOf DEF Wakeup
<1>3. Frames(Wakeup \o rest) = Frames(Wakeup) \cup Frames(rest)
  BY <1>1, FramesOf
<1> QED BY <1>2, <1>3 DEF Active

\* What was asked for before is asked for afterwards.
LEMMA AwakeKept ==
  ASSUME NEW c, Awake(c), reading' = reading,
         \A f \in Active : f.op \in AwakeOps \cup {"read0", "absorb"} => f \in Active'
  PROVE  Awake(c)'
<1>1. Has(AwakeOps) => Has(AwakeOps)'
  BY DEF Has
<1>2. Has({"read0"}) => Has({"read0"})'
  BY DEF Has
<1>3. FC("absorb", c).op = "absorb"
  BY DEF FC
<1> QED BY <1>1, <1>2, <1>3 DEF Awake

LEMMA WakeDrowsy ==
  ASSUME WakeInv, Drowsy
  PROVE  WakeInv'
<1>1. ASSUME NEW c \in Clients, Eager(c)' PROVE Awake(c)'
  <2>1. CASE F("read?") \in Active'
    BY <2>1, WokenUp
  <2>2. CASE F("read?") \notin Active'
    <3>1. Awake(c)
      BY <1>1, <2>2 DEF Drowsy, WakeInv
    <3> QED BY <3>1, AwakeKept DEF Drowsy
  <2> QED BY <2>1, <2>2
<1> QED BY <1>1 DEF WakeInv

LEMMA EagerKept ==
  ASSUME UNCHANGED <<running, waitMig, attached, sendTokens, pending>>, clients' \subseteq clients,
         Free' \subseteq Free
  PROVE  \A c \in Clients : Eager(c)' => Eager(c)
BY DEF Eager, Usable, CanSend

\* A buffer that becomes free wakes the device up.
LEMMA UnrefWakes ==
  ASSUME TypeOK, DeviceInv, NEW b, NEW rest \in Seq(Frame), Unref(b, rest),
         UNCHANGED <<exists, running, waitMig, attached, sendTokens, pending>>,
         clients' \subseteq clients
  PROVE  \A c \in Clients : Eager(c)' => Eager(c) \/ F("read?") \in Active'
<1>1. /\ refs \in [Bufs -> Int] /\ refs' = [refs EXCEPT ![b] = @ - 1]
      /\ stack' = (IF refs[b] = 1 /\ exists THEN Wakeup ELSE <<>>) \o rest
  BY DEF TypeOK, PoolTypes, Unref
<1>2. CASE refs[b] = 1 /\ exists
  <2>1. stack' = Wakeup \o rest
    BY <1>1, <1>2
  <2> QED BY <2>1, WakeupRuns
<1>3. CASE ~exists
  BY <1>3 DEF DeviceInv, Eager, Usable
<1>4. CASE refs[b] # 1
  <2>1. Free' \subseteq Free
    <3>1. ASSUME NEW x \in Bufs, refs'[x] = 0 PROVE refs[x] = 0
      <4>1. CASE x # b
        BY <1>1, <3>1, <4>1
      <4>2. CASE x = b
        BY <1>1, <1>4, <3>1, <4>2
      <4> QED BY <4>1, <4>2
    <3> QED BY <3>1 DEF Free
  <2> QED BY <2>1, EagerKept
<1> QED BY <1>2, <1>3, <1>4

\* Steps that pop no frame that asks for messages.
LEMMA DrowsyMoves ==
  ASSUME TypeOK, NEW A, NEW T, Moves(A, T), T \cap (AwakeOps \cup {"read0", "absorb"}) = {},
         reading' = reading, \A c \in Clients : Eager(c)' => Eager(c) \/ F("read?") \in Active'
  PROVE  Drowsy
<1>1. \A f \in Active : f.op \notin T => f \in Active'
  BY MovesFrames
<1> QED BY <1>1 DEF Drowsy

\* Events of the main loop that leave these things alone.
LEMMA DrowsyIdle ==
  ASSUME TypeOK, stack = <<>>, reading' = reading, \A c \in Clients : Eager(c)' => Eager(c)
  PROVE  Drowsy
<1>1. Active = {}
  BY IdleFrames
<1> QED BY <1>1 DEF Drowsy

LEMMA ChannelDrowsy ==
  ASSUME ConstantsOK, TypeOK, DeviceInv, NEW c \in Clients, Channel(c) \/ Writable(c) \/ PeerCloses(c)
  PROVE  Drowsy
<1>1. Moves(WakeOps \cup ChannelOps, ChannelOps)
  BY ChannelMoves
<1>2. ChannelOps \cap (AwakeOps \cup {"read0", "absorb"}) = {}
  BY DEF ChannelOps, AwakeOps
<1>3. /\ UNCHANGED <<exists, running, waitMig, attached, sendTokens, pending, clients, reading>>
      /\ \/ refs' = refs
         \/ \E b : Unref(b, stack)
  BY DEF Channel, FlushSend, FlushStop, FlushFail, HangupItem, HangupEnd, Writable, PeerCloses,
         deviceVars, sendVars, poolVars, guestVars, readLocals
<1>4. \A d \in Clients : Eager(d)' => Eager(d) \/ F("read?") \in Active'
  <2>1. CASE refs' = refs
    BY <1>3, <2>1, EagerKept DEF Free
  <2>2. ASSUME NEW b, Unref(b, stack) PROVE \A d \in Clients : Eager(d)' => Eager(d) \/ F("read?") \in Active'
    BY <1>3, <2>2, StackFacts, UnrefWakes
  <2> QED BY <1>3, <2>1, <2>2
<1> QED BY <1>1, <1>2, <1>3, <1>4, DrowsyMoves

LEMMA WritingDrowsy ==
  ASSUME ConstantsOK, TypeOK, Writing
  PROVE  Drowsy
<1>1. Moves(WakeOps \cup WritingOps \cup {"flush"}, WritingOps)
  BY WritingMoves
<1>2. WritingOps \cap (AwakeOps \cup {"read0", "absorb"}) = {}
  BY DEF WritingOps, AwakeOps
<1>3. UNCHANGED <<running, waitMig, attached, sendTokens, pending, clients, reading, refs>>
  BY DEF Writing, WriteRefused, WriteNested, WriteBegin, WriteAll, WritePart, WriteNone, WriteSome,
         WriteRelease, WriteAgain, WriteEnd, deviceVars, sendVars, poolVars, guestVars, readLocals
<1>4. \A d \in Clients : Eager(d)' => Eager(d)
  BY <1>3, EagerKept DEF Free
<1> QED BY <1>1, <1>2, <1>3, <1>4, DrowsyMoves

\* Calls of the main loop; clients leave, and their removals run.
LEMMA EventsDrowsy ==
  ASSUME ConstantsOK, TypeOK,
         \/ WriteRetry \/ MouseEvent \/ Stop \/ Detach
         \/ \E c \in Clients : \/ Connect(c) \/ ClientDisconnect(c) \/ BufGet(c) \/ BufStale(c)
                               \/ BufAdd(c) \/ BufGiveBack(c) \/ RestoreLate(c) \/ RestoreNone(c)
                               \/ WaitTimeout(c)
  PROVE  Drowsy
<1>1. stack = <<>>
  BY DEF WriteRetry, MouseEvent, Stop, Detach, Connect, ClientDisconnect, BufGet, BufStale, BufAdd,
         BufGiveBack, RestoreLate, RestoreNone, WaitTimeout, Idle
<1>2. \/ UNCHANGED <<running, waitMig, attached, sendTokens, pending, clients, reading, refs>>
      \/ ~running' /\ reading' = reading
  <2>1. CASE WriteRetry \/ MouseEvent
    BY <2>1 DEF WriteRetry, MouseEvent, deviceVars, sendVars, poolVars, guestVars, readLocals
  <2>2. CASE Stop
    BY <2>2 DEF Stop, readLocals
  <2>3. CASE Detach
    BY <2>3 DEF Detach, deviceVars, sendVars, poolVars, guestVars, readLocals
  <2>4. ASSUME NEW c \in Clients, \/ Connect(c) \/ ClientDisconnect(c) \/ BufGet(c) \/ BufStale(c)
                                  \/ BufAdd(c)
        PROVE  UNCHANGED <<running, waitMig, attached, sendTokens, pending, clients, reading, refs>>
    BY <2>4 DEF Connect, ClientDisconnect, BufGet, BufStale, BufAdd, deviceVars, sendVars, poolVars,
                guestVars, readLocals
  <2>5. ASSUME NEW c \in Clients, \/ BufGiveBack(c) \/ RestoreLate(c) \/ RestoreNone(c)
                                  \/ WaitTimeout(c)
        PROVE  UNCHANGED <<running, waitMig, attached, sendTokens, pending, clients, reading, refs>>
    BY <2>5 DEF BufGiveBack, RestoreLate, RestoreNone, WaitTimeout, deviceVars, sendVars, poolVars,
                guestVars, readLocals
  <2> QED BY <2>1, <2>2, <2>3, <2>4, <2>5
<1>3. \A d \in Clients : Eager(d)' => Eager(d)
  <2>1. CASE ~running'
    BY <2>1 DEF Eager, Usable
  <2>2. CASE running'
    BY <1>2, <2>2, EagerKept DEF Free
  <2> QED BY <2>1, <2>2
<1> QED BY <1>1, <1>2, <1>3, DrowsyIdle

LEMMA RemovingDrowsy ==
  ASSUME ConstantsOK, TypeOK, DeviceInv, NEW c \in Clients, Removing(c)
  PROVE  Drowsy
<1>1. Moves(WakeOps, EndOps)
  BY RemovingMoves
<1>2. EndOps \cap (AwakeOps \cup {"read0", "absorb"}) = {}
  BY DEF EndOps, AwakeOps
<1>3. /\ UNCHANGED <<exists, running, waitMig, attached, sendTokens, pending, reading>>
      /\ clients' \subseteq clients
      /\ refs' = refs \/ \E b : Unref(b, stack)
  BY DEF Removing, FreeQueued, FreeWritten, FreeEnd, Gone, deviceVars, sendVars, poolVars, guestVars,
         readLocals
<1>4. \A d \in Clients : Eager(d)' => Eager(d) \/ F("read?") \in Active'
  <2>1. CASE refs' = refs
    BY <1>3, <2>1, EagerKept DEF Free
  <2>2. ASSUME NEW b, Unref(b, stack) PROVE \A d \in Clients : Eager(d)' => Eager(d) \/ F("read?") \in Active'
    BY <1>3, <2>2, StackFacts, UnrefWakes
  <2> QED BY <1>3, <2>1, <2>2
<1> QED BY <1>1, <1>2, <1>3, <1>4, DrowsyMoves

\* The wait for migration data ends with the removal of the client.
LEMMA RemovedDrowsy ==
  ASSUME ConstantsOK, TypeOK, RemovedEnd
  PROVE  Drowsy
<1>1. Moves(WakeOps, EndOps)
  BY RemovingMoves
<1>2. EndOps \cap (AwakeOps \cup {"read0", "absorb"}) = {}
  BY DEF EndOps, AwakeOps
<1>3. UNCHANGED <<running, attached, sendTokens, pending, clients, reading, refs>>
  BY DEF RemovedEnd, sendVars, poolVars, guestVars, readLocals
<1>4. \A d \in Clients : Eager(d)' => Eager(d) \/ F("read?") \in Active'
  <2>1. CASE waitMig
    <3>1. stack # <<>> /\ Become(<<F("read?")>>)
      BY <2>1 DEF RemovedEnd, At
    <3>2. <<F("read?")>> \in Seq(Frame) /\ Frames(<<F("read?")>>) = {F("read?")}
      BY FrameFacts, FramesOf DEF Ops
    <3> QED BY <3>1, <3>2, FrameSteps
  <2>2. CASE ~waitMig
    BY <1>3, <2>2 DEF Eager, Usable, CanSend, Free
  <2> QED BY <2>1, <2>2
<1> QED BY <1>1, <1>2, <1>3, <1>4, DrowsyMoves

\* While the device is reset it does not run, and at its end it is detached.
LEMMA EndingDrowsy ==
  ASSUME ConstantsOK, TypeOK, RemovalInv, Destroy \/ ResetRelease \/ ResetQueues
  PROVE  Drowsy
<1>1. Moves({"flush", "start"} \cup EndOps, EndOps)
  BY EndingMoves
<1>2. EndOps \cap (AwakeOps \cup {"read0", "absorb"}) = {}
  BY DEF EndOps, AwakeOps
<1>3. reading' = reading
  BY DEF Destroy, ResetRelease, ResetQueues, readLocals
<1>4. \A d \in Clients : Eager(d)' => Eager(d)
  <2>1. CASE Destroy
    <3>1. \/ ~running'
          \/ UNCHANGED <<running, waitMig, attached, sendTokens, pending, clients, refs>>
      BY <2>1 DEF Destroy, sendVars, poolVars, guestVars
    <3> QED BY <3>1, EagerKept DEF Free, Eager, Usable
  <2>2. CASE ResetRelease \/ ResetQueues
    <3>1. stack # <<>> /\ Top.op \in {"reset", "reset2"} /\ running' = running
      BY <2>2 DEF ResetRelease, ResetQueues, At, Top, deviceVars
    <3>2. ~running
      BY <3>1, HasFrames DEF RemovalInv, Has
    <3> QED BY <3>1, <3>2 DEF Eager, Usable
  <2> QED BY <2>1, <2>2
<1> QED BY <1>1, <1>2, <1>3, <1>4, DrowsyMoves

LEMMA PushingWake ==
  ASSUME ConstantsOK, TypeOK, DeviceInv, RefsInv, WakeInv, NEW c \in Clients, Pushing(c)
  PROVE  WakeInv'
<1>0. UNCHANGED <<exists, running, waitMig, attached, pending, clients, reading>>
  BY DEF Pushing, PushOne, PushUnref, PushShrink, PushEnd, AbsorbEnd, deviceVars, guestVars, readLocals
<1>1. stack # <<>> /\ Tail(stack) \in Seq(Frame) /\ Top \in Active /\ Active = {Top} \cup Frames(Tail(stack))
  BY StackFacts, HasFrames DEF Pushing, PushOne, PushUnref, PushShrink, PushEnd, AbsorbEnd, At
<1>2. CASE ~AbsorbEnd(c)
  <2>1. Top.op \in PushOps
    BY <1>2 DEF Pushing, PushOne, PushUnref, PushShrink, PushEnd, At, Top, PushOps
  <2>2. Moves(WakeOps \cup PushingOps \cup {"flush"}, PushingOps)
    BY PushingMoves
  <2>3. \A f \in Active : f.op \in AwakeOps \cup {"read0", "absorb"} => f \in Active'
    <3>1. PICK fs \in Only(WakeOps \cup PushingOps \cup {"flush"}) :
            stack' = fs \o stack \/ stack' = fs \o Tail(stack)
      BY <2>2 DEF Moves
    <3>2. fs \in Seq(Frame)
      BY DEF Only
    <3>3. Frames(Tail(stack)) \subseteq Active'
      BY <1>1, <3>1, <3>2, FrameSteps DEF Call, Become
    <3>4. Top.op \notin AwakeOps \cup {"read0", "absorb"}
      BY <2>1 DEF PushOps, AwakeOps
    <3> QED BY <1>1, <3>3, <3>4
  <2>4. \A d \in Clients : Eager(d)' => Eager(d) \/ F("read?") \in Active'
    <3>1. CASE PushUnref(c)
      <4>1. Unref(Top.b, <<FC("shrink", c)>> \o Tail(stack)) /\ sendTokens' = sendTokens
        BY <3>1 DEF PushUnref, sendVars
      <4>2. <<FC("shrink", c)>> \o Tail(stack) \in Seq(Frame)
        <5>1. <<FC("shrink", c)>> \in Seq(Frame)
          BY FrameFacts DEF Ops
        <5> QED BY <1>1, <5>1, SeqFacts
      <4> QED BY <1>0, <4>1, <4>2, UnrefWakes
    <3>2. CASE PushOne(c)
      <4>1. /\ sendTokens' = [sendTokens EXCEPT ![c] = @ - 1] /\ CanSend(c)
            /\ sendTokens \in [Clients -> Int]
            /\ refs \in [Bufs -> Int]
        BY <3>2 DEF PushOne, TypeOK, SendTypes, PoolTypes
      <4>2. ASSUME NEW d \in Clients, CanSend(d)' PROVE CanSend(d)
        <5>1. CASE d = c
          BY <4>1, <5>1
        <5>2. CASE d # c
          BY <4>1, <4>2, <5>2 DEF CanSend
        <5> QED BY <5>1, <5>2
      <4>3. Free' \subseteq Free
        <5>1. PICK b \in Bufs : refs' = refs \/ refs' = [refs EXCEPT ![b] = @ + 1]
          <6>1. Head(sendQueue[c]) \in Bufs
            BY <3>2, SeqFacts DEF PushOne, TypeOK, SendTypes
          <6>2. refs' = refs \/ refs' = [refs EXCEPT ![Head(sendQueue[c])] = @ + 1]
            BY <3>2 DEF PushOne, SendMsg, RefForPipe
          <6> QED BY <6>1, <6>2
        <5>2. refs[b] >= 0
          <6>1. /\ PipeRefs(b) \in Nat /\ QueueRefs(b) \in Nat /\ StackRefs(b) \in Nat /\ MsgRef(b) \in {0, 1}
                /\ refs[b] = PipeRefs(b) + QueueRefs(b) + StackRefs(b) + MsgRef(b)
            BY RefTypes DEF RefsInv
          <6> QED BY <6>1
        <5>3. ASSUME NEW x \in Bufs, refs'[x] = 0 PROVE refs[x] = 0
          BY <4>1, <5>1, <5>2, <5>3
        <5> QED BY <5>3 DEF Free
      <4> QED BY <1>0, <4>2, <4>3 DEF Eager, Usable
    <3>3. CASE PushShrink(c) \/ PushEnd(c)
      <4>1. UNCHANGED <<sendTokens, refs>>
        BY <3>3 DEF PushShrink, PushEnd, sendVars, poolVars
      <4> QED BY <1>0, <4>1, EagerKept DEF Free
    <3> QED BY <1>2, <3>1, <3>2, <3>3 DEF Pushing
  <2> QED BY <1>0, <2>3, <2>4, WakeDrowsy DEF Drowsy
<1>3. CASE AbsorbEnd(c)
  <2>1. UNCHANGED <<sendTokens, refs>> /\ Top.op = "absorb" /\ Top.c = c
    BY <1>3 DEF AbsorbEnd, poolVars, At, Top
  <2>2. \A d \in Clients : Eager(d)' => Eager(d)
    BY <1>0, <2>1, EagerKept DEF Free
  <2>3. CASE Become(<<F("read?")>>)
    <3>1. <<F("read?")>> \in Seq(Frame) /\ Frames(<<F("read?")>>) = {F("read?")}
      BY FrameFacts, FramesOf DEF Ops
    <3>2. F("read?") \in Active'
      BY <1>1, <2>3, <3>1, FrameSteps
    <3> QED BY <3>2, WokenUp DEF WakeInv
  <2>4. CASE Return /\ ~CanSend(c)
    <3>1. Active' = Frames(Tail(stack))
      BY <1>1, <2>4, FrameSteps
    <3>2. ASSUME NEW d \in Clients, Eager(d)' PROVE Awake(d)'
      <4>1. d # c /\ Awake(d)
        BY <2>2, <2>4, <3>2 DEF Eager, WakeInv
      <4>2. \A f \in Active : f.op \in AwakeOps \cup {"read0"} => f \in Active'
        BY <1>1, <2>1, <3>1 DEF AwakeOps
      <4>3. FC("absorb", d) \in Active => FC("absorb", d) \in Active'
        BY <1>1, <2>1, <3>1, <4>1 DEF FC
      <4>4. Has(AwakeOps) => Has(AwakeOps)'
        BY <4>2 DEF Has
      <4>5. Has({"read0"}) => Has({"read0"})'
        BY <4>2 DEF Has
      <4> QED BY <1>0, <4>1, <4>3, <4>4, <4>5 DEF Awake
    <3> QED BY <3>2 DEF WakeInv
  <2> QED BY <1>3, <2>3, <2>4 DEF AbsorbEnd
<1> QED BY <1>2, <1>3

LEMMA TokensWake ==
  ASSUME ConstantsOK, TypeOK, WakeInv, NEW c \in Clients,
         \E n \in 0..MaxSend : TokensSet(c, n) \/ TokensAdd(c, n)
  PROVE  WakeInv'
<1>1. Active = {} /\ FC("absorb", c) \in Active'
  BY TokensFrames
<1>2. /\ UNCHANGED <<running, waitMig, attached, pending, clients, refs>>
      /\ \A d \in Clients \ {c} : sendTokens'[d] = sendTokens[d]
  BY DEF TokensSet, TokensAdd, Absorb, deviceVars, guestVars, poolVars, TypeOK, SendTypes
<1>3. \A d \in Clients : ~Awake(d)
  BY <1>1 DEF Awake, Has
<1>4. \A d \in Clients \ {c} : Eager(d)' => Eager(d)
  BY <1>2 DEF Eager, Usable, CanSend, Free
<1> QED BY <1>1, <1>3, <1>4 DEF WakeInv, Awake

\* The device is started, and its loop of writing and reading goes on.
LEMMA StartWake ==
  ASSUME ConstantsOK, TypeOK, WakeInv, Start \/ StartLoop \/ GuestWrites
  PROVE  WakeInv'
<1>0. \A op, op2 \in Ops : /\ <<F(op)>> \in Seq(Frame) /\ F(op) \in Frames(<<F(op)>>)
                           /\ <<F(op), F(op2)>> \in Seq(Frame)
                           /\ {F(op), F(op2)} \subseteq Frames(<<F(op), F(op2)>>)
  BY FrameFacts, FramesOf
<1>1. {"start", "startW", "startR", "read?", "write?"} \subseteq Ops
  BY DEF Ops
<1>2. CASE Start
  <2>1. F("start") \in Active'
    <3>1. Call(<<F("start")>>)
      BY <1>2 DEF Start
    <3>2. <<F("start")>> \in Seq(Frame) /\ F("start") \in Frames(<<F("start")>>)
      BY <1>0, <1>1
    <3> QED BY <3>1, <3>2, FrameSteps
  <2> QED BY <2>1, WokenUp DEF WakeInv
<1>3. CASE GuestWrites
  <2>1. F("read?") \in Active'
    BY <1>3, StackFacts, WakeupRuns DEF GuestWrites, Call
  <2> QED BY <2>1, WokenUp DEF WakeInv
<1>4. CASE StartLoop
  <2>1. stack # <<>> /\ Tail(stack) \in Seq(Frame) /\ Active = {Top} \cup Frames(Tail(stack))
    BY <1>4, StackFacts, HasFrames DEF StartLoop, At
  <2>2. CASE Become(<<F("write?"), F("startW")>>) \/ Become(<<F("start")>>)
             \/ Become(<<F("read?"), F("startR")>>)
    <3>1. ASSUME NEW fs \in Seq(Frame), Become(fs) PROVE Frames(fs) \subseteq Active'
      BY <2>1, <3>1, FrameSteps
    <3>0. F("startW") \in Active' \/ F("start") \in Active' \/ F("read?") \in Active'
      <4>1. CASE Become(<<F("write?"), F("startW")>>)
        BY <1>0, <1>1, <3>1, <4>1
      <4>2. CASE Become(<<F("start")>>)
        BY <1>0, <1>1, <3>1, <4>2
      <4>3. CASE Become(<<F("read?"), F("startR")>>)
        BY <1>0, <1>1, <3>1, <4>3
      <4> QED BY <2>2, <4>1, <4>2, <4>3
    <3>2. F("startW").op \in AwakeOps
      BY DEF F, AwakeOps
    <3>3. F("startW") \in Active' => \A c \in Clients : Awake(c)'
      BY <3>2 DEF Awake, Has
    <3> QED BY <3>0, <3>3, WokenUp DEF WakeInv
  <2>3. CASE Return /\ Top.op = "startR"
    <3>1. Active' = Frames(Tail(stack))
      BY <2>1, <2>3, FrameSteps
    <3>2. \A f \in Active : f.op \in AwakeOps \cup {"read0", "absorb"} => f \in Active'
      BY <2>1, <2>3, <3>1 DEF AwakeOps
    <3>3. UNCHANGED <<running, waitMig, attached, sendTokens, pending, clients, refs, reading>>
      BY <1>4 DEF StartLoop, deviceVars, sendVars, poolVars, guestVars, readLocals
    <3>4. \A d \in Clients : Eager(d)' => Eager(d)
      BY <3>3, EagerKept DEF Free
    <3> QED BY <3>2, <3>3, <3>4, WakeDrowsy DEF Drowsy
  <2> QED BY <1>4, <2>2, <2>3 DEF StartLoop, At, Top
<1> QED BY <1>2, <1>3, <1>4

\* Clients are added and migration data arrives: the device is woken up, or will be started.
LEMMA AddingWake ==
  ASSUME ConstantsOK, TypeOK,
         \/ \E c \in Clients, n \in 0..MaxSend : ClientAdd(c, n)
         \/ \E c \in Clients \cup {None}, vm \in BOOLEAN : Attach(c, vm)
         \/ Migrated
  PROVE  WakeInv'
<1>1. (running' => F("start") \in Active') \/ F("read?") \in Active'
  BY AddingFrames
<1> QED BY <1>1, WokenUp DEF WakeInv, Eager, Usable

LEMMA ReadingWake ==
  ASSUME ConstantsOK, TypeOK, LoopInv, MessageInv, QueueInv, WakeInv, Reading
  PROVE  WakeInv'
<1>1. /\ stack # <<>> /\ Tail(stack) \in Seq(Frame)
      /\ Active = {Top} \cup Frames(Tail(stack)) /\ Top \in Active
  BY ReadingFrames, StackFacts, HasFrames DEF MessageInv
<1>2. Return => Active' = Frames(Tail(stack))
  BY <1>1, FrameSteps
<1>3. CASE Become(<<F("read")>>)
  <2>1. <<F("read")>> \in Seq(Frame) /\ F("read") \in Frames(<<F("read")>>)
    BY FrameFacts, FramesOf DEF Ops
  <2>2. F("read") \in Active'
    BY <1>1, <1>3, <2>1, FrameSteps
  <2> QED BY <2>2, WokenUp DEF WakeInv
<1>4. CASE SendDone \/ ReadMsg \/ ReadDiscard
           \/ \E c \in Clients : SendNow(c) \/ SendOverflow(c) \/ SendLater(c)
  <2>1. Top \in Active' /\ Top.op = "read"
    BY <1>4, ReadingFrames DEF MessageInv
  <2>2. \A c \in Clients : Awake(c)'
    BY <2>1 DEF Awake, Has, AwakeOps
  <2> QED BY <2>2 DEF WakeInv
<1>5. CASE ReadRefused
  <2>1. \A c \in Clients : ~Eager(c)'
    BY <1>5 DEF ReadRefused, Eager, Usable, deviceVars
  <2> QED BY <2>1 DEF WakeInv
<1>6. CASE ReadNested
  <2>1. Return /\ Top.op = "read?" /\ reading' = 2 /\ reading > 0
    BY <1>6 DEF ReadNested, ReturnWith, At, Top, InRead
  <2>2. PICK f \in Active : f.op \in ReadOps
    BY <2>1, HasFrames DEF LoopInv, Guarded, Has
  <2>3. f \in Active'
    BY <1>1, <1>2, <2>1, <2>2 DEF ReadOps
  <2>4. \A c \in Clients : Awake(c)'
    BY <2>1, <2>2, <2>3 DEF Awake, Has, AwakeOps, ReadOps
  <2> QED BY <2>4 DEF WakeInv
<1>7. CASE ReadNothing
  <2> DEFINE s == <<F("read0")>> \o Tail(stack)
  <2>1. GuestWritesIn(s) /\ (pending = 0 \/ Free = {}) /\ refs' = refs
    BY <1>7 DEF ReadNothing, poolVars
  <2>2. s \in Seq(Frame)
    <3>1. <<F("read0")>> \in Seq(Frame)
      BY FrameFacts DEF Ops
    <3> QED BY <1>1, <3>1, SeqFacts
  <2> HIDE DEF s
  <2>3. CASE pending' = pending
    <3>1. \A c \in Clients : ~Eager(c)'
      BY <2>1, <2>3 DEF Eager, Free
    <3> QED BY <3>1 DEF WakeInv
  <2>4. CASE stack' = Wakeup \o s
    BY <2>2, <2>4, WakeupRuns, WokenUp DEF WakeInv
  <2> QED BY <2>1, <2>3, <2>4 DEF GuestWritesIn
<1>8. CASE ReadEnd
  <2>1. /\ Return /\ UNCHANGED <<running, waitMig, attached, sendTokens, pending, clients, refs>>
        /\ \/ Top.op = "read" /\ ~MayRead
           \/ Top.op = "read0" /\ reading <= 1
    BY <1>8 DEF ReadEnd, ReturnWith, At, Top, sendVars, poolVars, guestVars
  <2>2. \A c \in Clients : Eager(c)' => Eager(c)
    BY <2>1, EagerKept DEF Free
  <2>3. CASE Top.op = "read" /\ ~MayRead
    <3>1. Has(ReadOps)
      BY <1>1, <2>3 DEF Has, ReadOps
    <3>2. ASSUME NEW c \in Clients, Eager(c) PROVE FALSE
      <4>1. running /\ c \in clients /\ CanSend(c) /\ max = 0
        BY <2>3, <3>2 DEF Eager, Usable, MayRead
      <4>2. FlowControl /\ sendTokens[c] <= max - Used(c)
        BY <3>1, <4>1 DEF QueueInv, Budget
      <4>3. Used(c) \in {0, 1} /\ sendTokens[c] \in Int /\ sendTokens[c] > 0
        BY <4>1, <4>2 DEF Used, CanSend, TypeOK, SendTypes
      <4> QED BY <4>1, <4>2, <4>3
    <3> QED BY <2>2, <3>2 DEF WakeInv
  <2>4. CASE Top.op = "read0" /\ reading <= 1
    <3>1. \A f \in Active : f.op # "read0" => f \in Active'
      BY <1>1, <1>2, <2>1, <2>4
    <3>2. \A c \in Clients : Awake(c) => Awake(c)'
      <4> TAKE c \in Clients
      <4>1. Has(AwakeOps) => Has(AwakeOps)'
        BY <3>1 DEF Has, AwakeOps
      <4>2. FC("absorb", c) \in Active => FC("absorb", c) \in Active'
        BY <3>1 DEF FC
      <4>3. reading # 2
        BY <2>4 DEF TypeOK, ReadTypes
      <4> QED BY <4>1, <4>2, <4>3 DEF Awake
    <3> QED BY <2>2, <3>2 DEF WakeInv
  <2> QED BY <2>1, <2>3, <2>4
<1>9. ReadBegin \/ ReadAgain => Become(<<F("read")>>)
  BY DEF ReadBegin, ReadAgain
<1> QED BY <1>3, <1>4, <1>5, <1>6, <1>7, <1>8, <1>9 DEF Reading

LEMMA WakeNext ==
  ASSUME ConstantsOK, TypeOK, LoopInv, DeviceInv, RemovalInv, MessageInv, QueueInv, RefsInv, WakeInv,
         [Next]_vars
  PROVE  WakeInv'
<1>1. CASE Drowsy
  BY <1>1, WakeDrowsy
<1>2. CASE UNCHANGED vars
  <2>1. Active' = Active
    BY <1>2 DEF vars, Active
  <2>2. UNCHANGED <<running, waitMig, attached, sendTokens, pending, clients, refs, reading>>
    BY <1>2 DEF vars, deviceVars, sendVars, poolVars, guestVars, readLocals
  <2>3. \A d \in Clients : Eager(d)' => Eager(d)
    BY <2>2, EagerKept DEF Free
  <2>4. Drowsy
    BY <2>1, <2>2, <2>3 DEF Drowsy
  <2> QED BY <2>4, WakeDrowsy
<1>3. CASE Running
  BY <1>1, <1>3, ReadingWake, WritingDrowsy, RemovedDrowsy, StartWake, EndingDrowsy, ChannelDrowsy,
     PushingWake, RemovingDrowsy DEF Running
<1>4. CASE FromVM
  BY <1>1, <1>4, AddingWake, StartWake, EventsDrowsy DEF FromVM
<1>5. ASSUME NEW c \in Clients, FromClient(c) PROVE WakeInv'
  BY <1>1, <1>5, EventsDrowsy, ChannelDrowsy, AddingWake, TokensWake DEF FromClient
<1>6. ASSUME NEW c \in Clients, FromServer(c) PROVE WakeInv'
  BY <1>1, <1>6, EventsDrowsy, ChannelDrowsy DEF FromServer
<1> QED BY <1>1, <1>2, <1>3, <1>4, <1>5, <1>6, EventsDrowsy, AddingWake DEF Next

\* No wakeup is lost: whenever the main loop comes back, nothing waits in the device that some
\* client could be sent and there is a buffer for, although calls of the read loop from inside
\* itself only leave it a note, and buffers become free in the middle of other calls.
THEOREM WakeupsAlways == Spec => []NoLostWakeup
<1> DEFINE I == TypeOK /\ LoopInv /\ WritingInv
           J == MessageInv /\ QueueInv
<1>1. Init => WakeInv
  BY DEF Init, WakeInv, Eager, Usable
<1>2. I /\ J /\ RefsInv /\ WakeInv /\ [Next]_vars => WakeInv'
  BY ConstantsOK, WakeNext DEF WritingInv
<1>3. TypeOK /\ WakeInv => NoLostWakeup
  <2>1. SUFFICES ASSUME TypeOK, WakeInv, Idle, Usable, pending > 0, Free # {}, NEW c \in clients,
                        CanSend(c)
                 PROVE  FALSE
    BY DEF NoLostWakeup
  <2>2. Active = {} /\ c \in Clients
    BY <2>1, HasFrames DEF Idle, TypeOK, DeviceTypes
  <2> QED BY <2>1, <2>2 DEF WakeInv, Eager, Awake, Has
<1> HIDE DEF J
<1> QED BY <1>1, <1>2, <1>3, TypeCorrect, LoopsGuarded, WritingAlways, QueuesAlways, RefsInvAlways, PTL
        DEF Spec, J
=============================================================================

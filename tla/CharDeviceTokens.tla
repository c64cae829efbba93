-------------------------- MODULE CharDeviceTokens --------------------------
(***************************************************************************)
(* Proofs of CharDevice: the tokens of the clients.                        *)
(*                                                                         *)
(* SumsInv is the account the device keeps: what a client may still send,  *)
(* what is kept for it, and what its buffers cost add up to its window,    *)
(* until it is removed.  PartsInv says what that needs of the parts: who   *)
(* is waiting to be migrated is not in the middle of a message, or adding  *)
(* it would count that message too, and only the buffer that migration     *)
(* data restores, which never waits in the queue, costs more than one      *)
(* token.                                                                  *)
(*                                                                         *)
(* AgreeInv is what the client believes: as much as the device counts for  *)
(* it, when the tokens on their way have come.  It has to speak of clients *)
(* that have not started the agent too, those on the target of a           *)
(* migration, whom nothing was sent; and of a channel that hangs up, which *)
(* drops the tokens with its pipe, newest first, before it is closed.      *)
(***************************************************************************)
EXTENDS CharDeviceReading

-----------------------------------------------------------------------------
(* The buffers of a client in the write queue.                             *)

Mine(c)     == {b \in WriteBuf : Owns(c, b)}
Unit(c, b)  == IF Owns(c, b) THEN 1 ELSE 0
Price(c, b) == IF Owns(c, b) THEN b.price ELSE 0

LEMMA MineCounts ==
  ASSUME NEW c
  PROVE  /\ Count(<<>>, Mine(c)) = 0
         /\ \A q \in Seq(WriteBuf) : Count(q, Mine(c)) \in Nat
         /\ \A q \in Seq(WriteBuf), b \in WriteBuf :
               Count(Append(q, b), Mine(c)) = Count(q, Mine(c)) + Unit(c, b)
         /\ \A q \in Seq(WriteBuf) : q # <<>> =>
               Count(q, Mine(c)) = Count(Tail(q), Mine(c)) + Unit(c, Head(q))
         /\ \A q \in Seq(WriteBuf) : \A i \in 1..Len(q) :
               Count(q, Mine(c))
                 = Count(SubSeq(q, 1, i - 1) \o SubSeq(q, i + 1, Len(q)), Mine(c)) + Unit(c, q[i])
         /\ \A q \in Seq(WriteBuf) : (\A b \in Queued(q) : ~Owns(c, b)) => Count(q, Mine(c)) = 0
<1>1. \A b \in WriteBuf : Unit(c, b) = IF b \in Mine(c) THEN 1 ELSE 0
  BY DEF Unit, Mine
<1>2. /\ Count(<<>>, Mine(c)) = 0
      /\ \A q \in Seq(WriteBuf) : Count(q, Mine(c)) \in Nat
  BY CountSteps, CountTypes
<1>3. ASSUME NEW q \in Seq(WriteBuf), NEW b \in WriteBuf
      PROVE  Count(Append(q, b), Mine(c)) = Count(q, Mine(c)) + Unit(c, b)
  <2>0. \A r \in Seq(WriteBuf), x \in WriteBuf :
          Count(Append(r, x), Mine(c)) = Count(r, Mine(c)) + (IF x \in Mine(c) THEN 1 ELSE 0)
    BY CountSteps
  <2>1. Count(Append(q, b), Mine(c)) = Count(q, Mine(c)) + (IF b \in Mine(c) THEN 1 ELSE 0)
    BY <2>0
  <2> QED BY <1>1, <2>1
<1>4. ASSUME NEW q \in Seq(WriteBuf), q # <<>>
      PROVE  Count(q, Mine(c)) = Count(Tail(q), Mine(c)) + Unit(c, Head(q))
  <2>0. \A r \in Seq(WriteBuf) : r # <<>> =>
          Count(r, Mine(c)) = Count(Tail(r), Mine(c)) + (IF Head(r) \in Mine(c) THEN 1 ELSE 0)
    BY CountSteps
  <2>1. Count(q, Mine(c)) = Count(Tail(q), Mine(c)) + (IF Head(q) \in Mine(c) THEN 1 ELSE 0)
    BY <1>4, <2>0
  <2>2. Head(q) \in WriteBuf
    BY <1>4, WriteFacts
  <2> QED BY <1>1, <2>1, <2>2
<1>5. ASSUME NEW q \in Seq(WriteBuf), NEW i \in 1..Len(q)
      PROVE  Count(q, Mine(c))
               = Count(SubSeq(q, 1, i - 1) \o SubSeq(q, i + 1, Len(q)), Mine(c)) + Unit(c, q[i])
  <2>1. q[i] \in WriteBuf
    BY ElementOfSeq
  <2> QED BY <1>1, <2>1, CountRemove
<1>6. ASSUME NEW q \in Seq(WriteBuf), \A b \in Queued(q) : ~Owns(c, b)
      PROVE  Count(q, Mine(c)) = 0
  <2>1. Hits(q, Mine(c)) = {}
    BY <1>6 DEF Hits, Mine, Queued
  <2> QED BY <2>1, FS_EmptySet DEF Count
<1> QED BY <1>2, <1>3, <1>4, <1>5, <1>6

\* What the buffers that the device makes cost a client.
LEMMA PriceFacts ==
  ASSUME NEW c
  PROVE  /\ \A b \in WriteBuf \cup {NoBuf} : Price(c, b) \in Nat /\ Unit(c, b) \in {0, 1}
         /\ \A b \in WriteBuf \cup {NoBuf} : b.origin # "client" => Price(c, b) = 0 /\ Unit(c, b) = 0
         /\ ~Owns(c, NoBuf) /\ ~Owns(c, NoTokenBuf) /\ ~Owns(c, ServerBuf)
         /\ \A d, n : Owns(c, ClientBuf(d, n)) <=> c = d
         /\ \A n : Price(c, ClientBuf(c, n)) = n
         /\ \A b : (b.origin = "client" => b.price = 1) => Price(c, b) = Unit(c, b)
BY DEF Price, Unit, Owns, WriteBuf, NoBuf, NoTokenBuf, ServerBuf, ClientBuf

-----------------------------------------------------------------------------
(* The tokens on their way to a client.                                    *)

Way(c) == Cardinality(OnTheWay(c))

Tokens(p) == UNION {{i} \X (1..p[i].tokens) : i \in 1..Len(p)}

LEMMA UpTo == \A n \in Nat : IsFiniteSet(1..n) /\ Cardinality(1..n) = n
<1>1. ASSUME NEW n \in Nat PROVE IsFiniteSet(1..n) /\ Cardinality(1..n) = n
  <2>1. n \in Int /\ 1 \in Int
    OBVIOUS
  <2>2. IsFiniteSet(1..n) /\ Cardinality(1..n) = IF 1 > n THEN 0 ELSE n - 1 + 1
    BY <2>1, FS_Interval
  <2> QED BY <2>2
<1> QED BY <1>1

LEMMA TokensTypes ==
  ASSUME NEW p \in Seq(PipeItem)
  PROVE  IsFiniteSet(Tokens(p)) /\ Cardinality(Tokens(p)) \in Nat
<1> DEFINE I == 1..Len(p)
           g == [i \in I |-> {i} \X (1..p[i].tokens)]
           T == {{i} \X (1..p[i].tokens) : i \in I}
<1>1. g \in [I -> T] /\ \A t \in T : \E i \in I : g[i] = t
  OBVIOUS
<1>2. g \in Surjection(I, T)
  BY <1>1, Fun_IsSurj
<1>3. Len(p) \in Nat /\ IsFiniteSet(I)
  BY LenProperties, UpTo
<1>4. IsFiniteSet(T)
  BY <1>2, <1>3, FS_Surjection
<1>5. \A t \in T : IsFiniteSet(t)
  <2>1. ASSUME NEW i \in I PROVE IsFiniteSet({i} \X (1..p[i].tokens))
    <3>1. p[i].tokens \in Nat
      BY ElementOfSeq, PipeFacts
    <3>2. IsFiniteSet(1..p[i].tokens)
      BY <3>1, UpTo
    <3> QED BY <3>2, FS_Singleton, FS_Product
  <2> QED BY <2>1
<1>6. IsFiniteSet(UNION T)
  BY <1>4, <1>5, FS_UNION
<1> QED BY <1>6, FS_CardinalityType DEF Tokens

LEMMA TokensConcat ==
  ASSUME NEW s \in Seq(PipeItem), NEW t \in Seq(PipeItem)
  PROVE  Cardinality(Tokens(s \o t)) = Cardinality(Tokens(s)) + Cardinality(Tokens(t))
<1>1. /\ Len(s) \in Nat /\ Len(t) \in Nat /\ Len(s \o t) = Len(s) + Len(t)
      /\ \A i \in 1..Len(s) + Len(t) :
           (s \o t)[i] = IF i <= Len(s) THEN s[i] ELSE t[i - Len(s)]
  BY ConcatProperties, LenProperties
<1> DEFINE k  == Len(s)
           Up == UNION {{i} \X (1..(s \o t)[i].tokens) : i \in k + 1..k + Len(t)}
           f  == [x \in Tokens(t) |-> <<x[1] + k, x[2]>>]
<1>2. Tokens(s \o t) = Tokens(s) \cup Up
  <2>1. \A i \in 1..k + Len(t) : i \in 1..k \/ i \in k + 1..k + Len(t)
    BY <1>1
  <2>2. \A i \in 1..k : i \in 1..k + Len(t) /\ (s \o t)[i] = s[i]
    BY <1>1
  <2>3. \A i \in k + 1..k + Len(t) : i \in 1..k + Len(t)
    BY <1>1
  <2> HIDE DEF k
  <2> QED BY <1>1, <2>1, <2>2, <2>3 DEF Tokens, k
<1>3. Tokens(s) \cap Up = {}
  BY <1>1 DEF Tokens
<1>4. f \in Bijection(Tokens(t), Up)
  <2>0. \A i \in 1..Len(t) : i + k \in k + 1..k + Len(t) /\ (s \o t)[i + k] = t[i]
    BY <1>1
  <2>1. \A x \in Tokens(t) : \E i \in 1..Len(t) : x[1] = i /\ x[2] \in 1..t[i].tokens /\ x = <<x[1], x[2]>>
    BY DEF Tokens
  <2>2. \A x \in Tokens(t) : f[x] \in Up
    BY <2>0, <2>1
  <2>3. \A x, y \in Tokens(t) : f[x] = f[y] => x = y
    <3> SUFFICES ASSUME NEW x \in Tokens(t), NEW y \in Tokens(t), f[x] = f[y] PROVE x = y
      OBVIOUS
    <3>1. x[1] + k = y[1] + k /\ x[2] = y[2]
      OBVIOUS
    <3>2. x[1] \in Nat /\ y[1] \in Nat /\ k \in Nat
      BY <1>1, <2>1
    <3>3. x[1] = y[1]
      BY <3>1, <3>2
    <3> QED BY <2>1, <3>1, <3>3
  <2>4. ASSUME NEW y \in Up PROVE \E x \in Tokens(t) : f[x] = y
    <3>1. PICK i \in k + 1..k + Len(t) : y \in {i} \X (1..(s \o t)[i].tokens)
      OBVIOUS
    <3>2. i - k \in 1..Len(t) /\ (i - k) + k = i
      BY <1>1
    <3>3. (s \o t)[i] = t[i - k]
      BY <2>0, <3>2
    <3>4. PICK j \in 1..t[i - k].tokens : y = <<i, j>>
      BY <3>1, <3>3
    <3>5. <<i - k, j>> \in Tokens(t)
      BY <3>2 DEF Tokens
    <3>6. f[<<i - k, j>>] = <<(i - k) + k, j>>
      BY <3>5
    <3> QED BY <3>2, <3>4, <3>5, <3>6
  <2>5. f \in [Tokens(t) -> Up]
    BY <2>2
  <2> HIDE DEF f, Up
  <2> QED BY <2>3, <2>4, <2>5, Fun_IsBij
<1>5. /\ IsFiniteSet(Tokens(s)) /\ Cardinality(Tokens(s)) \in Nat
      /\ IsFiniteSet(Tokens(t)) /\ Cardinality(Tokens(t)) \in Nat
  BY TokensTypes
<1> HIDE DEF f, Up
<1>6. IsFiniteSet(Up) /\ Cardinality(Up) = Cardinality(Tokens(t))
  BY <1>4, <1>5, FS_Bijection DEF ExistsBijection
<1>7. Cardinality(Tokens(s) \cup Up) = Cardinality(Tokens(s)) + Cardinality(Up) - Cardinality({})
  BY <1>3, <1>5, <1>6, FS_Union
<1>8. Cardinality({}) = 0
  BY FS_EmptySet
<1> QED BY <1>2, <1>5, <1>6, <1>7, <1>8

\* An item is added to a pipe, or the first one taken from it.
LEMMA TokensSteps ==
  /\ \A p \in Seq(PipeItem), x \in PipeItem :
        Cardinality(Tokens(Append(p, x))) = Cardinality(Tokens(p)) + x.tokens
  /\ \A p \in Seq(PipeItem) : p # <<>> =>
        Cardinality(Tokens(p)) = Head(p).tokens + Cardinality(Tokens(Tail(p)))
  /\ \A p \in Seq(PipeItem) : (\A i \in 1..Len(p) : p[i].tokens = 0) => Cardinality(Tokens(p)) = 0
<1>1. ASSUME NEW x \in PipeItem PROVE Cardinality(Tokens(<<x>>)) = x.tokens
  <2> DEFINE n == x.tokens
             f == [j \in 1..n |-> <<1, j>>]
  <2>1. n \in Nat
    BY PipeFacts
  <2>2. Tokens(<<x>>) = {1} \X (1..n)
    BY DEF Tokens
  <2>3. f \in Bijection(1..n, {1} \X (1..n))
    <3>1. f \in [1..n -> {1} \X (1..n)]
      OBVIOUS
    <3>2. \A i, j \in 1..n : f[i] = f[j] => i = j
      OBVIOUS
    <3>3. \A y \in {1} \X (1..n) : \E i \in 1..n : f[i] = y
      OBVIOUS
    <3> HIDE DEF f, n
    <3> QED BY <3>1, <3>2, <3>3, Fun_IsBij
  <2>4. IsFiniteSet(1..n) /\ Cardinality(1..n) = n
    BY <2>1, UpTo
  <2> HIDE DEF f, n
  <2>5. Cardinality({1} \X (1..n)) = Cardinality(1..n)
    BY <2>3, <2>4, FS_Bijection DEF ExistsBijection
  <2> QED BY <2>2, <2>4, <2>5 DEF n
<1>2. ASSUME NEW p \in Seq(PipeItem), NEW x \in PipeItem
      PROVE  Cardinality(Tokens(Append(p, x))) = Cardinality(Tokens(p)) + x.tokens
  <2>1. Append(p, x) = p \o <<x>> /\ <<x>> \in Seq(PipeItem)
    BY AppendIsConcat, SeqFacts
  <2> QED BY <1>1, <2>1, TokensConcat
<1>3. ASSUME NEW p \in Seq(PipeItem), p # <<>>
      PROVE  Cardinality(Tokens(p)) = Head(p).tokens + Cardinality(Tokens(Tail(p)))
  <2>1. /\ Head(p) \in PipeItem /\ Tail(p) \in Seq(PipeItem) /\ Len(p) \in Nat \ {0}
        /\ p = SubSeq(p, 1, Len(p)) /\ Head(p) = p[1] /\ Tail(p) = SubSeq(p, 2, Len(p))
    BY <1>3, HeadTailProperties, EmptySeq, LenProperties, SubSeqFull, TailIsSubSeq
  <2>2. p = <<Head(p)>> \o Tail(p)
    BY <2>1, SubSeqRecursiveFirst
  <2>3. <<Head(p)>> \in Seq(PipeItem)
    BY <2>1, SeqFacts
  <2>4. Cardinality(Tokens(<<Head(p)>> \o Tail(p)))
          = Cardinality(Tokens(<<Head(p)>>)) + Cardinality(Tokens(Tail(p)))
    BY <2>1, <2>3, TokensConcat
  <2> QED BY <1>1, <2>1, <2>2, <2>4
<1>4. ASSUME NEW p \in Seq(PipeItem), \A i \in 1..Len(p) : p[i].tokens = 0
      PROVE  Cardinality(Tokens(p)) = 0
  <2>1. Tokens(p) = {}
    BY <1>4 DEF Tokens
  <2> QED BY <2>1, FS_EmptySet
<1> QED BY <1>2, <1>3, <1>4

\* A pipe without tokens stays so, whichever item leaves and what message is added.
Blank(p) == \A i \in 1..Len(p) : p[i].tokens = 0

LEMMA BlankSteps ==
  /\ Blank(<<>>)
  /\ \A p \in Seq(PipeItem), x \in PipeItem : Blank(p) /\ x.tokens = 0 => Blank(Append(p, x))
  /\ \A p \in Seq(PipeItem) : p # <<>> /\ Blank(p) =>
        Blank(Tail(p)) /\ Blank(SubSeq(p, 1, Len(p) - 1))
<1>1. Blank(<<>>)
  BY DEF Blank
<1>2. ASSUME NEW p \in Seq(PipeItem), NEW x \in PipeItem, Blank(p), x.tokens = 0
      PROVE  Blank(Append(p, x))
  <2>1. /\ Len(p) \in Nat /\ Len(Append(p, x)) = Len(p) + 1
        /\ \A i \in 1..Len(p) : Append(p, x)[i] = p[i]
        /\ Append(p, x)[Len(p) + 1] = x
    BY AppendProperties, LenProperties
  <2>2. \A i \in 1..Len(p) + 1 : i \in 1..Len(p) \/ i = Len(p) + 1
    BY <2>1
  <2> QED BY <1>2, <2>1, <2>2 DEF Blank
<1>3. ASSUME NEW p \in Seq(PipeItem), p # <<>>, Blank(p)
      PROVE  Blank(Tail(p)) /\ Blank(SubSeq(p, 1, Len(p) - 1))
  <2>1. /\ Len(p) \in Nat \ {0} /\ Len(Tail(p)) = Len(p) - 1
        /\ \A i \in 1..Len(Tail(p)) : Tail(p)[i] = p[i + 1]
    BY <1>3, HeadTailProperties, EmptySeq, LenProperties
  <2>2. \A i \in 1..Len(Tail(p)) : i + 1 \in 1..Len(p)
    BY <2>1
  <2>3. /\ Len(SubSeq(p, 1, Len(p) - 1)) = Len(p) - 1
        /\ \A i \in 1..Len(p) - 1 : SubSeq(p, 1, Len(p) - 1)[i] = p[i] /\ i \in 1..Len(p)
    BY <2>1, SubSeqProperties
  <2> QED BY <1>3, <2>1, <2>2, <2>3 DEF Blank
<1> QED BY <1>1, <1>2, <1>3

-----------------------------------------------------------------------------
(* The sum of a client's tokens.                                           *)

Recv(c) == IF Receiving(c) THEN 1 ELSE 0

TokenSum(c) ==
  clientTokens[c] + tokensFree[c] + Count(writeQueue, Mine(c)) + Price(c, cur) + Recv(c)

\* The client is being removed, or the device is ending.
Going(c) == FC("free", c) \in Active \/ F("destroy") \in Active

\* A message is received over a channel that has been opened, and what waits in
\* the queue costs one token: only a restored buffer, which never does, costs more.
PartsInv ==
  /\ \A c \in Clients : Receiving(c) => conn[c] \in {"open", "shut", "closed"}
  /\ \A b \in Queued(writeQueue) : b.origin = "client" => b.price = 1

SumsInv == FlowControl => \A c \in clients : ~Going(c) => TokenSum(c) = Window

LEMMA SumTypes ==
  ASSUME TypeOK
  PROVE  /\ writeQueue \in Seq(WriteBuf) /\ cur \in WriteBuf \cup {NoBuf} /\ clients \subseteq Clients
         /\ \A c \in Clients : /\ clientTokens[c] \in Nat /\ tokensFree[c] \in Nat
                               /\ peerTokens[c] \in Nat /\ pipe[c] \in Seq(PipeItem)
         /\ \A c : /\ Count(writeQueue, Mine(c)) \in Nat /\ Price(c, cur) \in Nat
                   /\ Recv(c) \in {0, 1}
<1>1. writeQueue \in Seq(WriteBuf) /\ cur \in WriteBuf \cup {NoBuf} /\ clients \subseteq Clients
  BY DEF TypeOK, WriteTypes, DeviceTypes
<1>2. \A c \in Clients : /\ clientTokens[c] \in Nat /\ tokensFree[c] \in Nat
                         /\ peerTokens[c] \in Nat /\ pipe[c] \in Seq(PipeItem)
  BY DEF TypeOK, RxTypes, ChanTypes
<1>3. ASSUME NEW c
      PROVE  Count(writeQueue, Mine(c)) \in Nat /\ Price(c, cur) \in Nat /\ Recv(c) \in {0, 1}
  BY <1>1, MineCounts, PriceFacts DEF Recv
<1> QED BY <1>1, <1>2, <1>3

LEMMA GoingKept ==
  ASSUME TypeOK, NEW A, NEW T, Moves(A, T), "free" \notin T, "destroy" \notin T
  PROVE  \A c : Going(c) => Going(c)'
<1>1. \A f \in Active : f.op \notin T => f \in Active'
  BY MovesFrames
<1> QED BY <1>1 DEF Going, F, FC

LEMMA SumsKept ==
  ASSUME SumsInv, clients' \subseteq clients, \A c \in clients' : Going(c) => Going(c)',
         FlowControl => \A c \in clients' : ~Going(c)' => TokenSum(c)' = TokenSum(c)
  PROVE  SumsInv'
BY DEF SumsInv

\* Steps that do not touch what the sum is of.
Dull == Calm /\ UNCHANGED <<clientTokens, tokensFree, held, heldAs>>

LEMMA DullSteps ==
  ASSUME ConstantsOK, TypeOK,
         \/ Reading \/ WriteRefused \/ WriteNested \/ WriteBegin \/ WriteAgain \/ WriteEnd
         \/ WriteRetry \/ StartLoop \/ GuestWrites
         \/ \E c \in Clients : \/ Channel(c) \/ Writable(c) \/ PeerCloses(c) \/ FreeQueued(c)
                               \/ Pushing(c) \/ WaitTimeout(c) \/ BufStale(c) \/ RestoreLate(c)
                               \/ \E n \in 0..MaxSend : TokensSet(c, n) \/ TokensAdd(c, n)
  PROVE  Dull
<1>1. Calm
  BY ReadingCalm, TurnsCalm, EventsCalm, ChannelCalm, FreeQueuedCalm, PushingCalm
<1>2. UNCHANGED <<clientTokens, tokensFree, held, heldAs>>
  <2>1. CASE Reading
    BY <2>1 DEF Reading, ReadRefused, ReadNested, ReadBegin, ReadMsg, ReadDiscard, ReadNothing,
       ReadAgain, ReadEnd, SendDone, DropMsg, SendNow, SendOverflow, SendLater, rxVars
  <2>2. CASE \E c \in Clients : \/ Channel(c) \/ Writable(c) \/ PeerCloses(c) \/ FreeQueued(c)
                                \/ BufStale(c) \/ RestoreLate(c)
    BY <2>2 DEF Channel, FlushSend, FlushStop, FlushFail, HangupItem, HangupEnd, Writable,
       PeerCloses, FreeQueued, BufStale, RestoreLate, rxVars
  <2>3. CASE \E c \in Clients : \/ Pushing(c) \/ WaitTimeout(c)
                                \/ \E n \in 0..MaxSend : TokensSet(c, n) \/ TokensAdd(c, n)
    BY <2>3 DEF Pushing, PushOne, PushUnref, PushShrink, PushEnd, AbsorbEnd, WaitTimeout,
       TokensSet, TokensAdd, Absorb, rxVars
  <2>4. CASE \/ WriteRefused \/ WriteNested \/ WriteBegin \/ WriteAgain \/ WriteEnd
             \/ WriteRetry \/ StartLoop \/ GuestWrites
    BY <2>4 DEF WriteRefused, WriteNested, WriteBegin, WriteAgain, WriteEnd, WriteRetry,
       StartLoop, GuestWrites, rxVars
  <2> QED BY <2>1, <2>2, <2>3, <2>4
<1> QED BY <1>1, <1>2 DEF Dull

LEMMA CalmGoing ==
  ASSUME TypeOK, Calm
  PROVE  \A c : Going(c) => Going(c)'
<1>1. Moves(Ops \ KeyOps, Ops \ KeyOps) /\ "free" \notin Ops \ KeyOps /\ "destroy" \notin Ops \ KeyOps
  BY DEF Calm, KeyOps
<1> QED BY <1>1, GoingKept

LEMMA DullSums ==
  ASSUME TypeOK, PartsInv, SumsInv, Dull
  PROVE  PartsInv' /\ SumsInv'
<1>1. UNCHANGED <<clients, cur, writeQueue, clientTokens, tokensFree, held, heldAs>>
  BY DEF Dull, Calm
<1>2. \A c : TokenSum(c)' = TokenSum(c) /\ (Receiving(c)' <=> Receiving(c))
  BY <1>1 DEF TokenSum, Recv, Receiving
<1>3. SumsInv'
  BY <1>1, <1>2, CalmGoing, SumsKept DEF Dull
<1>4. \A c \in Clients : conn[c] \in {"open", "shut", "closed"} => conn'[c] \in {"open", "shut", "closed"}
  BY DEF Dull, Calm
<1> QED BY <1>1, <1>2, <1>3, <1>4 DEF PartsInv

\* A released buffer brings back what it cost, at once or kept for later.
LEMMA ReleaseSums ==
  ASSUME ConstantsOK, TypeOK, NEW buf \in WriteBuf \cup {NoBuf}, NEW q \in Seq(WriteBuf), NEW rest,
         Release(buf, q, rest), NEW d \in Clients
  PROVE  /\ FlowControl => clientTokens'[d] + tokensFree'[d]
                             = clientTokens[d] + tokensFree[d] + Price(d, buf)
         /\ clientTokens'[d] \in Nat /\ tokensFree'[d] \in Nat
         /\ Count(writeQueue', Mine(d)) = Count(q, Mine(d))
         /\ \A b \in Queued(writeQueue') : b \in Queued(q) \/ b.origin # "client"
<1> DEFINE f == tokensFree[buf.c] + buf.price
<1>1. /\ clientTokens \in [Clients -> Nat] /\ tokensFree \in [Clients -> Nat]
      /\ buf.origin = "client" => buf.c \in Clients
      /\ buf.price \in Nat /\ Interval \in Nat
  BY SumTypes, SMTT(20) DEF TypeOK, RxTypes, Release, WriteBuf, NoBuf, ConstantsOK
<1>2. Count(writeQueue', Mine(d)) = Count(q, Mine(d))
  <2>1. writeQueue' = q \/ writeQueue' = Append(q, ServerBuf)
    BY ReleaseQueue
  <2>2. Count(Append(q, ServerBuf), Mine(d)) = Count(q, Mine(d)) + Unit(d, ServerBuf)
    BY MineCounts, WriteFacts
  <2>3. Unit(d, ServerBuf) = 0 /\ Count(q, Mine(d)) \in Nat
    BY MineCounts, PriceFacts DEF Unit
  <2>4. Count(Append(q, ServerBuf), Mine(d)) = Count(q, Mine(d))
    BY <2>2, <2>3
  <2> QED BY <2>1, <2>4
<1>3. \A b \in Queued(writeQueue') : b \in Queued(q) \/ b.origin # "client"
  BY ReleaseQueue
<1>4. CASE ~(buf.origin = "client" /\ FlowControl)
  <2>1. tokensFree' = tokensFree /\ clientTokens' = clientTokens
    BY <1>4 DEF Release
  <2>2. FlowControl => Price(d, buf) = 0
    BY <1>4, PriceFacts
  <2>3. clientTokens[d] \in Nat /\ tokensFree[d] \in Nat
    BY <1>1
  <2> QED BY <2>1, <2>2, <2>3, <1>2, <1>3
<1>5. CASE buf.origin = "client" /\ FlowControl
  <2>1. /\ tokensFree' = [tokensFree EXCEPT ![buf.c] = Kept(f)]
        /\ f >= Interval => clientTokens' = [clientTokens EXCEPT ![buf.c] = clientTokens[buf.c] + f]
        /\ ~(f >= Interval) => clientTokens' = clientTokens
    BY <1>5 DEF Release
  <2>2. CASE d # buf.c
    <3>1. Price(d, buf) = 0
      BY <2>2 DEF Price, Owns
    <3>2. clientTokens'[d] = clientTokens[d] /\ tokensFree'[d] = tokensFree[d]
      BY <1>1, <2>1, <2>2
    <3> QED BY <1>1, <1>2, <1>3, <3>1, <3>2
  <2>3. CASE d = buf.c
    <3>1. Price(d, buf) = buf.price /\ f = tokensFree[d] + buf.price /\ f \in Nat
      BY <1>1, <1>5, <2>3, SMTT(20) DEF Price, Owns
    <3>2. tokensFree'[d] = Kept(f)
      BY <1>1, <2>1, <2>3
    <3>3. clientTokens'[d] = IF f >= Interval THEN clientTokens[d] + f ELSE clientTokens[d]
      BY <1>1, <2>1, <2>3
    <3>4. clientTokens[d] \in Nat /\ tokensFree[d] \in Nat
      BY <1>1
    <3> HIDE DEF f
    <3>5. clientTokens'[d] \in Nat /\ tokensFree'[d] \in Nat
      BY <3>1, <3>2, <3>3, <3>4 DEF Kept
    <3>6. clientTokens'[d] + tokensFree'[d] = clientTokens[d] + f
      BY <3>1, <3>2, <3>3, <3>4 DEF Kept
    <3>7. clientTokens[d] + f = clientTokens[d] + tokensFree[d] + Price(d, buf)
      BY ONLY <1>1, <3>1, <3>4, SMTT(20)
    <3> QED BY <1>2, <1>3, <3>5, <3>6, <3>7
  <2> QED BY <2>2, <2>3
<1> QED BY <1>4, <1>5

\* A message arrives from a client, is given back or is put into the queue.
LEMMA MessageSums ==
  ASSUME ConstantsOK, TypeOK, LoopInv, WritingInv, PartsInv, SumsInv, NEW c \in Clients,
         BufGet(c) \/ BufGiveBack(c) \/ BufAdd(c)
  PROVE  PartsInv' /\ SumsInv'
<1>1. /\ clients' = clients /\ conn' = conn /\ cur' = cur /\ stack = <<>>
      /\ \A d \in Clients : d # c => (Receiving(d)' <=> Receiving(d))
      /\ BufGet(c) => ~Receiving(c) /\ Receiving(c)' /\ conn[c] = "open"
      /\ ~BufGet(c) => Receiving(c) /\ ~Receiving(c)'
  <2>1. c # None
    BY DEF ConstantsOK
  <2>2. /\ clients' = clients /\ conn' = conn /\ cur' = cur /\ stack = <<>>
        /\ BufGet(c) => conn[c] = "open" /\ held = None /\ held' = c /\ heldAs' = "live"
        /\ ~BufGet(c) => Receiving(c) /\ held' = None
    <3>1. CASE BufGet(c)
      BY <3>1 DEF BufGet, Idle, writeVars
    <3>2. CASE BufGiveBack(c)
      <4>1. ~BufGet(c)
        BY <2>1, <3>2 DEF BufGet, BufGiveBack, Receiving
      <4> QED BY <3>2, <4>1 DEF BufGiveBack, Idle
    <3>3. CASE BufAdd(c)
      <4>1. ~BufGet(c)
        BY <2>1, <3>3 DEF BufGet, BufAdd, Receiving
      <4> QED BY <3>3, <4>1 DEF BufAdd, Idle, chanVars
    <3> QED BY <3>1, <3>2, <3>3
  <2>3. \A d \in Clients : d # None
    BY DEF ConstantsOK
  <2> QED BY <2>1, <2>2, <2>3 DEF Receiving
<1>2. \A d \in Clients : /\ d # c => Recv(d)' = Recv(d)
                         /\ BufGet(c) => Recv(c) = 0 /\ Recv(c)' = 1
                         /\ ~BufGet(c) => Recv(c) = 1 /\ Recv(c)' = 0
  BY <1>1 DEF Recv
<1>3. \A d : ~Going(d)
  BY <1>1, IdleFacts DEF Idle, Going
<1>4. clients \subseteq Clients /\ \A d \in Clients : Price(d, cur)' = Price(d, cur)
  BY <1>1, SumTypes
<1>5. ASSUME FlowControl, NEW d \in clients'
      PROVE  TokenSum(d)' = TokenSum(d)
  <2>0. d \in clients /\ d \in Clients
    BY <1>1, <1>4, <1>5
  <2>1. CASE BufGet(c)
    <3>1. clientTokens' = [clientTokens EXCEPT ![c] = clientTokens[c] - 1]
          /\ UNCHANGED <<tokensFree, writeQueue>>
      BY <1>5, <2>1 DEF BufGet, writeVars
    <3>2. clientTokens'[d] = IF d = c THEN clientTokens[d] - 1 ELSE clientTokens[d]
      BY <2>0, <3>1 DEF TypeOK, RxTypes
    <3>3. TokenSum(d)' = clientTokens'[d] + tokensFree[d] + Count(writeQueue, Mine(d)) + Price(d, cur) + Recv(d)'
      BY <1>4, <2>0, <3>1 DEF TokenSum
    <3>4. /\ clientTokens[d] \in Nat /\ tokensFree[d] \in Nat /\ Count(writeQueue, Mine(d)) \in Nat
          /\ Price(d, cur) \in Nat /\ Recv(d) \in {0, 1}
      BY <2>0, SumTypes
    <3>5. CASE d = c
      BY <1>2, <2>0, <2>1, <3>2, <3>3, <3>4, <3>5 DEF TokenSum
    <3>6. CASE d # c
      BY <1>2, <2>0, <2>1, <3>2, <3>3, <3>4, <3>6 DEF TokenSum
    <3> QED BY <3>5, <3>6
  <2>2. CASE BufAdd(c)
    <3>1. /\ UNCHANGED <<clientTokens, tokensFree>>
          /\ c \in clients => writeQueue' = Append(writeQueue, ClientBuf(c, 1))
          /\ c \notin clients => writeQueue' = writeQueue
      BY <2>2 DEF BufAdd
    <3>2. ~BufGet(c)
      BY <2>2 DEF BufGet, BufAdd, ConstantsOK, Receiving
    <3>3. TokenSum(d)' = clientTokens[d] + tokensFree[d] + Count(writeQueue', Mine(d)) + Price(d, cur) + Recv(d)'
      BY <1>4, <2>0, <3>1 DEF TokenSum
    <3>4. /\ clientTokens[d] \in Nat /\ tokensFree[d] \in Nat /\ Count(writeQueue, Mine(d)) \in Nat
          /\ Price(d, cur) \in Nat /\ Recv(d) \in {0, 1}
      BY <2>0, SumTypes
    <3>5. Count(Append(writeQueue, ClientBuf(c, 1)), Mine(d))
            = Count(writeQueue, Mine(d)) + Unit(d, ClientBuf(c, 1))
      BY SumTypes, MineCounts, WriteFacts
    <3>6. Unit(d, ClientBuf(c, 1)) = IF d = c THEN 1 ELSE 0
      BY PriceFacts DEF Unit
    <3>7. CASE d = c
      <4>1. Count(writeQueue', Mine(d)) = Count(writeQueue, Mine(d)) + 1
        BY <2>0, <3>1, <3>5, <3>6, <3>7
      <4>2. Recv(d) = 1 /\ Recv(d)' = 0
        BY <1>2, <2>0, <3>2, <3>7
      <4> QED BY <3>3, <3>4, <4>1, <4>2 DEF TokenSum
    <3>8. CASE d # c
      <4>1. Count(Append(writeQueue, ClientBuf(c, 1)), Mine(d)) = Count(writeQueue, Mine(d))
        BY <3>4, <3>5, <3>6, <3>8
      <4>2. Count(writeQueue', Mine(d)) = Count(writeQueue, Mine(d))
        BY <3>1, <4>1
      <4> QED BY <1>2, <2>0, <3>3, <3>8, <4>2 DEF TokenSum
    <3> QED BY <3>7, <3>8
  <2>3. CASE BufGiveBack(c)
    <3>1. exists
      BY <2>0 DEF WritingInv, DeviceInv
    <3>2. Release(ClientBuf(c, 1), writeQueue, <<>>)
      BY <2>3, <3>1 DEF BufGiveBack
    <3>3. ClientBuf(c, 1) \in WriteBuf
      BY WriteFacts
    <3>4. /\ clientTokens'[d] + tokensFree'[d]
               = clientTokens[d] + tokensFree[d] + Price(d, ClientBuf(c, 1))
          /\ clientTokens'[d] \in Nat /\ tokensFree'[d] \in Nat
          /\ Count(writeQueue', Mine(d)) = Count(writeQueue, Mine(d))
      BY <1>5, <2>0, <3>2, <3>3, SumTypes, ReleaseSums
    <3>5. Price(d, ClientBuf(c, 1)) = IF d = c THEN 1 ELSE 0
      BY PriceFacts DEF Price
    <3>6. ~BufGet(c)
      BY <2>3 DEF BufGet, BufGiveBack, ConstantsOK, Receiving
    <3>7. Price(d, ClientBuf(c, 1)) + Recv(d)' = Recv(d)
      <4>1. CASE d = c
        BY <1>2, <2>0, <3>5, <3>6, <4>1
      <4>2. CASE d # c
        <5>1. Recv(d)' = Recv(d) /\ Recv(d) \in {0, 1}
          BY <1>2, <2>0, <4>2, SumTypes
        <5> QED BY <3>5, <4>2, <5>1
      <4> QED BY <4>1, <4>2
    <3>8. /\ clientTokens[d] \in Nat /\ tokensFree[d] \in Nat /\ Count(writeQueue, Mine(d)) \in Nat
          /\ Price(d, cur) \in Nat /\ Price(d, ClientBuf(c, 1)) \in {0, 1} /\ Recv(d)' \in {0, 1}
      BY <2>0, <3>5, <1>2, SumTypes
    <3>9. TokenSum(d)' = (clientTokens'[d] + tokensFree'[d]) + Count(writeQueue, Mine(d)) + Price(d, cur) + Recv(d)'
      BY <1>4, <2>0, <3>4 DEF TokenSum
    <3>10. TokenSum(d) = clientTokens[d] + tokensFree[d] + Count(writeQueue, Mine(d)) + Price(d, cur)
                           + (Price(d, ClientBuf(c, 1)) + Recv(d)')
      BY <3>7 DEF TokenSum
    <3> QED BY <3>4, <3>8, <3>9, <3>10
  <2> QED BY <2>1, <2>2, <2>3
<1>6. SumsInv'
  BY <1>1, <1>3, <1>5, SumsKept
<1>7. \A b \in Queued(writeQueue') : b \in Queued(writeQueue) \/ b.origin # "client" \/ b.price = 1
  <2>1. CASE BufGet(c)
    BY <2>1 DEF BufGet, writeVars
  <2>2. CASE BufAdd(c)
    <3>1. writeQueue' = writeQueue \/ writeQueue' = Append(writeQueue, ClientBuf(c, 1))
      BY <2>2 DEF BufAdd
    <3>2. Queued(Append(writeQueue, ClientBuf(c, 1))) = Queued(writeQueue) \cup {ClientBuf(c, 1)}
      BY SumTypes, WriteFacts, QueuedSteps
    <3>3. ClientBuf(c, 1).price = 1
      BY DEF ClientBuf
    <3> QED BY <3>1, <3>2, <3>3
  <2>3. CASE BufGiveBack(c)
    <3>1. writeQueue' = writeQueue \/ Release(ClientBuf(c, 1), writeQueue, <<>>)
      BY <2>3 DEF BufGiveBack
    <3>2. ClientBuf(c, 1) \in WriteBuf
      BY WriteFacts
    <3> QED BY <3>1, <3>2, SumTypes, ReleaseSums
  <2> QED BY <2>1, <2>2, <2>3
<1>8. PartsInv'
  BY <1>1, <1>7 DEF PartsInv
<1> QED BY <1>6, <1>8

\* A buffer leaves the queue to be written, and is released when it is.
LEMMA TakenSums ==
  ASSUME ConstantsOK, TypeOK, PartsInv, SumsInv, WriteAll \/ WritePart \/ WriteNone
  PROVE  PartsInv' /\ SumsInv'
<1>1. PICK op : WriteSome(op)
  BY DEF WriteAll, WritePart, WriteNone
<1>2. /\ cur' = IF cur = NoBuf THEN Head(writeQueue) ELSE cur
      /\ writeQueue' = IF cur = NoBuf THEN Tail(writeQueue) ELSE writeQueue
      /\ cur # NoBuf \/ writeQueue # <<>>
      /\ UNCHANGED <<clients, conn, clientTokens, tokensFree, held, heldAs>>
  BY <1>1 DEF WriteSome, MayWrite, rxVars, chanVars
<1>3. \A c : Going(c) => Going(c)'
  <2>1. Moves(WakeOps \cup WritingOps \cup {"flush"}, WritingOps)
    BY WritingMoves DEF Writing
  <2>2. "free" \notin WritingOps /\ "destroy" \notin WritingOps
    BY DEF WritingOps
  <2> QED BY <2>1, <2>2, GoingKept
<1>4. \A c : (Receiving(c)' <=> Receiving(c)) /\ Recv(c)' = Recv(c)
  BY <1>2 DEF Receiving, Recv
<1>5. CASE cur # NoBuf
  <2>1. \A c : TokenSum(c)' = TokenSum(c)
    BY <1>2, <1>4, <1>5 DEF TokenSum
  <2>2. SumsInv'
    BY <1>2, <1>3, <2>1, SumsKept
  <2> QED BY <1>2, <1>4, <1>5, <2>2 DEF PartsInv
<1>6. CASE cur = NoBuf
  <2>1. /\ Head(writeQueue) \in WriteBuf /\ Tail(writeQueue) \in Seq(WriteBuf)
        /\ Queued(writeQueue) = {Head(writeQueue)} \cup Queued(Tail(writeQueue))
    BY <1>2, <1>6, SumTypes, QueuedSteps
  <2>2. \A c : Price(c, Head(writeQueue)) = Unit(c, Head(writeQueue))
    <3>1. Head(writeQueue).origin = "client" => Head(writeQueue).price = 1
      BY <2>1 DEF PartsInv
    <3> QED BY <3>1, PriceFacts
  <2>3. ASSUME NEW c \in clients'
        PROVE  TokenSum(c)' = TokenSum(c)
    <3>1. Count(writeQueue, Mine(c)) = Count(Tail(writeQueue), Mine(c)) + Unit(c, Head(writeQueue))
      BY <1>2, <1>6, SumTypes, MineCounts
    <3>2. Price(c, cur) = 0 /\ Price(c, cur') = Unit(c, Head(writeQueue))
      BY <1>2, <1>6, <2>2, PriceFacts DEF Price
    <3>3. /\ Count(Tail(writeQueue), Mine(c)) \in Nat /\ Unit(c, Head(writeQueue)) \in {0, 1}
          /\ clientTokens[c] \in Nat /\ tokensFree[c] \in Nat /\ Recv(c) \in {0, 1}
      BY <1>2, <2>1, <2>3, SumTypes, MineCounts, PriceFacts
    <3>4. TokenSum(c)' = clientTokens[c] + tokensFree[c] + Count(Tail(writeQueue), Mine(c))
                           + Price(c, cur') + Recv(c)
      BY <1>2, <1>4, <1>6 DEF TokenSum, Price
    <3> QED BY <3>1, <3>2, <3>3, <3>4 DEF TokenSum
  <2>4. SumsInv'
    BY <1>2, <1>3, <2>3, SumsKept
  <2> QED BY <1>2, <1>4, <1>6, <2>1, <2>4 DEF PartsInv
<1> QED BY <1>5, <1>6

\* The buffer buf, which was being written or first in the queue, is released.
LEMMA ReleasedSums ==
  ASSUME ConstantsOK, TypeOK, PartsInv, SumsInv, NEW buf \in WriteBuf \cup {NoBuf},
         NEW q \in Seq(WriteBuf), NEW rest, Release(buf, q, rest),
         UNCHANGED <<clients, conn, held, heldAs>>, \A c : Going(c) => Going(c)',
         \/ buf = cur /\ cur' = NoBuf /\ q = writeQueue
         \/ cur' = cur /\ writeQueue # <<>> /\ buf = Head(writeQueue) /\ q = Tail(writeQueue)
  PROVE  PartsInv' /\ SumsInv'
<1>1. \A c : (Receiving(c)' <=> Receiving(c)) /\ Recv(c)' = Recv(c)
  BY DEF Receiving, Recv
<1>2. Queued(q) \subseteq Queued(writeQueue)
  <2>1. \A r \in Seq(WriteBuf) : r # <<>> => Queued(r) = {Head(r)} \cup Queued(Tail(r))
    BY QueuedSteps
  <2>2. writeQueue \in Seq(WriteBuf)
    BY SumTypes
  <2>3. CASE q = writeQueue
    BY <2>3
  <2>4. CASE writeQueue # <<>> /\ q = Tail(writeQueue)
    BY <2>1, <2>2, <2>4
  <2> QED BY <2>3, <2>4
<1>3. ASSUME NEW c \in Clients
      PROVE  /\ Count(writeQueue, Mine(c)) + Price(c, cur)
                  = Count(q, Mine(c)) + Price(c, buf) + Price(c, cur')
             /\ Price(c, cur') \in Nat
  <2>1. CASE buf = cur /\ cur' = NoBuf /\ q = writeQueue
    <3>1. Price(c, cur') = 0
      BY <2>1, PriceFacts DEF Price
    <3> QED BY <2>1, <3>1, SumTypes, PriceFacts
  <2>2. CASE cur' = cur /\ writeQueue # <<>> /\ buf = Head(writeQueue) /\ q = Tail(writeQueue)
    <3>1. Count(writeQueue, Mine(c)) = Count(q, Mine(c)) + Unit(c, buf)
      BY <2>2, SumTypes, MineCounts
    <3>2. buf \in Queued(writeQueue)
      BY <2>2, QueuedSteps, SumTypes
    <3>3. Price(c, buf) = Unit(c, buf)
      BY <3>2, PriceFacts DEF PartsInv
    <3>4. Count(q, Mine(c)) \in Nat /\ Price(c, buf) \in Nat /\ Price(c, cur) \in Nat
      BY MineCounts, PriceFacts, SumTypes
    <3> QED BY <2>2, <3>1, <3>3, <3>4
  <2> QED BY <2>1, <2>2
<1>4. ASSUME FlowControl, NEW c \in clients'
      PROVE  TokenSum(c)' = TokenSum(c)
  <2>1. c \in Clients
    BY <1>4, SumTypes
  <2>2. /\ clientTokens'[c] + tokensFree'[c] = clientTokens[c] + tokensFree[c] + Price(c, buf)
        /\ clientTokens'[c] \in Nat /\ tokensFree'[c] \in Nat
        /\ Count(writeQueue', Mine(c)) = Count(q, Mine(c))
    BY <1>4, <2>1, ReleaseSums
  <2>3. /\ clientTokens[c] \in Nat /\ tokensFree[c] \in Nat /\ Price(c, buf) \in Nat
        /\ Count(q, Mine(c)) \in Nat /\ Price(c, cur) \in Nat /\ Recv(c) \in {0, 1}
        /\ Count(writeQueue, Mine(c)) \in Nat
    BY <2>1, SumTypes, MineCounts, PriceFacts
  <2>4. TokenSum(c)' = (clientTokens'[c] + tokensFree'[c]) + Count(q, Mine(c)) + Price(c, cur') + Recv(c)
    BY <1>1, <2>2 DEF TokenSum, Price
  <2>5. TokenSum(c) = clientTokens[c] + tokensFree[c]
                        + (Count(writeQueue, Mine(c)) + Price(c, cur)) + Recv(c)
    BY ONLY <2>3, SMTT(20) DEF TokenSum
  <2>6. /\ Count(writeQueue, Mine(c)) + Price(c, cur)
             = Count(q, Mine(c)) + Price(c, buf) + Price(c, cur')
        /\ Price(c, cur') \in Nat
    BY <1>3, <2>1
  <2>7. \A t, p, n, x, r \in Nat :
          (t + p) + n + x + r = t + (n + p + x) + r
    OBVIOUS
  <2>8. /\ clientTokens[c] + tokensFree[c] \in Nat /\ Price(c, buf) \in Nat
        /\ Count(q, Mine(c)) \in Nat /\ Price(c, cur') \in Nat /\ Recv(c) \in Nat
    BY ONLY <2>3, <2>6, SumOfNats, SMTT(20)
  <2>9. (clientTokens[c] + tokensFree[c] + Price(c, buf)) + Count(q, Mine(c)) + Price(c, cur') + Recv(c)
          = clientTokens[c] + tokensFree[c]
              + (Count(q, Mine(c)) + Price(c, buf) + Price(c, cur')) + Recv(c)
    BY ONLY <2>7, <2>8
  <2> QED BY <2>2, <2>4, <2>5, <2>6, <2>9
<1>5. SumsInv'
  BY <1>4, SumsKept
<1>6. PartsInv'
  <2>1. \A b \in Queued(writeQueue') : b \in Queued(q) \/ b.origin # "client"
    BY ReleaseQueue
  <2> QED BY <1>1, <1>2, <2>1 DEF PartsInv
<1> QED BY <1>5, <1>6

LEMMA WrittenSums ==
  ASSUME ConstantsOK, TypeOK, PartsInv, SumsInv, WriteRelease \/ ResetRelease \/ ResetQueues
  PROVE  PartsInv' /\ SumsInv'
<1>1. CASE WriteRelease
  <2>1. /\ cur' = NoBuf /\ Release(cur, writeQueue, <<F("write")>> \o Tail(stack))
        /\ UNCHANGED <<clients, conn, held, heldAs>>
    BY <1>1 DEF WriteRelease
  <2>2. \A c : Going(c) => Going(c)'
    <3>1. Moves(WakeOps \cup WritingOps \cup {"flush"}, WritingOps)
      BY <1>1, WritingMoves DEF Writing
    <3>2. "free" \notin WritingOps /\ "destroy" \notin WritingOps
      BY DEF WritingOps
    <3> QED BY <3>1, <3>2, GoingKept
  <2> QED BY <2>1, <2>2, SumTypes, ReleasedSums
<1>2. CASE ResetRelease
  <2>1. UNCHANGED <<clients, conn, held, heldAs>>
    BY <1>2 DEF ResetRelease
  <2>2. \A c : Going(c) => Going(c)'
    BY <1>2, ResetMoves, GoingKept
  <2>3. \/ /\ writeQueue # <<>> /\ cur' = cur
           /\ Release(Head(writeQueue), Tail(writeQueue), stack)
        \/ /\ cur # NoBuf /\ cur' = NoBuf
           /\ Release(cur, writeQueue, <<F("reset2")>> \o Tail(stack))
        \/ UNCHANGED <<cur, writeQueue, clientTokens, tokensFree>>
    BY <1>2 DEF ResetRelease
  <2>4. CASE /\ writeQueue # <<>> /\ cur' = cur
             /\ Release(Head(writeQueue), Tail(writeQueue), stack)
    <3>1. Head(writeQueue) \in WriteBuf /\ Tail(writeQueue) \in Seq(WriteBuf)
      BY <2>4, SumTypes, WriteFacts
    <3> QED BY <2>1, <2>2, <2>4, <3>1, ReleasedSums
  <2>5. CASE /\ cur # NoBuf /\ cur' = NoBuf
             /\ Release(cur, writeQueue, <<F("reset2")>> \o Tail(stack))
    BY <2>1, <2>2, <2>5, SumTypes, ReleasedSums
  <2>6. CASE UNCHANGED <<cur, writeQueue, clientTokens, tokensFree>>
    <3>1. \A c : TokenSum(c)' = TokenSum(c) /\ (Receiving(c)' <=> Receiving(c))
      BY <2>1, <2>6 DEF TokenSum, Recv, Receiving
    <3>2. SumsInv'
      BY <2>1, <2>2, <3>1, SumsKept
    <3> QED BY <2>1, <2>6, <3>1, <3>2 DEF PartsInv
  <2> QED BY <2>3, <2>4, <2>5, <2>6
<1>3. CASE ResetQueues
  <2>1. UNCHANGED <<clients, conn, cur, writeQueue, clientTokens, tokensFree, held, heldAs>>
    BY <1>3 DEF ResetQueues, writeVars, rxVars, chanVars
  <2>2. \A c : Going(c) => Going(c)'
    <3>1. stack # <<>> /\ Top.op = "reset2" /\ Return
      BY <1>3 DEF ResetQueues, At, Top
    <3>2. Moves({}, {"reset2"})
      BY <3>1, MovesSteps
    <3> QED BY <3>2, GoingKept
  <2>3. \A c : TokenSum(c)' = TokenSum(c) /\ (Receiving(c)' <=> Receiving(c))
    BY <2>1 DEF TokenSum, Recv, Receiving
  <2>4. SumsInv'
    BY <2>1, <2>2, <2>3, SumsKept
  <2> QED BY <2>1, <2>3, <2>4 DEF PartsInv
<1> QED BY <1>1, <1>2, <1>3

\* Of the frames of removals only that of the client that is then removed goes.
LEMMA RemovedGoing ==
  ASSUME TypeOK, MessageInv, RemovedEnd \/ \E c \in Clients : FreeWritten(c) \/ FreeEnd(c) \/ Gone(c)
  PROVE  \A d \in clients' : Going(d) => Going(d)'
<1>1. CASE RemovedEnd
  <2>1. stack # <<>> /\ Top.op = "removed" /\ (Return \/ Become(<<F("read?")>>))
    BY <1>1 DEF RemovedEnd, At, Top
  <2>2. <<F("read?")>> \in Only({"read?"}) /\ {"read?"} \in SUBSET Ops
    BY OnlyFacts DEF Ops
  <2>3. Moves({"read?"}, {"removed"})
    BY <2>1, <2>2, MovesSteps
  <2> QED BY <2>3, GoingKept
<1>2. CASE \E c \in Clients : FreeWritten(c)
  BY <1>2 DEF FreeWritten, Going, Active
<1>3. ASSUME NEW c \in Clients, FreeEnd(c) PROVE \A d \in clients' : Going(d) => Going(d)'
  <2>1. clients' = clients \ {c}
    BY <1>3 DEF FreeEnd
  <2>2. Top = FC("free", c) /\ Active = {Top} \cup Frames(Tail(stack)) /\ Active' = Frames(Tail(stack))
    <3>1. /\ Active = {Top} \cup Frames(Tail(stack)) /\ Active' = Frames(Tail(stack))
          /\ Top.op = "free" /\ Top.c = c
      BY <1>3, FreeFrames DEF MessageInv
    <3>2. Top = FC("free", c)
      BY <3>1 DEF MessageInv
    <3> QED BY <3>1, <3>2
  <2> QED BY <2>1, <2>2 DEF Going, FC, F
<1>4. CASE \E c \in Clients : Gone(c)
  <2>1. stack # <<>> /\ Top.op = "gone" /\ (Return \/ Become(<<F("write?")>>))
    BY <1>4 DEF Gone, At, Top
  <2>2. <<F("write?")>> \in Only({"write?"}) /\ {"write?"} \in SUBSET Ops
    BY OnlyFacts DEF Ops
  <2>3. Moves({"write?"}, {"gone"})
    BY <2>1, <2>2, MovesSteps
  <2> QED BY <2>3, GoingKept
<1> QED BY <1>1, <1>2, <1>3, <1>4

\* One that is reported to be gone is no longer attached.
LEMMA GoneDetached ==
  ASSUME TypeOK, RemovalInv, NEW c \in Clients, Gone(c)
  PROVE  c \notin clients
<1>1. stack # <<>> /\ Top.op = "gone" /\ Top.c = c
  BY DEF Gone, At, Top
<1>2. NoneOf({"free"}, Tail(stack))
  BY <1>1, OverSteps, StackFacts DEF RemovalInv, Orderly, Top
<1>3. Top \in Active /\ Active = {Top} \cup Frames(Tail(stack))
  BY <1>1, HasFrames
<1>4. FC("free", c) \notin Active
  BY <1>1, <1>2, <1>3 DEF NoneOf, Frames, FC
<1> QED BY <1>1, <1>3, <1>4 DEF RemovalInv

\* A client is removed and reported to be gone.
LEMMA RemovedSums ==
  ASSUME ConstantsOK, TypeOK, LoopInv, WritingInv, MessageInv, PartsInv, SumsInv,
         RemovedEnd \/ \E c \in Clients : FreeWritten(c) \/ FreeEnd(c) \/ Gone(c)
  PROVE  PartsInv' /\ SumsInv'
<1>1. CASE RemovedEnd
  <2>1. UNCHANGED <<clients, conn, cur, writeQueue, clientTokens, tokensFree, held, heldAs>>
    BY <1>1 DEF RemovedEnd, writeVars, rxVars, chanVars
  <2>2. \A c \in clients' : Going(c) => Going(c)'
    BY <1>1, RemovedGoing
  <2>3. \A c : TokenSum(c)' = TokenSum(c) /\ (Receiving(c)' <=> Receiving(c))
    BY <2>1 DEF TokenSum, Recv, Receiving
  <2>4. SumsInv'
    BY <2>1, <2>2, <2>3, SumsKept
  <2> QED BY <2>1, <2>3, <2>4 DEF PartsInv
<1>2. ASSUME NEW c \in Clients, FreeWritten(c) PROVE PartsInv' /\ SumsInv'
  <2>1. /\ UNCHANGED <<clients, conn, cur, clientTokens, tokensFree, held, heldAs, stack>>
        /\ stack # <<>> /\ Top.op = "free" /\ Top.c = c
    BY <1>2 DEF FreeWritten, rxVars, chanVars, At, Top
  <2>2. PICK i \in 1..Len(writeQueue) :
          /\ Owns(c, writeQueue[i])
          /\ writeQueue' = SubSeq(writeQueue, 1, i - 1) \o SubSeq(writeQueue, i + 1, Len(writeQueue))
    <3>1. writeQueue \in Seq(WriteBuf)
      BY SumTypes
    <3>2. DOMAIN writeQueue = 1..Len(writeQueue)
      BY <3>1, LenProperties
    <3> QED BY <1>2, <3>2 DEF FreeWritten
  <2>3. Going(c) /\ \A d : Going(d)' <=> Going(d)
    <3>1. Top \in Active
      BY <2>1, HasFrames
    <3>2. Top = FC("free", c)
      BY <2>1, <3>1 DEF MessageInv
    <3> QED BY <2>1, <3>1, <3>2 DEF Going, Active
  <2>4. \A d : (Receiving(d)' <=> Receiving(d)) /\ Recv(d)' = Recv(d)
    BY <2>1 DEF Receiving, Recv
  <2>5. ASSUME NEW d \in clients', d # c
        PROVE  TokenSum(d)' = TokenSum(d)
    <3>1. Unit(d, writeQueue[i]) = 0
      BY <2>2, <2>5 DEF Unit, Owns
    <3>2. Count(writeQueue, Mine(d)) = Count(writeQueue', Mine(d)) + 0
      BY <2>2, <3>1, SumTypes, MineCounts
    <3>3. writeQueue' \in Seq(WriteBuf)
      BY <2>2, QueuedSteps, SumTypes
    <3>4. Count(writeQueue', Mine(d)) = Count(writeQueue, Mine(d))
      BY <3>2, <3>3, MineCounts
    <3> QED BY <2>1, <2>4, <3>4 DEF TokenSum
  <2>6. SumsInv'
    BY <2>1, <2>3, <2>5, SumsKept
  <2>7. Queued(writeQueue') \subseteq Queued(writeQueue)
    BY <2>2, QueuedSteps, SumTypes
  <2> QED BY <2>1, <2>4, <2>6, <2>7 DEF PartsInv
<1>3. ASSUME NEW c \in Clients, FreeEnd(c) PROVE PartsInv' /\ SumsInv'
  <2>1. /\ UNCHANGED <<conn, writeQueue, clientTokens, tokensFree, held, heldAs>>
        /\ cur' = IF Owns(c, cur) THEN NoTokenBuf ELSE cur
        /\ clients' = clients \ {c}
    BY <1>3 DEF FreeEnd, rxVars, chanVars
  <2>3. \A d \in clients' : Going(d) => Going(d)'
    BY <1>3, RemovedGoing
  <2>4. \A d : (Receiving(d)' <=> Receiving(d)) /\ Recv(d)' = Recv(d)
    BY <2>1 DEF Receiving, Recv
  <2>5. \A d \in clients' : Price(d, cur') = Price(d, cur)
    BY <2>1 DEF Price, Owns, NoTokenBuf
  <2>6. \A d \in clients' : TokenSum(d)' = TokenSum(d)
    BY <2>1, <2>4, <2>5 DEF TokenSum, Price
  <2>7. SumsInv'
    BY <2>1, <2>3, <2>6, SumsKept
  <2> QED BY <2>1, <2>4, <2>7 DEF PartsInv
<1>4. ASSUME NEW c \in Clients, Gone(c) PROVE PartsInv' /\ SumsInv'
  <2>1. /\ UNCHANGED <<clients, cur, clientTokens, tokensFree, held>>
        /\ conn' = [conn EXCEPT ![c] = "none"]
        /\ heldAs' = IF held = c THEN "orphan" ELSE heldAs
        /\ writeQueue' = Append(writeQueue, NoTokenBuf) \/ writeQueue' = writeQueue
        /\ stack # <<>> /\ Top.op = "gone" /\ Top.c = c
        /\ Become(<<F("write?")>>) \/ Return
    BY <1>4 DEF Gone, At, Top
  <2>2. \A d \in clients' : Going(d) => Going(d)'
    BY <1>4, RemovedGoing
  <2>3. c \notin clients
    BY <1>4, GoneDetached DEF WritingInv
  <2>4. \A d : d # c => ((Receiving(d)' <=> Receiving(d)) /\ Recv(d)' = Recv(d))
    BY <2>1 DEF Receiving, Recv
  <2>5. ~Receiving(c)'
    BY <2>1 DEF Receiving
  <2>6. Queued(writeQueue') \subseteq Queued(writeQueue) \cup {NoTokenBuf}
    <3>1. Queued(Append(writeQueue, NoTokenBuf)) = Queued(writeQueue) \cup {NoTokenBuf}
      BY SumTypes, WriteFacts, QueuedSteps
    <3> QED BY <2>1, <3>1
  <2>7. ASSUME NEW d \in clients'
        PROVE  TokenSum(d)' = TokenSum(d)
    <3>1. Count(Append(writeQueue, NoTokenBuf), Mine(d)) = Count(writeQueue, Mine(d)) + Unit(d, NoTokenBuf)
      BY SumTypes, MineCounts, WriteFacts
    <3>2. Unit(d, NoTokenBuf) = 0 /\ Count(writeQueue, Mine(d)) \in Nat
      BY PriceFacts, SumTypes DEF Unit
    <3>3. Count(Append(writeQueue, NoTokenBuf), Mine(d)) = Count(writeQueue, Mine(d))
      BY <3>1, <3>2
    <3>4. Count(writeQueue', Mine(d)) = Count(writeQueue, Mine(d))
      BY <2>1, <3>3
    <3>5. d # c
      BY <2>1, <2>3, <2>7
    <3> QED BY <2>1, <2>4, <3>4, <3>5 DEF TokenSum
  <2>8. SumsInv'
    BY <2>1, <2>2, <2>7, SumsKept
  <2>9. \A d \in Clients : d # c => conn'[d] = conn[d]
    BY <2>1
  <2>10. NoTokenBuf.origin # "client"
    BY DEF NoTokenBuf
  <2> QED BY <2>4, <2>5, <2>6, <2>8, <2>9, <2>10 DEF PartsInv
<1> QED BY <1>1, <1>2, <1>3, <1>4

\* Events that find the stack empty and change neither the clients nor their tokens.
LEMMA EventSums ==
  ASSUME ConstantsOK, TypeOK, LoopInv, PartsInv, SumsInv,
         \/ Start \/ Stop \/ MouseEvent
         \/ \E c \in Clients : Connect(c) \/ ClientDisconnect(c) \/ RestoreNone(c)
  PROVE  PartsInv' /\ SumsInv'
<1>1. /\ UNCHANGED <<clients, cur, clientTokens, tokensFree, held, heldAs>>
      /\ writeQueue' = writeQueue \/ writeQueue' = Append(writeQueue, ServerBuf)
      /\ \A c \in Clients : conn'[c] \in {conn[c], "open"}
      /\ Idle
  <2>1. CASE Start \/ Stop \/ MouseEvent
    BY <2>1 DEF Start, Stop, MouseEvent, writeVars, rxVars, chanVars
  <2>2. CASE \E c \in Clients : Connect(c) \/ RestoreNone(c)
    <3>1. PICK c \in Clients : Connect(c) \/ RestoreNone(c)
      BY <2>2
    <3>2. conn' = [conn EXCEPT ![c] = "open"] /\ conn \in [Clients -> {"none", "mig", "late", "open", "shut", "closed"}]
      BY <3>1 DEF Connect, RestoreNone, TypeOK, ChanTypes
    <3>3. \A d \in Clients : conn'[d] \in {conn[d], "open"}
      BY <3>2
    <3> QED BY <3>1, <3>3 DEF Connect, RestoreNone, writeVars, rxVars
  <2>3. CASE \E c \in Clients : ClientDisconnect(c)
    BY <2>3 DEF ClientDisconnect, writeVars, rxVars, chanVars
  <2> QED BY <2>1, <2>2, <2>3
<1>2. \A c : ~Going(c)
  BY <1>1, IdleFacts DEF Going
<1>3. \A c : (Receiving(c)' <=> Receiving(c)) /\ Recv(c)' = Recv(c)
  BY <1>1 DEF Receiving, Recv
<1>4. \A c : Count(writeQueue', Mine(c)) = Count(writeQueue, Mine(c))
  <2>1. ASSUME NEW c PROVE Count(Append(writeQueue, ServerBuf), Mine(c)) = Count(writeQueue, Mine(c))
    <3>1. Count(Append(writeQueue, ServerBuf), Mine(c)) = Count(writeQueue, Mine(c)) + Unit(c, ServerBuf)
      BY SumTypes, MineCounts, WriteFacts
    <3>2. Unit(c, ServerBuf) = 0 /\ Count(writeQueue, Mine(c)) \in Nat
      BY SumTypes, PriceFacts DEF Unit
    <3> QED BY <3>1, <3>2
  <2> QED BY <1>1, <2>1
<1>5. \A c : TokenSum(c)' = TokenSum(c)
  BY <1>1, <1>3, <1>4 DEF TokenSum, Price
<1>6. SumsInv'
  BY <1>1, <1>2, <1>5, SumsKept
<1>7. Queued(writeQueue') \subseteq Queued(writeQueue) \cup {ServerBuf}
  <2>1. Queued(Append(writeQueue, ServerBuf)) = Queued(writeQueue) \cup {ServerBuf}
    BY SumTypes, WriteFacts, QueuedSteps
  <2> QED BY <1>1, <2>1
<1>8. ServerBuf.origin # "client"
  BY DEF ServerBuf
<1> QED BY <1>1, <1>3, <1>6, <1>7, <1>8 DEF PartsInv

\* A client that is added has all its tokens: no buffer is its own, nor a message.
LEMMA AddSums ==
  ASSUME ConstantsOK, TypeOK, LoopInv, WritingInv, PartsInv, SumsInv, Idle,
         NEW c \in Clients, NEW n, AddClient(c, n), c \notin clients, ~Receiving(c),
         UNCHANGED <<conn, held, heldAs>>,
         \/ writeQueue' = writeQueue /\ cur' = cur
         \/ writeQueue' = <<>> /\ cur' = NoBuf /\ clients = {}
  PROVE  PartsInv' /\ SumsInv'
<1>1. \A d : ~Going(d)
  BY IdleFacts DEF Going
<1>2. \A d : (Receiving(d)' <=> Receiving(d)) /\ Recv(d)' = Recv(d)
  BY DEF Receiving, Recv
<1>3. \A b \in Queued(writeQueue') : b \in Queued(writeQueue)
  BY QueuedSteps
<1>4. PartsInv'
  BY <1>2, <1>3 DEF PartsInv
<1>5. /\ \A b \in Queued(writeQueue) : ~Owns(c, b)
      /\ ~Owns(c, cur)
  BY QueuedMeans DEF WritingInv, Owns
<1>6. /\ clients' = clients \cup {c}
      /\ \A d \in Clients : d # c => clientTokens'[d] = clientTokens[d] /\ tokensFree'[d] = tokensFree[d]
      /\ clientTokens'[c] = Window /\ tokensFree'[c] = 0
  BY DEF AddClient, TypeOK, RxTypes
<1>7. /\ Count(writeQueue', Mine(c)) = 0 /\ Price(c, cur') = 0 /\ Recv(c)' = 0
      /\ Window \in Nat
  <2>1. Count(writeQueue, Mine(c)) = 0 /\ Count(<<>>, Mine(c)) = 0
    BY <1>5, SumTypes, MineCounts
  <2>2. Price(c, cur) = 0 /\ Price(c, NoBuf) = 0
    BY <1>5, PriceFacts DEF Price
  <2>3. Recv(c) = 0
    BY DEF Recv
  <2>4. Count(writeQueue', Mine(c)) = 0
    BY <2>1
  <2>5. Price(c, cur') = 0
    BY <2>2
  <2> QED BY <1>2, <2>3, <2>4, <2>5 DEF ConstantsOK
<1>8. TokenSum(c)' = Window
  <2>1. TokenSum(c)' = clientTokens'[c] + tokensFree'[c] + Count(writeQueue', Mine(c)) + Price(c, cur') + Recv(c)'
    BY DEF TokenSum, Price
  <2> QED BY <1>6, <1>7, <2>1
<1>9. ASSUME FlowControl, NEW d \in clients', d # c
      PROVE  TokenSum(d)' = Window
  <2>1. d \in clients /\ d \in Clients
    BY <1>6, <1>9, SumTypes
  <2>2. writeQueue' = writeQueue /\ cur' = cur
    BY <2>1
  <2>3. TokenSum(d)' = TokenSum(d)
    BY <1>2, <1>6, <1>9, <2>1, <2>2 DEF TokenSum, Price
  <2> QED BY <1>1, <1>9, <2>1, <2>3 DEF SumsInv
<1>10. SumsInv'
  BY <1>8, <1>9 DEF SumsInv
<1> QED BY <1>4, <1>10

\* A client is added because it asks for the agent, or with the agent that comes.
LEMMA AddedSums ==
  ASSUME ConstantsOK, TypeOK, LoopInv, WritingInv, PartsInv, SumsInv,
         \/ \E c \in Clients, n \in 0..MaxSend : ClientAdd(c, n)
         \/ \E c \in Clients \cup {None}, vm \in BOOLEAN : Attach(c, vm)
  PROVE  PartsInv' /\ SumsInv'
<1>1. ASSUME NEW c \in Clients, NEW n \in 0..MaxSend, ClientAdd(c, n)
      PROVE  PartsInv' /\ SumsInv'
  <2>1. /\ Idle /\ AddClient(c, n) /\ c \notin clients /\ ~Receiving(c)
        /\ UNCHANGED <<conn, held, heldAs, writeQueue, cur>>
    BY <1>1 DEF ClientAdd, writeVars
  <2> QED BY <2>1, AddSums
<1>2. ASSUME NEW c \in Clients \cup {None}, NEW vm \in BOOLEAN, Attach(c, vm)
      PROVE  PartsInv' /\ SumsInv'
  <2>1. /\ Idle /\ UNCHANGED <<conn, held, heldAs>>
        /\ IF exists THEN UNCHANGED <<writeQueue, cur>> ELSE writeQueue' = <<>> /\ cur' = NoBuf
        /\ IF c \in clients \cup {None}
           THEN UNCHANGED <<clients, clientTokens, tokensFree>>
           ELSE clients = {} /\ AddClient(c, MaxSend)
        /\ c # None => c \in Waiting
    BY <1>2 DEF Attach
  <2>2. ~exists => clients = {}
    BY DEF WritingInv, DeviceInv
  <2>3. CASE c \in clients \cup {None}
    <3>1. \A d : (Receiving(d)' <=> Receiving(d)) /\ Recv(d)' = Recv(d)
      BY <2>1 DEF Receiving, Recv
    <3>2. \A b \in Queued(writeQueue') : b \in Queued(writeQueue)
      BY <2>1, QueuedSteps
    <3>3. PartsInv'
      BY <2>1, <3>1, <3>2 DEF PartsInv
    <3>4. \A d : ~Going(d)
      BY <2>1, IdleFacts DEF Going
    <3>5. \A d \in clients' : TokenSum(d)' = TokenSum(d)
      BY <2>1, <2>2, <2>3, <3>1 DEF TokenSum, Price
    <3>6. SumsInv'
      BY <2>1, <2>3, <3>4, <3>5, SumsKept
    <3> QED BY <3>3, <3>6
  <2>4. CASE c \notin clients \cup {None}
    <3>1. c \in Clients /\ conn[c] \in {"mig", "late"}
      BY <2>1, <2>4 DEF Waiting
    <3>2. ~Receiving(c)
      BY <3>1 DEF PartsInv
    <3> QED BY <2>1, <2>4, <3>1, <3>2, AddSums
  <2> QED BY <2>3, <2>4
<1> QED BY <1>1, <1>2

\* The migration data divides the window between what the client has, what it is
\* told later, and the buffer that was being written.
LEMMA RestoredSums ==
  ASSUME ConstantsOK, TypeOK, LoopInv, PartsInv, SumsInv, Migrated
  PROVE  PartsInv' /\ SumsInv'
<1>1. PICK c \in Clients, n \in 0..Window, w \in 0..Window, t \in 0..MaxSend, data \in BOOLEAN :
        Restore(c, n, w, t, data)
  BY DEF Migrated
<1>2. /\ clients = {c} /\ clients' = clients /\ conn[c] = "mig" /\ n + w <= Window
      /\ conn' = [conn EXCEPT ![c] = "open"]
      /\ clientTokens' = [clientTokens EXCEPT ![c] = n]
      /\ tokensFree' = [tokensFree EXCEPT ![c] = Window - n - w]
      /\ cur' = IF w > 0 THEN ClientBuf(c, w) ELSE IF data THEN ServerBuf ELSE NoBuf
      /\ writeQueue' = writeQueue /\ writeQueue = <<>>
      /\ UNCHANGED <<held, heldAs>>
  BY <1>1 DEF Restore
<1>3. \A d : (Receiving(d)' <=> Receiving(d)) /\ Recv(d)' = Recv(d)
  BY <1>2 DEF Receiving, Recv
<1>4. \A d \in Clients : conn'[d] \in {conn[d], "open"}
  BY <1>2 DEF TypeOK, ChanTypes
<1>5. PartsInv'
  BY <1>2, <1>3, <1>4 DEF PartsInv
<1>6. ~Receiving(c)
  BY <1>2 DEF PartsInv
<1>7. Recv(c)' = 0
  BY <1>3, <1>6 DEF Recv
<1>8. clientTokens'[c] = n /\ tokensFree'[c] = Window - n - w
  BY <1>2 DEF TypeOK, RxTypes
<1>9. Count(writeQueue', Mine(c)) = 0
  BY <1>2, MineCounts
<1>10. Price(c, cur') = w
  <2>1. Price(c, ClientBuf(c, w)) = w
    BY PriceFacts
  <2>2. Price(c, ServerBuf) = 0 /\ Price(c, NoBuf) = 0
    BY PriceFacts DEF Price
  <2>3. CASE w > 0
    BY <1>2, <2>1, <2>3
  <2>4. CASE ~(w > 0)
    <3>1. w = 0
      BY <2>4
    <3>2. cur' = ServerBuf \/ cur' = NoBuf
      BY <1>2, <2>4
    <3> QED BY <2>2, <3>1, <3>2
  <2> QED BY <2>3, <2>4
<1>11. TokenSum(c)' = Window
  <2>1. TokenSum(c)' = clientTokens'[c] + tokensFree'[c] + Count(writeQueue', Mine(c)) + Price(c, cur') + Recv(c)'
    BY DEF TokenSum, Price
  <2>2. TokenSum(c)' = n + (Window - n - w) + 0 + w + 0
    BY <1>7, <1>8, <1>9, <1>10, <2>1
  <2>3. Window \in Nat
    BY DEF ConstantsOK
  <2> QED BY <2>2, <2>3
<1>12. SumsInv'
  BY <1>2, <1>11 DEF SumsInv
<1> QED BY <1>5, <1>12

\* The agent leaves: its device is reset, or ended together with its clients.
LEMMA EndingSums ==
  ASSUME ConstantsOK, TypeOK, LoopInv, PartsInv, SumsInv, Detach \/ Destroy
  PROVE  PartsInv' /\ SumsInv'
<1>1. CASE Detach
  <2>1. /\ UNCHANGED <<clients, clientTokens, tokensFree, held>> /\ Idle
        /\ heldAs' = IF heldAs = "live" THEN "stale" ELSE heldAs
        /\ conn' = [c \in Clients |-> IF conn[c] = "mig" THEN "late" ELSE conn[c]]
        /\ \/ writeQueue' = <<>> /\ Call(<<F("destroy")>>)
           \/ writeQueue' = writeQueue /\ cur' = cur
    BY <1>1 DEF Detach
  <2>2. \A d : (Receiving(d)' <=> Receiving(d)) /\ Recv(d)' = Recv(d)
    BY <2>1 DEF Receiving, Recv
  <2>3. \A b \in Queued(writeQueue') : b \in Queued(writeQueue)
    BY <2>1, QueuedSteps
  <2>4. PartsInv'
    BY <2>1, <2>2, <2>3 DEF PartsInv
  <2>5. \A d : ~Going(d)
    BY <2>1, IdleFacts DEF Going
  <2>6. CASE writeQueue' = <<>> /\ Call(<<F("destroy")>>)
    <3>1. <<F("destroy")>> \in Seq(Frame)
      BY FrameFacts DEF Ops
    <3>2. Active' = {F("destroy")} \cup Active
      BY <2>6, <3>1, FrameSteps, FramesOf
    <3>3. \A d : Going(d)'
      BY <3>2 DEF Going
    <3> QED BY <2>4, <3>3 DEF SumsInv
  <2>7. CASE writeQueue' = writeQueue /\ cur' = cur
    <3>1. \A d : TokenSum(d)' = TokenSum(d)
      BY <2>1, <2>2, <2>7 DEF TokenSum
    <3>2. SumsInv'
      BY <2>1, <2>5, <3>1, SumsKept
    <3> QED BY <2>4, <3>2
  <2> QED BY <2>1, <2>6, <2>7
<1>2. CASE Destroy
  <2>1. /\ UNCHANGED <<clients, conn, cur, writeQueue, clientTokens, tokensFree, held, heldAs>>
        /\ clients # {} => \E c \in clients : Call(<<FC("free", c)>>)
    BY <1>2 DEF Destroy, writeVars, rxVars, chanVars
  <2>2. \A d : TokenSum(d)' = TokenSum(d) /\ (Receiving(d)' <=> Receiving(d))
    BY <2>1 DEF TokenSum, Recv, Receiving
  <2>3. PartsInv'
    BY <2>1, <2>2 DEF PartsInv
  <2>4. clients # {} => \A d : Going(d) => Going(d)'
    <3>1. ASSUME NEW c \in clients, Call(<<FC("free", c)>>) PROVE \A d : Going(d) => Going(d)'
      <4>1. <<FC("free", c)>> \in Seq(Frame)
        BY SumTypes, FrameFacts DEF Ops
      <4>2. Active \subseteq Active'
        BY <3>1, <4>1, FrameSteps
      <4> QED BY <4>2 DEF Going
    <3> QED BY <2>1, <3>1
  <2>5. SumsInv'
    BY <2>1, <2>2, <2>4, SumsKept
  <2> QED BY <2>3, <2>5
<1> QED BY <1>1, <1>2

-----------------------------------------------------------------------------
(* The theorem on the clients' tokens.                                     *)

LEMMA SumsNext ==
  ASSUME ConstantsOK, TypeOK, LoopInv, WritingInv, MessageInv, PartsInv, SumsInv, [Next]_vars
  PROVE  PartsInv' /\ SumsInv'
<1>1. CASE \/ Reading \/ WriteRefused \/ WriteNested \/ WriteBegin \/ WriteAgain \/ WriteEnd
           \/ WriteRetry \/ StartLoop \/ GuestWrites
           \/ \E c \in Clients : \/ Channel(c) \/ Writable(c) \/ PeerCloses(c) \/ FreeQueued(c)
                                 \/ Pushing(c) \/ WaitTimeout(c) \/ BufStale(c) \/ RestoreLate(c)
                                 \/ \E n \in 0..MaxSend : TokensSet(c, n) \/ TokensAdd(c, n)
  BY <1>1, DullSteps, DullSums
<1>2. CASE \/ WriteAll \/ WritePart \/ WriteNone \/ WriteRelease
           \/ RemovedEnd \/ ResetRelease \/ ResetQueues
           \/ \E c \in Clients : FreeWritten(c) \/ FreeEnd(c) \/ Gone(c)
  BY <1>2, TakenSums, WrittenSums, RemovedSums
<1>3. CASE \/ Start \/ Stop \/ MouseEvent \/ Migrated
           \/ \E c \in Clients : \/ Connect(c) \/ ClientDisconnect(c) \/ RestoreNone(c)
                                 \/ BufGet(c) \/ BufGiveBack(c) \/ BufAdd(c)
                                 \/ \E n \in 0..MaxSend : ClientAdd(c, n)
  BY <1>3, EventSums, RestoredSums, MessageSums, AddedSums
<1>4. CASE Detach \/ Destroy \/ \E c \in Clients \cup {None}, vm \in BOOLEAN : Attach(c, vm)
  BY <1>4, EndingSums, AddedSums
<1>5. CASE UNCHANGED vars
  <2>1. UNCHANGED <<clients, conn, cur, writeQueue, clientTokens, tokensFree, held, heldAs, stack>>
    BY <1>5 DEF vars, deviceVars, writeVars, rxVars, chanVars
  <2>2. \A d : TokenSum(d)' = TokenSum(d) /\ (Receiving(d)' <=> Receiving(d)) /\ (Going(d)' <=> Going(d))
    BY <2>1 DEF TokenSum, Recv, Receiving, Going, Active
  <2> QED BY <2>1, <2>2, SumsKept DEF PartsInv
<1>6. CASE Running
  BY <1>1, <1>2, <1>4, <1>6 DEF Running, Writing, Removing
<1>7. CASE FromVM
  BY <1>1, <1>3, <1>4, <1>7 DEF FromVM
<1>8. CASE \E c \in Clients : FromClient(c) \/ FromServer(c)
  BY <1>1, <1>3, <1>8 DEF FromClient, FromServer
<1> QED BY <1>1, <1>3, <1>5, <1>6, <1>7, <1>8 DEF Next

LEMMA SumsInit ==
  ASSUME ConstantsOK, Init
  PROVE  PartsInv /\ SumsInv
<1>1. \A c \in Clients : ~Receiving(c)
  BY DEF Init, Receiving, ConstantsOK
<1>2. Queued(writeQueue) = {} /\ clients = {}
  BY QueuedSteps DEF Init
<1> QED BY <1>1, <1>2 DEF PartsInv, SumsInv

\* What is going, in the terms of the model.
LEMMA LeavingGoing ==
  ASSUME TypeOK
  PROVE  \A c : Leaving(c) <=> Going(c)
<1>1. DOMAIN stack = 1..Len(stack)
  BY StackFacts, LenProperties
<1> QED BY <1>1 DEF Leaving, Going, Active, Frames

LEMMA SumsMean ==
  ASSUME TypeOK, SumsInv
  PROVE  ClientTokensConserved
<1>1. ASSUME NEW c
      PROVE  {i \in DOMAIN writeQueue : Owns(c, writeQueue[i])} = Hits(writeQueue, Mine(c))
  <2>1. writeQueue \in Seq(WriteBuf)
    BY SumTypes
  <2>2. DOMAIN writeQueue = 1..Len(writeQueue) /\ \A i \in 1..Len(writeQueue) : writeQueue[i] \in WriteBuf
    BY <2>1, LenProperties, ElementOfSeq
  <2> QED BY <2>2 DEF Hits, Mine
<1>2. ASSUME FlowControl, NEW c \in clients, ~Leaving(c)
      PROVE  clientTokens[c] + tokensFree[c]
               + Cardinality({i \in DOMAIN writeQueue : Owns(c, writeQueue[i])})
               + (IF Owns(c, cur) THEN cur.price ELSE 0)
               + (IF Receiving(c) THEN 1 ELSE 0) = Window
  <2>1. TokenSum(c) = Window
    BY <1>2, LeavingGoing DEF SumsInv
  <2> QED BY <1>1, <2>1 DEF TokenSum, Count, Price, Recv
<1> QED BY <1>2 DEF ClientTokensConserved

\* No step of the device loses or invents a client's token: each is with the client or on
\* its way, kept to be returned, or paid for a buffer that is received, queued or written.
THEOREM SumsAlways == Spec => [](PartsInv /\ SumsInv)
<1> DEFINE I == TypeOK /\ LoopInv /\ WritingInv /\ MessageInv
           J == PartsInv /\ SumsInv
<1>1. Init => J
  BY ConstantsOK, SumsInit
<1>2. I /\ J /\ [Next]_vars => J'
  BY ConstantsOK, SumsNext
<1> HIDE DEF J
<1> QED BY <1>1, <1>2, TypeCorrect, LoopsGuarded, WritingAlways, QueuesAlways, PTL DEF Spec, J

\* The tokens of an attached client add up to its window, through the batches in which
\* spice_char_device_write_buffer_release returns them, the buffers given back by
\* reds_release_agent_data_buffer, resets of the device and migration.
THEOREM ClientTokensAlways == Spec => []ClientTokensConserved
<1>1. TypeOK /\ (PartsInv /\ SumsInv) => ClientTokensConserved
  BY SumsMean
<1> QED BY <1>1, TypeCorrect, SumsAlways, PTL

-----------------------------------------------------------------------------
(* What the clients believe.                                               *)

Hanging(c) == \E f \in Active : f.op = "hangup" /\ f.c = c

Owned(c) == Owns(c, cur) \/ \E b \in Queued(writeQueue) : Owns(c, b)

\* Nothing of c is in the device or on its way there, nor are tokens on theirs to c.
Fresh(c) == ~Receiving(c) /\ ~Owned(c) /\ Blank(pipe[c])

Balanced(c) == peerTokens[c] + Way(c) = clientTokens[c]

\* Only the one client of the target of a migration is attached before it has started
\* the agent: it has sent nothing and was told nothing, so the tokens that it then has,
\* by the migration data or told anew, are those that the device counts for it.
AgreeInv ==
  ConnectedTokens =>
    /\ \A c \in clients : \/ started \/ Going(c)
                          \/ Fresh(c) /\ clientTokens[c] = Window /\ ~MultiClient
    /\ \A c \in Clients : conn[c] \in {"mig", "late"} => Fresh(c) /\ ~started
    /\ \A c \in clients : started /\ conn[c] = "open" /\ ~Hanging(c) => Balanced(c)

LEMMA AgreeKept ==
  ASSUME AgreeInv, started' = started, clients' \subseteq clients, clients \subseteq Clients,
         \A c \in clients' : Going(c) => Going(c)',
         \A c \in Clients : conn'[c] \in {"mig", "late"} => conn[c] \in {"mig", "late"},
         ~started => \A c \in Clients : Fresh(c) => Fresh(c)' /\ clientTokens'[c] = clientTokens[c],
         started => \A c \in clients' : conn'[c] = "open" /\ ~Hanging(c)' =>
                      conn[c] = "open" /\ ~Hanging(c) /\ (Balanced(c) => Balanced(c)')
  PROVE  AgreeInv'
BY DEF AgreeInv

LEMMA WayFacts ==
  ASSUME TypeOK, TypeOK', NEW c \in Clients
  PROVE  /\ Way(c) = Cardinality(Tokens(pipe[c])) /\ Way(c)' = Cardinality(Tokens(pipe'[c]))
         /\ Way(c) \in Nat /\ Way(c)' \in Nat
         /\ Blank(pipe[c]) => Way(c) = 0
         /\ Blank(pipe'[c]) => Way(c)' = 0
         /\ pipe[c] \in Seq(PipeItem) /\ pipe'[c] \in Seq(PipeItem)
<1>1. pipe[c] \in Seq(PipeItem) /\ pipe'[c] \in Seq(PipeItem)
  BY DEF TypeOK, ChanTypes
<1>2. \A p \in Seq(PipeItem) : DOMAIN p = 1..Len(p)
  BY LenProperties
<1>3. OnTheWay(c) = Tokens(pipe[c]) /\ OnTheWay(c)' = Tokens(pipe'[c])
  BY <1>1, <1>2 DEF OnTheWay, Tokens
<1>4. Way(c) = Cardinality(Tokens(pipe[c])) /\ Way(c)' = Cardinality(Tokens(pipe'[c]))
  BY <1>3 DEF Way
<1>5. \A p \in Seq(PipeItem) : /\ Cardinality(Tokens(p)) \in Nat
                               /\ Blank(p) => Cardinality(Tokens(p)) = 0
  BY TokensTypes, TokensSteps DEF Blank
<1> QED BY <1>1, <1>4, <1>5

\* Steps that tell the clients nothing and take nothing of theirs.
Silent ==
  /\ UNCHANGED <<started, clientTokens>> /\ clients' \subseteq clients
  /\ \A c \in clients' : peerTokens'[c] = peerTokens[c] /\ (Going(c) => Going(c)')
  /\ \A c : (Receiving(c)' => Receiving(c)) /\ (Owned(c)' => Owned(c))
  /\ \A c \in Clients : \/ pipe'[c] = pipe[c]
                        \/ \E x \in PipeItem : x.tokens = 0 /\ pipe'[c] = Append(pipe[c], x)
  /\ \A c \in Clients : \/ conn'[c] \in {conn[c], "shut", "closed", "none"}
                        \/ conn'[c] = "open" /\ c \notin clients
  /\ \A c \in Clients : conn'[c] = "open" /\ Hanging(c) => Hanging(c)'

LEMMA SilentAgree ==
  ASSUME TypeOK, TypeOK', AgreeInv, Silent
  PROVE  AgreeInv'
<1>1. clients \subseteq Clients
  BY SumTypes
<1>2. \A c \in Clients : /\ Way(c)' = Way(c)
                         /\ Blank(pipe[c]) => Blank(pipe'[c])
  <2>1. ASSUME NEW c \in Clients
        PROVE  Way(c)' = Way(c) /\ (Blank(pipe[c]) => Blank(pipe'[c]))
    <3>1. CASE pipe'[c] = pipe[c]
      BY <3>1, WayFacts
    <3>2. ASSUME NEW x \in PipeItem, x.tokens = 0, pipe'[c] = Append(pipe[c], x)
          PROVE  Way(c)' = Way(c) /\ (Blank(pipe[c]) => Blank(pipe'[c]))
      <4>1. Cardinality(Tokens(Append(pipe[c], x))) = Cardinality(Tokens(pipe[c])) + x.tokens
        BY WayFacts, TokensSteps
      <4>2. Blank(pipe[c]) => Blank(Append(pipe[c], x))
        BY <3>2, WayFacts, BlankSteps
      <4>3. Cardinality(Tokens(pipe'[c])) = Cardinality(Tokens(pipe[c])) + 0
        BY <3>2, <4>1
      <4>4. Cardinality(Tokens(pipe[c])) \in Nat /\ Way(c) = Cardinality(Tokens(pipe[c]))
            /\ Way(c)' = Cardinality(Tokens(pipe'[c]))
        BY WayFacts
      <4>5. Cardinality(Tokens(pipe'[c])) = Cardinality(Tokens(pipe[c]))
        BY <4>3, <4>4
      <4>6. Blank(pipe[c]) => Blank(pipe'[c])
        BY <3>2, <4>2
      <4> QED BY <4>4, <4>5, <4>6
    <3> QED BY <3>1, <3>2 DEF Silent
  <2> QED BY <2>1
<1>3. \A c \in Clients : Fresh(c) => Fresh(c)' /\ clientTokens'[c] = clientTokens[c]
  BY <1>2 DEF Silent, Fresh
<1>4. \A c \in clients' : conn'[c] = "open" /\ ~Hanging(c)' =>
        conn[c] = "open" /\ ~Hanging(c) /\ (Balanced(c) => Balanced(c)')
  BY <1>1, <1>2 DEF Silent, Balanced
<1>5. \A c \in Clients : conn'[c] \in {"mig", "late"} => conn[c] \in {"mig", "late"}
  BY DEF Silent
<1> QED BY <1>1, <1>3, <1>4, <1>5, AgreeKept DEF Silent

\* What is not touched stays.
LEMMA SameOwned ==
  ASSUME UNCHANGED <<cur, writeQueue, held, heldAs>>
  PROVE  \A c : (Receiving(c)' <=> Receiving(c)) /\ (Owned(c)' <=> Owned(c))
BY DEF Receiving, Owned

LEMMA HangingKept ==
  ASSUME TypeOK, NEW A, NEW T, Moves(A, T), "hangup" \notin T
  PROVE  \A c : Hanging(c) => Hanging(c)'
<1>1. \A f \in Active : f.op \notin T => f \in Active'
  BY MovesFrames
<1> QED BY <1>1 DEF Hanging

LEMMA HangingNone ==
  ASSUME TypeOK, LoopInv, Idle
  PROVE  \A c : ~Hanging(c) /\ ~Going(c)
BY IdleFacts DEF Hanging, Going

\* A message pushed to a client brings it no tokens.
LEMMA SendSilent ==
  ASSUME TypeOK, NEW c \in Clients, NEW b \in Bufs, NEW rest, SendMsg(c, b, rest)
  PROVE  \A d \in Clients : \/ pipe'[d] = pipe[d]
                            \/ \E x \in PipeItem : x.tokens = 0 /\ pipe'[d] = Append(pipe[d], x)
<1>1. DataItem(b) \in PipeItem /\ DataItem(b).tokens = 0
  BY PipeFacts DEF DataItem
<1>2. pipe \in [Clients -> Seq(PipeItem)]
  BY DEF TypeOK, ChanTypes
<1>3. pipe' = pipe \/ pipe' = [pipe EXCEPT ![c] = Append(pipe[c], DataItem(b))]
  BY DEF SendMsg, PushItem
<1> QED BY <1>1, <1>2, <1>3

LEMMA ReadingSilent ==
  ASSUME ConstantsOK, TypeOK, MessageInv, Reading
  PROVE  Silent
<1>1. Dull
  BY DullSteps
<1>2. UNCHANGED <<started, peerTokens>>
  BY DEF Reading, ReadRefused, ReadNested, ReadBegin, ReadMsg, ReadDiscard, ReadNothing,
     ReadAgain, ReadEnd, SendDone, DropMsg, SendNow, SendOverflow, SendLater, rxVars, chanVars
<1>3. \A c \in Clients : conn'[c] \in {conn[c], "shut"}
  <2>1. CASE \E c \in Clients : SendOverflow(c)
    BY <2>1 DEF SendOverflow, RemoveClient, TypeOK, ChanTypes
  <2>2. CASE ~\E c \in Clients : SendOverflow(c)
    BY <2>2 DEF Reading, ReadRefused, ReadNested, ReadBegin, ReadMsg, ReadDiscard, ReadNothing,
       ReadAgain, ReadEnd, SendDone, DropMsg, SendNow, SendLater, chanVars
  <2> QED BY <2>1, <2>2
<1>4. \A c \in Clients : \/ pipe'[c] = pipe[c]
                         \/ \E x \in PipeItem : x.tokens = 0 /\ pipe'[c] = Append(pipe[c], x)
  <2>1. CASE \E c \in Clients : SendNow(c)
    <3>1. PICK c \in Clients : SendNow(c)
      BY <2>1
    <3>2. c \in todo /\ SendMsg(c, msg, stack)
      BY <3>1 DEF SendNow
    <3>3. msg \in Bufs
      BY <3>2 DEF TypeOK, ReadTypes
    <3> QED BY <3>2, <3>3, SendSilent
  <2>2. CASE ~\E c \in Clients : SendNow(c)
    BY <2>2 DEF Reading, ReadRefused, ReadNested, ReadBegin, ReadMsg, ReadDiscard, ReadNothing,
       ReadAgain, ReadEnd, SendDone, DropMsg, SendOverflow, SendLater, chanVars
  <2> QED BY <2>1, <2>2
<1>5. \A c : Hanging(c) => Hanging(c)'
  BY ReadingMoves, HangingKept DEF ReadingOps
<1>6. \A c : Going(c) => Going(c)'
  BY <1>1, CalmGoing DEF Dull
<1>7. \A c : (Receiving(c)' => Receiving(c)) /\ (Owned(c)' => Owned(c))
  BY <1>1, SameOwned DEF Dull, Calm
<1>8. UNCHANGED <<clients, clientTokens>>
  BY <1>1 DEF Dull, Calm
<1> QED BY <1>2, <1>3, <1>4, <1>5, <1>6, <1>7, <1>8 DEF Silent

LEMMA PushingSilent ==
  ASSUME ConstantsOK, TypeOK, NEW c \in Clients,
         Pushing(c) \/ WaitTimeout(c) \/ \E n \in 0..MaxSend : TokensAdd(c, n)
  PROVE  Silent
<1>1. Dull
  BY DullSteps
<1>2. UNCHANGED <<started, peerTokens>>
  BY DEF Pushing, PushOne, PushUnref, PushShrink, PushEnd, AbsorbEnd, WaitTimeout,
     TokensAdd, rxVars, chanVars
<1>3. \A d \in Clients : conn'[d] \in {conn[d], "shut"}
  <2>1. CASE WaitTimeout(c)
    BY <2>1 DEF WaitTimeout, RemoveClient, TypeOK, ChanTypes
  <2>2. CASE ~WaitTimeout(c)
    BY <2>2 DEF Pushing, PushOne, PushUnref, PushShrink, PushEnd, AbsorbEnd, TokensAdd, Absorb, chanVars
  <2> QED BY <2>1, <2>2
<1>4. \A d \in Clients : \/ pipe'[d] = pipe[d]
                         \/ \E x \in PipeItem : x.tokens = 0 /\ pipe'[d] = Append(pipe[d], x)
  <2>1. CASE PushOne(c)
    <3>1. /\ sendQueue[c] # <<>>
          /\ \E rest : SendMsg(c, Head(sendQueue[c]), rest)
      BY <2>1 DEF PushOne
    <3>2. sendQueue[c] \in Seq(Bufs)
      BY DEF TypeOK, SendTypes
    <3>3. Head(sendQueue[c]) \in Bufs
      BY <3>1, <3>2, SeqFacts
    <3> QED BY <3>1, <3>3, SendSilent
  <2>2. CASE ~PushOne(c)
    BY <2>2 DEF Pushing, PushUnref, PushShrink, PushEnd, AbsorbEnd, WaitTimeout, TokensAdd, Absorb,
       chanVars
  <2> QED BY <2>1, <2>2
<1>5. \A d : Hanging(d) => Hanging(d)'
  BY PushingMoves, HangingKept DEF PushingOps
<1>6. \A d : Going(d) => Going(d)'
  BY <1>1, CalmGoing DEF Dull
<1>7. \A d : (Receiving(d)' => Receiving(d)) /\ (Owned(d)' => Owned(d))
  BY <1>1, SameOwned DEF Dull, Calm
<1>8. UNCHANGED <<clients, clientTokens>>
  BY <1>1 DEF Dull, Calm
<1> QED BY <1>2, <1>3, <1>4, <1>5, <1>6, <1>7, <1>8 DEF Silent

\* The turns of the write loop and of the channels that move no item, and what calls them.
LEMMA TurnsSilent ==
  ASSUME ConstantsOK, TypeOK,
         \/ WriteRefused \/ WriteNested \/ WriteBegin \/ WriteAgain \/ WriteEnd
         \/ WriteRetry \/ StartLoop \/ GuestWrites
         \/ \E c \in Clients : \/ FreeQueued(c) \/ FlushStop(c) \/ FlushFail(c) \/ HangupEnd(c)
                               \/ Writable(c) \/ PeerCloses(c)
  PROVE  Silent
<1>1. Dull
  BY DullSteps DEF Channel
<1>2. UNCHANGED <<started, peerTokens, pipe>>
  BY DEF WriteRefused, WriteNested, WriteBegin, WriteAgain, WriteEnd, WriteRetry, StartLoop,
     GuestWrites, FreeQueued, FlushStop, FlushFail, HangupEnd, Writable, PeerCloses, rxVars, chanVars
<1>3. \A c \in Clients : \/ conn'[c] = "closed"
                         \/ conn'[c] = conn[c] /\ (Hanging(c) => Hanging(c)')
  <2>1. CASE \/ WriteRefused \/ WriteNested \/ WriteBegin \/ WriteAgain \/ WriteEnd
             \/ WriteRetry \/ StartLoop \/ GuestWrites \/ \E c \in Clients : FreeQueued(c)
    <3>1. conn' = conn
      BY <2>1 DEF WriteRefused, WriteNested, WriteBegin, WriteAgain, WriteEnd, WriteRetry,
         StartLoop, GuestWrites, FreeQueued, chanVars
    <3>2. \A c : Hanging(c) => Hanging(c)'
      <4>1. CASE WriteRefused \/ WriteNested \/ WriteBegin \/ WriteAgain \/ WriteEnd
        BY <4>1, WritingMoves, HangingKept DEF Writing, WritingOps
      <4>2. CASE WriteRetry \/ StartLoop \/ GuestWrites
        BY <4>2, CallingMoves, HangingKept
      <4>3. CASE \E c \in Clients : FreeQueued(c)
        BY <4>3, RemovingMoves, HangingKept DEF Removing, EndOps
      <4> QED BY <2>1, <4>1, <4>2, <4>3
    <3> QED BY <3>1, <3>2
  <2>2. ASSUME NEW c \in Clients, FlushFail(c) \/ Writable(c) \/ PeerCloses(c)
        PROVE  conn' = conn /\ \A d : Hanging(d) => Hanging(d)'
    <3>1. /\ conn' = conn
          /\ Call(<<FC("hangup", c)>>) \/ Call(<<FC("flush", c)>>)
      BY <2>2 DEF FlushFail, Writable, PeerCloses, chanVars
    <3>2. <<FC("hangup", c)>> \in Seq(Frame) /\ <<FC("flush", c)>> \in Seq(Frame)
      BY FrameFacts DEF Ops
    <3>3. Active \subseteq Active'
      BY <3>1, <3>2, FrameSteps
    <3> QED BY <3>1, <3>3 DEF Hanging
  <2>3. ASSUME NEW c \in Clients, FlushStop(c) \/ HangupEnd(c)
        PROVE  \A d \in Clients : \/ conn'[d] = "closed"
                                  \/ conn'[d] = conn[d] /\ (Hanging(d) => Hanging(d)')
    <3>1. /\ stack # <<>> /\ Return /\ Top.c = c
          /\ FlushStop(c) => Top.op = "flush" /\ conn' = conn
          /\ HangupEnd(c) => conn' = [conn EXCEPT ![c] = "closed"]
      BY <2>3 DEF FlushStop, HangupEnd, At, Top, chanVars
    <3>2. Active = {Top} \cup Active'
      BY <3>1, HasFrames, FrameSteps
    <3>3. \A d : d # c \/ FlushStop(c) => (Hanging(d) => Hanging(d)')
      BY <3>1, <3>2 DEF Hanging
    <3>4. conn \in [Clients -> {"none", "mig", "late", "open", "shut", "closed"}]
      BY DEF TypeOK, ChanTypes
    <3> QED BY <2>3, <3>1, <3>3, <3>4
  <2> QED BY <2>1, <2>2, <2>3
<1>4. \A c : Going(c) => Going(c)'
  BY <1>1, CalmGoing DEF Dull
<1>5. \A c : (Receiving(c)' => Receiving(c)) /\ (Owned(c)' => Owned(c))
  BY <1>1, SameOwned DEF Dull, Calm
<1>6. UNCHANGED <<clients, clientTokens>>
  BY <1>1 DEF Dull, Calm
<1> QED BY <1>2, <1>3, <1>4, <1>5, <1>6 DEF Silent

\* The current buffer is taken from the queue.
LEMMA TakenSilent ==
  ASSUME ConstantsOK, TypeOK, WriteAll \/ WritePart \/ WriteNone
  PROVE  Silent
<1>1. PICK op : WriteSome(op)
  BY DEF WriteAll, WritePart, WriteNone
<1>2. /\ cur' = IF cur = NoBuf THEN Head(writeQueue) ELSE cur
      /\ writeQueue' = IF cur = NoBuf THEN Tail(writeQueue) ELSE writeQueue
      /\ cur # NoBuf \/ writeQueue # <<>>
      /\ UNCHANGED <<clients, conn, pipe, peerTokens, clientTokens, started, held, heldAs>>
  BY <1>1 DEF WriteSome, MayWrite, rxVars, chanVars
<1>3. Moves(WakeOps \cup WritingOps \cup {"flush"}, WritingOps)
  BY WritingMoves DEF Writing
<1>4. \A c : (Going(c) => Going(c)') /\ (Hanging(c) => Hanging(c)')
  BY <1>3, GoingKept, HangingKept DEF WritingOps
<1>5. \A c : Receiving(c)' => Receiving(c)
  BY <1>2 DEF Receiving
<1>6. \A c : Owned(c)' => Owned(c)
  <2>1. cur = NoBuf => Queued(writeQueue) = {Head(writeQueue)} \cup Queued(Tail(writeQueue))
    BY <1>2, SumTypes, QueuedSteps
  <2> QED BY <1>2, <2>1 DEF Owned
<1> QED BY <1>2, <1>4, <1>5, <1>6 DEF Silent

\* What is added to the queue is not a client's.
LEMMA OtherOwned ==
  ASSUME TypeOK, cur' = cur, NEW b \in WriteBuf, b.origin # "client",
         writeQueue' = writeQueue \/ writeQueue' = Append(writeQueue, b)
  PROVE  \A c : Owned(c)' => Owned(c)
<1>1. Queued(Append(writeQueue, b)) = Queued(writeQueue) \cup {b}
  BY SumTypes, QueuedSteps
<1>2. \A c : ~Owns(c, b)
  BY DEF Owns
<1> QED BY <1>1, <1>2 DEF Owned

\* A client is removed and reported to be gone.
LEMMA RemovedSilent ==
  ASSUME ConstantsOK, TypeOK, RemovalInv, MessageInv,
         RemovedEnd \/ \E c \in Clients : FreeWritten(c) \/ FreeEnd(c) \/ Gone(c)
  PROVE  Silent
<1>1. \A d \in clients' : Going(d) => Going(d)'
  BY RemovedGoing
<1>2. \A d : Hanging(d) => Hanging(d)'
  BY RemovingMoves, HangingKept DEF Removing, EndOps
<1>3. UNCHANGED <<started, clientTokens, pipe>>
  BY DEF RemovedEnd, FreeWritten, FreeEnd, Gone, rxVars, chanVars
<1>4. CASE RemovedEnd
  <2>1. UNCHANGED <<clients, conn, peerTokens, cur, writeQueue, held, heldAs>>
    BY <1>4 DEF RemovedEnd, writeVars, rxVars, chanVars
  <2>2. \A d : (Receiving(d)' => Receiving(d)) /\ (Owned(d)' => Owned(d))
    BY <2>1, SameOwned
  <2> QED BY <1>1, <1>2, <1>3, <2>1, <2>2 DEF Silent
<1>5. ASSUME NEW c \in Clients, FreeWritten(c) PROVE Silent
  <2>1. UNCHANGED <<clients, conn, peerTokens, cur, held, heldAs>>
    BY <1>5 DEF FreeWritten, rxVars, chanVars
  <2>2. Queued(writeQueue') \subseteq Queued(writeQueue)
    <3>1. PICK i \in DOMAIN writeQueue :
            writeQueue' = SubSeq(writeQueue, 1, i - 1) \o SubSeq(writeQueue, i + 1, Len(writeQueue))
      BY <1>5 DEF FreeWritten
    <3>2. DOMAIN writeQueue = 1..Len(writeQueue)
      BY SumTypes, LenProperties
    <3> QED BY <3>1, <3>2, QueuedSteps, SumTypes
  <2>3. \A d : (Receiving(d)' => Receiving(d)) /\ (Owned(d)' => Owned(d))
    BY <2>1, <2>2 DEF Receiving, Owned
  <2> QED BY <1>1, <1>2, <1>3, <2>1, <2>3 DEF Silent
<1>6. ASSUME NEW c \in Clients, FreeEnd(c) PROVE Silent
  <2>1. /\ UNCHANGED <<conn, peerTokens, writeQueue, held, heldAs>>
        /\ cur' = IF Owns(c, cur) THEN NoTokenBuf ELSE cur
        /\ clients' = clients \ {c}
    BY <1>6 DEF FreeEnd, rxVars, chanVars
  <2>2. \A d : ~Owns(d, NoTokenBuf)
    BY PriceFacts
  <2>3. \A d : (Receiving(d)' => Receiving(d)) /\ (Owned(d)' => Owned(d))
    BY <2>1, <2>2 DEF Receiving, Owned
  <2> QED BY <1>1, <1>2, <1>3, <2>1, <2>3 DEF Silent
<1>7. ASSUME NEW c \in Clients, Gone(c) PROVE Silent
  <2>1. /\ UNCHANGED <<clients, cur, held>>
        /\ conn' = [conn EXCEPT ![c] = "none"]
        /\ peerTokens' = [peerTokens EXCEPT ![c] = 0]
        /\ heldAs' = IF held = c THEN "orphan" ELSE heldAs
        /\ writeQueue' = Append(writeQueue, NoTokenBuf) \/ writeQueue' = writeQueue
    BY <1>7 DEF Gone
  <2>2. c \notin clients
    BY <1>7, GoneDetached
  <2>3. /\ \A d \in clients' : peerTokens'[d] = peerTokens[d]
        /\ \A d \in Clients : conn'[d] \in {conn[d], "none"}
    BY <2>1, <2>2 DEF TypeOK, ChanTypes
  <2>4. NoTokenBuf \in WriteBuf /\ NoTokenBuf.origin # "client"
    BY WriteFacts DEF NoTokenBuf
  <2>5. \A d : Owned(d)' => Owned(d)
    BY <2>1, <2>4, OtherOwned
  <2>6. \A d : Receiving(d)' => Receiving(d)
    BY <2>1 DEF Receiving
  <2> QED BY <1>1, <1>2, <1>3, <2>1, <2>3, <2>5, <2>6 DEF Silent
<1> QED BY <1>4, <1>5, <1>6, <1>7

\* Events that find the stack empty.
LEMMA EventSilent ==
  ASSUME ConstantsOK, TypeOK, LoopInv, DeviceInv,
         \/ Start \/ Stop \/ MouseEvent \/ \E c \in Clients : Connect(c) \/ ClientDisconnect(c)
  PROVE  Silent
<1>1. /\ Idle /\ UNCHANGED <<clients, started, clientTokens, peerTokens, pipe, cur, held, heldAs>>
      /\ writeQueue' = writeQueue \/ writeQueue' = Append(writeQueue, ServerBuf)
      /\ conn' = conn \/ \E c \in Clients : conn[c] = "none" /\ conn' = [conn EXCEPT ![c] = "open"]
  BY DEF Start, Stop, MouseEvent, Connect, ClientDisconnect, writeVars, rxVars, chanVars
<1>2. \A c : ~Hanging(c) /\ ~Going(c)
  BY <1>1, HangingNone
<1>3. ServerBuf \in WriteBuf /\ ServerBuf.origin # "client"
  BY WriteFacts DEF ServerBuf
<1>4. \A c : Owned(c)' => Owned(c)
  BY <1>1, <1>3, OtherOwned
<1>5. \A c : Receiving(c)' => Receiving(c)
  BY <1>1 DEF Receiving
<1>6. \A c \in Clients : conn'[c] = conn[c] \/ (conn'[c] = "open" /\ c \notin clients)
  BY <1>1 DEF DeviceInv, TypeOK, ChanTypes
<1> QED BY <1>1, <1>2, <1>4, <1>5, <1>6 DEF Silent

\* The end of the device, one client at a time.
LEMMA DestroySilent ==
  ASSUME ConstantsOK, TypeOK, Destroy
  PROVE  Silent
<1>1. /\ UNCHANGED <<clients, conn, pipe, peerTokens, started, clientTokens, cur, writeQueue, held, heldAs>>
      /\ clients # {} => \E c \in clients : Call(<<FC("free", c)>>)
      /\ clients = {} => Return /\ stack # <<>> /\ Top.op = "destroy"
  BY DEF Destroy, writeVars, rxVars, chanVars, At, Top
<1>2. \A c : (Receiving(c)' => Receiving(c)) /\ (Owned(c)' => Owned(c))
  BY <1>1, SameOwned
<1>3. CASE clients # {}
  <2>1. PICK c \in clients : Call(<<FC("free", c)>>)
    BY <1>1, <1>3
  <2>2. <<FC("free", c)>> \in Seq(Frame)
    BY SumTypes, FrameFacts DEF Ops
  <2>3. Active \subseteq Active'
    BY <2>1, <2>2, FrameSteps
  <2>4. \A d : (Going(d) => Going(d)') /\ (Hanging(d) => Hanging(d)')
    BY <2>3 DEF Going, Hanging
  <2> QED BY <1>1, <1>2, <2>4 DEF Silent
<1>4. CASE clients = {}
  <2>1. Active = {Top} \cup Active'
    BY <1>1, <1>4, HasFrames, FrameSteps
  <2>2. \A d : Hanging(d) => Hanging(d)'
    BY <1>1, <1>4, <2>1 DEF Hanging
  <2> QED BY <1>1, <1>2, <1>4, <2>2 DEF Silent
<1> QED BY <1>3, <1>4

\* An item leaves a pipe: it is sent, and its tokens arrive, or the channel hangs up.
LEMMA ItemAgree ==
  ASSUME ConstantsOK, TypeOK, TypeOK', AgreeInv, NEW c \in Clients, FlushSend(c) \/ HangupItem(c)
  PROVE  AgreeInv'
<1>1. Dull
  BY DullSteps DEF Channel
<1>2. /\ UNCHANGED <<started, conn, clients, clientTokens>> /\ clients \subseteq Clients
      /\ \A d : (Receiving(d)' => Receiving(d)) /\ (Owned(d)' => Owned(d)) /\ (Going(d) => Going(d)')
  <2>1. UNCHANGED <<started, conn>>
    BY DEF FlushSend, HangupItem, rxVars
  <2> QED BY <1>1, <2>1, SumTypes, SameOwned, CalmGoing DEF Dull, Calm
<1>3. /\ pipe[c] # <<>> /\ stack # <<>> /\ Top.c = c
      /\ FlushSend(c) => /\ pipe' = [pipe EXCEPT ![c] = Tail(pipe[c])]
                         /\ peerTokens' = [peerTokens EXCEPT ![c] = peerTokens[c] + Head(pipe[c]).tokens]
      /\ ~FlushSend(c) => /\ pipe' = [pipe EXCEPT ![c] = SubSeq(pipe[c], 1, Len(pipe[c]) - 1)]
                          /\ Top.op = "hangup" /\ peerTokens' = peerTokens
      /\ stack' = stack \/ \E b : Unref(b, stack)
  BY DEF FlushSend, HangupItem, At, Top
<1>4. Active \subseteq Active'
  <2>1. CASE stack' = stack
    BY <2>1 DEF Active
  <2>2. CASE \E b : Unref(b, stack)
    <3>1. WakeOps \in SUBSET Ops
      BY DEF WakeOps, Ops
    <3>2. \E fs \in Only(WakeOps) : stack' = fs \o stack
      BY <2>2, <3>1, UnrefOver
    <3>3. PICK fs \in Seq(Frame) : Call(fs)
      BY <3>2 DEF Only, Call
    <3> QED BY <3>3, FrameSteps
  <2> QED BY <1>3, <2>1, <2>2
<1>5. \A d : Hanging(d) => Hanging(d)'
  BY <1>4 DEF Hanging
<1>6. /\ \A d \in Clients : d # c => pipe'[d] = pipe[d] /\ peerTokens'[d] = peerTokens[d]
      /\ FlushSend(c) => /\ pipe'[c] = Tail(pipe[c])
                         /\ peerTokens'[c] = peerTokens[c] + Head(pipe[c]).tokens
      /\ ~FlushSend(c) => pipe'[c] = SubSeq(pipe[c], 1, Len(pipe[c]) - 1)
  BY <1>3 DEF TypeOK, ChanTypes
<1>7. \A d \in Clients : Blank(pipe[d]) => Blank(pipe'[d])
  <2>1. Blank(pipe[c]) => Blank(pipe'[c])
    <3>1. Blank(pipe[c]) => Blank(Tail(pipe[c])) /\ Blank(SubSeq(pipe[c], 1, Len(pipe[c]) - 1))
      BY <1>3, WayFacts, BlankSteps
    <3>2. pipe'[c] = Tail(pipe[c]) \/ pipe'[c] = SubSeq(pipe[c], 1, Len(pipe[c]) - 1)
      BY <1>6
    <3> QED BY <3>1, <3>2
  <2> QED BY <1>6, <2>1
<1>8. \A d \in Clients : d # c \/ FlushSend(c) => (Balanced(d) => Balanced(d)')
  <2>1. ASSUME NEW d \in Clients, d # c PROVE Balanced(d) => Balanced(d)'
    BY <1>2, <1>6, <2>1, WayFacts DEF Balanced
  <2>2. ASSUME FlushSend(c) PROVE Balanced(c) => Balanced(c)'
    <3>1. Cardinality(Tokens(pipe[c])) = Head(pipe[c]).tokens + Cardinality(Tokens(Tail(pipe[c])))
      BY <1>3, WayFacts, TokensSteps
    <3>2. Way(c) = Head(pipe[c]).tokens + Way(c)'
      BY <1>6, <2>2, <3>1, WayFacts
    <3>3. Head(pipe[c]) \in PipeItem
      BY <1>3, WayFacts, PipeFacts
    <3>4. Head(pipe[c]).tokens \in Nat /\ Way(c)' \in Nat /\ peerTokens[c] \in Nat
      BY <3>3, PipeFacts, WayFacts, SumTypes
    <3> QED BY <1>2, <1>6, <2>2, <3>2, <3>4 DEF Balanced
  <2> QED BY <2>1, <2>2
<1>9. ~FlushSend(c) => Hanging(c)'
  <2>1. Top \in Active
    BY <1>3, HasFrames
  <2> QED BY <1>3, <1>4, <2>1 DEF Hanging
<1>10. \A d \in Clients : Fresh(d) => Fresh(d)'
  BY <1>2, <1>7 DEF Fresh
<1>11. \A d \in clients' : conn'[d] = "open" /\ ~Hanging(d)' =>
         conn[d] = "open" /\ ~Hanging(d) /\ (Balanced(d) => Balanced(d)')
  BY <1>2, <1>5, <1>8, <1>9
<1> QED BY <1>2, <1>10, <1>11, AgreeKept

\* A released buffer brings its client as many tokens as it is told.
LEMMA ReleaseAgree ==
  ASSUME ConstantsOK, TypeOK, TypeOK', NEW buf \in WriteBuf \cup {NoBuf}, NEW q \in Seq(WriteBuf),
         NEW rest, Release(buf, q, rest), NEW d \in Clients
  PROVE  /\ ~Owns(d, buf) => clientTokens'[d] = clientTokens[d] /\ pipe'[d] = pipe[d]
         /\ Linked(d) /\ peerTokens'[d] = peerTokens[d] => (Balanced(d) => Balanced(d)')
         /\ \A b \in Queued(writeQueue') : b \in Queued(q) \/ ~Owns(d, b)
<1> DEFINE f == tokensFree[buf.c] + buf.price
<1>1. /\ clientTokens \in [Clients -> Nat] /\ tokensFree \in [Clients -> Nat]
      /\ pipe \in [Clients -> Seq(PipeItem)] /\ buf.price \in Nat
      /\ buf.origin = "client" => buf.c \in Clients
  <2>1. /\ clientTokens \in [Clients -> Nat] /\ tokensFree \in [Clients -> Nat]
        /\ pipe \in [Clients -> Seq(PipeItem)]
    BY DEF TypeOK, RxTypes, ChanTypes
  <2>2. buf.price \in Nat
    BY DEF WriteBuf, NoBuf
  <2>3. buf.origin = "client" => buf.c \in Clients
    BY SumTypes DEF Release
  <2> QED BY <2>1, <2>2, <2>3
<1>2. \A b \in Queued(writeQueue') : b \in Queued(q) \/ ~Owns(d, b)
  BY ReleaseQueue DEF Owns
<1>3. CASE clientTokens' = clientTokens /\ pipe' = pipe
  BY <1>2, <1>3, WayFacts DEF Balanced
<1>4. CASE /\ buf.origin = "client"
           /\ clientTokens' = [clientTokens EXCEPT ![buf.c] = clientTokens[buf.c] + f]
           /\ PushItem(buf.c, TokensItem(f), rest)
  <2>1. pipe' = IF Linked(buf.c) THEN [pipe EXCEPT ![buf.c] = Append(pipe[buf.c], TokensItem(f))] ELSE pipe
    BY <1>4 DEF PushItem
  <2>2. CASE d # buf.c
    <3>1. clientTokens'[d] = clientTokens[d] /\ pipe'[d] = pipe[d]
      BY <1>1, <1>4, <2>1, <2>2
    <3>2. Balanced(d) /\ peerTokens'[d] = peerTokens[d] => Balanced(d)'
      BY <3>1, WayFacts DEF Balanced
    <3> QED BY <1>2, <3>1, <3>2
  <2>3. CASE d = buf.c
    <3>1. Owns(d, buf)
      BY <1>4, <2>3 DEF Owns
    <3>2. f \in Nat /\ clientTokens[d] \in Nat /\ peerTokens[d] \in Nat
      <4>1. tokensFree[buf.c] \in Nat
        BY <1>1, <1>4
      <4>2. f \in Nat
        BY <1>1, <4>1, SumOfNats
      <4> QED BY <4>2, SumTypes
    <3>3. clientTokens'[d] = clientTokens[d] + f
      BY <1>1, <1>4, <2>3
    <3> HIDE DEF f
    <3>4. ASSUME Linked(d), peerTokens'[d] = peerTokens[d], Balanced(d)
          PROVE  Balanced(d)'
      <4>1. pipe'[d] = Append(pipe[d], TokensItem(f))
        BY <1>1, <2>1, <2>3, <3>4
      <4>2. TokensItem(f) \in PipeItem /\ TokensItem(f).tokens = f
        BY <3>2, PipeFacts DEF TokensItem
      <4>3. Cardinality(Tokens(Append(pipe[d], TokensItem(f)))) = Cardinality(Tokens(pipe[d])) + f
        BY <4>2, WayFacts, TokensSteps
      <4>4. Way(d)' = Way(d) + f /\ Way(d) \in Nat
        BY <4>1, <4>3, WayFacts
      <4> QED BY <3>2, <3>3, <3>4, <4>4, SMTT(20) DEF Balanced
    <3> QED BY <1>2, <3>1, <3>4
  <2> QED BY <2>2, <2>3
<1>5. QED
  BY <1>3, <1>4 DEF Release

LEMMA WrittenAgree ==
  ASSUME ConstantsOK, TypeOK, TypeOK', AgreeInv, WriteRelease
  PROVE  AgreeInv'
<1>1. /\ cur' = NoBuf /\ UNCHANGED <<started, conn, clients, peerTokens, held, heldAs>>
      /\ \E rest : Release(cur, writeQueue, rest)
      /\ clients \subseteq Clients
  BY SumTypes DEF WriteRelease
<1>2. \A c : (Going(c) => Going(c)') /\ (Hanging(c) => Hanging(c)')
  BY WritingMoves, GoingKept, HangingKept DEF Writing, WritingOps
<1>3. ASSUME NEW c \in Clients
      PROVE  /\ Fresh(c) => Fresh(c)' /\ clientTokens'[c] = clientTokens[c]
             /\ conn[c] = "open" => (Balanced(c) => Balanced(c)')
  <2>1. /\ ~Owns(c, cur) => clientTokens'[c] = clientTokens[c] /\ pipe'[c] = pipe[c]
        /\ Linked(c) => (Balanced(c) => Balanced(c)')
        /\ \A b \in Queued(writeQueue') : b \in Queued(writeQueue) \/ ~Owns(c, b)
    BY <1>1, SumTypes, ReleaseAgree
  <2>2. (Receiving(c)' => Receiving(c)) /\ ~Owns(c, NoBuf)
    BY <1>1, PriceFacts DEF Receiving
  <2>3. Fresh(c) => Fresh(c)' /\ clientTokens'[c] = clientTokens[c]
    BY <1>1, <2>1, <2>2 DEF Fresh, Owned
  <2> QED BY <2>1, <2>3 DEF Linked
<1> QED BY <1>1, <1>2, <1>3, AgreeKept

\* A message arrives, is given back or put into the queue, or is discarded because the
\* agent has left.
LEMMA BufAgree ==
  ASSUME ConstantsOK, TypeOK, TypeOK', LoopInv, AgreeInv, NEW c \in Clients,
         BufGet(c) \/ BufStale(c) \/ BufAdd(c) \/ BufGiveBack(c)
  PROVE  AgreeInv'
<1>1. /\ Idle /\ UNCHANGED <<started, conn, clients>> /\ clients \subseteq Clients
      /\ conn[c] = "open"
  BY SumTypes DEF BufGet, BufStale, BufAdd, BufGiveBack, rxVars, chanVars
<1>2. \A d : ~Going(d) /\ ~Hanging(d)
  BY <1>1, HangingNone
<1>3. CASE BufGet(c)
  <2>1. /\ started /\ pipe' = pipe
        /\ \/ UNCHANGED <<peerTokens, clientTokens>>
           \/ /\ peerTokens[c] > 0 /\ clientTokens[c] > 0
              /\ peerTokens' = [peerTokens EXCEPT ![c] = peerTokens[c] - 1]
              /\ clientTokens' = [clientTokens EXCEPT ![c] = clientTokens[c] - 1]
    BY <1>3 DEF BufGet
  <2>2. ASSUME NEW d \in Clients PROVE Balanced(d) => Balanced(d)'
    <3>1. Way(d)' = Way(d) /\ Way(d) \in Nat /\ peerTokens[d] \in Nat /\ clientTokens[d] \in Nat
      BY <2>1, WayFacts, SumTypes
    <3>2. peerTokens \in [Clients -> Nat] /\ clientTokens \in [Clients -> Nat]
      BY DEF TypeOK, ChanTypes, RxTypes
    <3>3. \/ peerTokens'[d] = peerTokens[d] /\ clientTokens'[d] = clientTokens[d]
          \/ peerTokens'[d] = peerTokens[d] - 1 /\ clientTokens'[d] = clientTokens[d] - 1
      BY <2>1, <3>2
    <3> QED BY <3>1, <3>3 DEF Balanced
  <2> QED BY <1>1, <1>2, <2>1, <2>2, AgreeKept
<1>4. CASE BufStale(c)
  <2>1. ~started /\ UNCHANGED <<clientTokens, cur, writeQueue, pipe, held, heldAs>>
    BY <1>4 DEF BufStale, rxVars, writeVars
  <2>2. \A d \in Clients : Fresh(d) => Fresh(d)' /\ clientTokens'[d] = clientTokens[d]
    BY <2>1, SameOwned DEF Fresh
  <2> QED BY <1>1, <1>2, <2>1, <2>2, AgreeKept
<1>5. CASE BufAdd(c)
  <2>1. started /\ UNCHANGED <<clientTokens, peerTokens, pipe>>
    BY <1>5 DEF BufAdd, chanVars
  <2>2. \A d \in Clients : Balanced(d) => Balanced(d)'
    BY <2>1, WayFacts DEF Balanced
  <2> QED BY <1>1, <1>2, <2>1, <2>2, AgreeKept
<1>6. CASE BufGiveBack(c)
  <2>1. /\ UNCHANGED <<cur, peerTokens>> /\ held' = None /\ Receiving(c)
        /\ \/ Release(ClientBuf(c, 1), writeQueue, <<>>)
           \/ UNCHANGED <<clientTokens, pipe, writeQueue>>
    BY <1>6 DEF BufGiveBack
  <2>2. ASSUME NEW d \in Clients
        PROVE  /\ Fresh(d) => Fresh(d)' /\ clientTokens'[d] = clientTokens[d]
               /\ conn[d] = "open" => (Balanced(d) => Balanced(d)')
    <3>1. ~Receiving(d)'
      BY <2>1 DEF Receiving, ConstantsOK
    <3>2. CASE UNCHANGED <<clientTokens, pipe, writeQueue>>
      <4>1. Fresh(d) => Fresh(d)'
        BY <2>1, <3>1, <3>2 DEF Fresh, Owned
      <4>2. Balanced(d) => Balanced(d)'
        BY <2>1, <3>2, WayFacts DEF Balanced
      <4> QED BY <3>2, <4>1, <4>2
    <3>3. CASE Release(ClientBuf(c, 1), writeQueue, <<>>)
      <4>1. ClientBuf(c, 1) \in WriteBuf \cup {NoBuf} /\ writeQueue \in Seq(WriteBuf)
        BY WriteFacts, SumTypes
      <4>2. /\ ~Owns(d, ClientBuf(c, 1)) => clientTokens'[d] = clientTokens[d] /\ pipe'[d] = pipe[d]
            /\ Linked(d) => (Balanced(d) => Balanced(d)')
            /\ \A b \in Queued(writeQueue') : b \in Queued(writeQueue) \/ ~Owns(d, b)
        BY <2>1, <3>3, <4>1, ReleaseAgree
      <4>3. Fresh(d) => ~Owns(d, ClientBuf(c, 1))
        <5>1. Owns(d, ClientBuf(c, 1)) => d = c
          BY DEF Owns, ClientBuf
        <5> QED BY <2>1, <5>1 DEF Fresh
      <4>4. Fresh(d) => Fresh(d)' /\ clientTokens'[d] = clientTokens[d]
        BY <2>1, <3>1, <4>2, <4>3 DEF Fresh, Owned
      <4> QED BY <4>2, <4>4 DEF Linked
    <3> QED BY <2>1, <3>2, <3>3
  <2> QED BY <1>1, <1>2, <2>2, AgreeKept
<1> QED BY <1>3, <1>4, <1>5, <1>6

\* The migration of a client ends without data.
LEMMA RestoreLateAgree ==
  ASSUME ConstantsOK, TypeOK, LoopInv, DeviceInv, AgreeInv, NEW c \in Clients,
         RestoreLate(c) \/ RestoreNone(c)
  PROVE  AgreeInv'
<1>1. /\ Idle /\ conn[c] \in {"mig", "late"} /\ conn' = [conn EXCEPT ![c] = "open"]
      /\ UNCHANGED <<started, clients, clientTokens, cur, writeQueue, held, heldAs, pipe>>
  BY DEF RestoreLate, RestoreNone, Waiting, rxVars, writeVars
<1>2. ~started
  BY <1>1 DEF DeviceInv, AgreeInv
<1>3. clients \subseteq Clients /\ \A d : ~Going(d)
  BY <1>1, HangingNone, SumTypes
<1>4. \A d \in Clients : Fresh(d) => Fresh(d)'
  BY <1>1, SameOwned DEF Fresh
<1>5. \A d \in Clients : conn'[d] \in {"mig", "late"} => conn[d] \in {"mig", "late"}
  BY <1>1 DEF TypeOK, ChanTypes
<1> QED BY <1>1, <1>2, <1>3, <1>4, <1>5, AgreeKept

\* The client that starts the agent anew is the only one, and has its whole window.
LEMMA TokensSetAgree ==
  ASSUME ConstantsOK, TypeOK, TypeOK', LoopInv, DeviceInv, AgreeInv,
         NEW c \in Clients, NEW n \in 0..MaxSend, TokensSet(c, n)
  PROVE  AgreeInv'
<1> SUFFICES ASSUME ConnectedTokens PROVE AgreeInv'
  BY DEF AgreeInv
<1>1. /\ Idle /\ ~started /\ started' = TRUE /\ c \in clients /\ conn[c] = "open"
      /\ UNCHANGED <<clients, conn, pipe, clientTokens>>
      /\ peerTokens' = [peerTokens EXCEPT ![c] = Window]
  BY DEF TokensSet, Absorb
<1>2. Fresh(c) /\ clientTokens[c] = Window /\ ~MultiClient
  BY <1>1, HangingNone DEF AgreeInv
<1>3. clients \subseteq Clients /\ \A d \in Clients : conn[d] # "none" => d = c
  BY <1>1, <1>2, SumTypes DEF DeviceInv
<1>4. \A d \in clients : d = c
  BY <1>3 DEF DeviceInv
<1>5. \A d \in Clients : conn'[d] \notin {"mig", "late"}
  <2>1. ASSUME NEW d \in Clients PROVE conn[d] \notin {"mig", "late"}
    BY <1>1, <1>3
  <2> QED BY <1>1, <2>1
<1>6. Balanced(c)'
  <2>1. Way(c)' = 0
    BY <1>1, <1>2, WayFacts DEF Fresh
  <2>2. peerTokens'[c] = Window /\ clientTokens'[c] = Window /\ Window \in Nat
    BY <1>1, <1>2 DEF TypeOK, ChanTypes, ConstantsOK
  <2> QED BY <2>1, <2>2 DEF Balanced
<1> QED BY <1>1, <1>4, <1>5, <1>6 DEF AgreeInv

\* A new client has started the agent, and knows its window; so have the others.
LEMMA ClientAddAgree ==
  ASSUME ConstantsOK, TypeOK, TypeOK', LoopInv, DeviceInv, AgreeInv,
         NEW c \in Clients, NEW n \in 0..MaxSend, ClientAdd(c, n)
  PROVE  AgreeInv'
<1> SUFFICES ASSUME ConnectedTokens PROVE AgreeInv'
  BY DEF AgreeInv
<1>1. /\ Idle /\ started' = TRUE /\ c \notin clients /\ conn[c] = "open" /\ pipe[c] = <<>>
      /\ UNCHANGED <<conn, pipe>> /\ clients' = clients \cup {c}
      /\ clientTokens' = [clientTokens EXCEPT ![c] = Window]
      /\ peerTokens' = [peerTokens EXCEPT ![c] = Window]
  BY DEF ClientAdd, AddClient
<1>2. /\ \A d : ~Hanging(d) /\ ~Going(d)
      /\ clients \subseteq Clients
      /\ peerTokens \in [Clients -> Nat] /\ clientTokens \in [Clients -> Nat]
  BY <1>1, HangingNone, SumTypes DEF TypeOK, ChanTypes, RxTypes
<1>3. Balanced(c)'
  <2>1. Way(c)' = 0
    BY <1>1, BlankSteps, WayFacts
  <2>2. peerTokens'[c] = Window /\ clientTokens'[c] = Window /\ Window \in Nat
    BY <1>1, <1>2 DEF ConstantsOK
  <2> QED BY <2>1, <2>2 DEF Balanced
<1>4. ASSUME NEW d \in clients, conn'[d] = "open"
      PROVE  Balanced(d)'
  <2>1. d \in Clients /\ d # c /\ conn[d] = "open"
    BY <1>1, <1>2, <1>4
  <2>2. MultiClient
    BY <1>1, <2>1 DEF DeviceInv
  <2>3. started
    BY <1>2, <2>2 DEF AgreeInv
  <2>4. Balanced(d)
    BY <1>2, <2>1, <2>3 DEF AgreeInv
  <2>5. /\ Way(d)' = Way(d) /\ peerTokens'[d] = peerTokens[d]
        /\ clientTokens'[d] = clientTokens[d]
    BY <1>1, <1>2, <2>1, WayFacts
  <2> QED BY <2>4, <2>5 DEF Balanced
<1>5. \A d \in Clients : conn'[d] \notin {"mig", "late"}
  <2>1. ASSUME NEW d \in Clients, conn[d] \in {"mig", "late"} PROVE FALSE
    <3>1. ~MultiClient
      BY <2>1 DEF DeviceInv
    <3> QED BY <1>1, <2>1, <3>1 DEF DeviceInv
  <2> QED BY <1>1, <2>1
<1> QED BY <1>1, <1>3, <1>4, <1>5 DEF AgreeInv

\* The one client of the target of a migration is added when the agent comes.
LEMMA AttachAgree ==
  ASSUME ConstantsOK, TypeOK, TypeOK', LoopInv, DeviceInv, AgreeInv,
         NEW c \in Clients \cup {None}, NEW vm \in BOOLEAN, Attach(c, vm)
  PROVE  AgreeInv'
<1> SUFFICES ASSUME ConnectedTokens PROVE AgreeInv'
  BY DEF AgreeInv
<1>1. ~exists /\ clients = {}
  BY DEF Attach, DeviceInv
<1>2. /\ Idle /\ writeQueue' = <<>> /\ cur' = NoBuf
      /\ UNCHANGED <<held, heldAs, started, conn, pipe>>
      /\ IF c = None THEN clients' = clients
                     ELSE c \in Waiting /\ AddClient(c, MaxSend)
  BY <1>1 DEF Attach
<1>3. \A d : Fresh(d) => Fresh(d)'
  <2>1. \A d : (Receiving(d)' <=> Receiving(d)) /\ ~Owned(d)'
    BY <1>2, QueuedSteps, PriceFacts DEF Receiving, Owned
  <2> QED BY <1>2, <2>1 DEF Fresh
<1>4. \A d \in Clients : conn'[d] \in {"mig", "late"} => Fresh(d)' /\ ~started'
  BY <1>2, <1>3 DEF AgreeInv
<1>5. CASE c = None
  BY <1>1, <1>2, <1>4, <1>5 DEF AgreeInv
<1>6. CASE c # None
  <2>1. /\ c \in Clients /\ conn[c] \in {"mig", "late"} /\ clients' = {c}
        /\ clientTokens' = [clientTokens EXCEPT ![c] = Window]
    BY <1>1, <1>2, <1>6 DEF Waiting, AddClient
  <2>2. ~MultiClient /\ ~started
    BY <2>1 DEF DeviceInv, AgreeInv
  <2>3. clientTokens'[c] = Window /\ Fresh(c)'
    BY <1>2, <1>4, <2>1 DEF TypeOK, RxTypes
  <2> QED BY <1>2, <1>4, <2>1, <2>2, <2>3 DEF AgreeInv
<1> QED BY <1>5, <1>6

\* The client and the target of its migration are told the same.
LEMMA MigratedAgree ==
  ASSUME ConstantsOK, TypeOK, TypeOK', DeviceInv, AgreeInv, Migrated
  PROVE  AgreeInv'
<1> SUFFICES ASSUME ConnectedTokens PROVE AgreeInv'
  BY DEF AgreeInv
<1>1. PICK c \in Clients, n \in 0..Window, w \in 0..Window, t \in 0..MaxSend, data \in BOOLEAN :
        Restore(c, n, w, t, data)
  BY DEF Migrated
<1>2. /\ clients' = {c} /\ conn[c] = "mig" /\ started' = TRUE /\ pipe' = pipe
      /\ conn' = [conn EXCEPT ![c] = "open"]
      /\ clientTokens' = [clientTokens EXCEPT ![c] = n]
      /\ peerTokens' = [peerTokens EXCEPT ![c] = n]
  BY <1>1 DEF Restore
<1>3. \A d \in Clients : conn'[d] \notin {"mig", "late"}
  <2>1. ASSUME NEW d \in Clients, d # c PROVE conn[d] = "none"
    BY <1>2, <2>1 DEF DeviceInv
  <2> QED BY <1>2, <2>1 DEF TypeOK, ChanTypes
<1>4. Balanced(c)'
  <2>1. Way(c)' = 0
    <3>1. Fresh(c)
      BY <1>2 DEF AgreeInv
    <3> QED BY <1>2, <3>1, WayFacts DEF Fresh
  <2>2. peerTokens'[c] = n /\ clientTokens'[c] = n /\ n \in Nat
    <3>1. Window \in Nat
      BY DEF ConstantsOK
    <3> QED BY <1>2, <3>1 DEF TypeOK, ChanTypes, RxTypes
  <2> QED BY <2>1, <2>2 DEF Balanced
<1> QED BY <1>2, <1>3, <1>4 DEF AgreeInv

\* The agent leaves: with clients that can be told their tokens again, the device and
\* what waited in it end, and nobody has started the agent.  It is never reset.
LEMMA DetachAgree ==
  ASSUME ConstantsOK, TypeOK, LoopInv, RemovalInv, AgreeInv,
         Detach \/ ResetRelease \/ ResetQueues
  PROVE  AgreeInv'
<1> SUFFICES ASSUME ConnectedTokens PROVE AgreeInv'
  BY DEF AgreeInv
<1>1. CASE ResetRelease \/ ResetQueues
  <2>1. stack # <<>> /\ Top.op \in {"reset", "reset2"}
    BY <1>1 DEF ResetRelease, ResetQueues, At, Top
  <2>2. Has({"reset", "reset2"})
    BY <2>1, HasFrames DEF Has
  <2> QED BY <2>2 DEF RemovalInv
<1>2. CASE Detach
  <2>1. /\ Idle /\ writeQueue' = <<>> /\ cur' = NoBuf /\ Call(<<F("destroy")>>)
        /\ started' = FALSE /\ UNCHANGED <<clients, held, pipe>>
        /\ heldAs' = IF heldAs = "live" THEN "stale" ELSE heldAs
        /\ conn' = [d \in Clients |-> IF conn[d] = "mig" THEN "late" ELSE conn[d]]
    BY <1>2 DEF Detach
  <2>2. \A d : Going(d)'
    <3>1. <<F("destroy")>> \in Seq(Frame)
      BY FrameFacts DEF Ops
    <3>2. Active' = {F("destroy")} \cup Active
      BY <2>1, <3>1, FrameSteps, FramesOf
    <3> QED BY <3>2 DEF Going
  <2>3. \A d : Fresh(d) => Fresh(d)'
    <3>1. \A d : (Receiving(d)' <=> Receiving(d)) /\ ~Owned(d)'
      BY <2>1, QueuedSteps, PriceFacts DEF Receiving, Owned
    <3> QED BY <2>1, <3>1 DEF Fresh
  <2>4. \A d \in Clients : conn'[d] \in {"mig", "late"} => Fresh(d)'
    <3>1. \A d \in Clients : conn'[d] \in {"mig", "late"} => conn[d] \in {"mig", "late"}
      BY <2>1
    <3> QED BY <2>3, <3>1 DEF AgreeInv
  <2> QED BY <2>1, <2>2, <2>4 DEF AgreeInv
<1> QED BY <1>1, <1>2

-----------------------------------------------------------------------------
(* The theorem on what the clients believe.                                *)

LEMMA AgreeNext ==
  ASSUME ConstantsOK, TypeOK, TypeOK', LoopInv, WritingInv, MessageInv, AgreeInv, [Next]_vars
  PROVE  AgreeInv'
<1> USE DEF WritingInv
<1>1. CASE \/ Reading \/ Destroy \/ RemovedEnd
           \/ \E c \in Clients : \/ Pushing(c) \/ WaitTimeout(c)
                                 \/ \E n \in 0..MaxSend : TokensAdd(c, n)
  <2>1. Silent
    BY <1>1, ReadingSilent, DestroySilent, PushingSilent, RemovedSilent
  <2> QED BY <2>1, SilentAgree
<1>2. CASE \/ WriteRefused \/ WriteNested \/ WriteBegin \/ WriteAgain \/ WriteEnd
           \/ WriteRetry \/ StartLoop \/ GuestWrites \/ WriteAll \/ WritePart \/ WriteNone
           \/ Start \/ Stop \/ MouseEvent
  <2>1. Silent
    BY <1>2, TurnsSilent, TakenSilent, EventSilent
  <2> QED BY <2>1, SilentAgree
<1>3. CASE \E c \in Clients : \/ FreeQueued(c) \/ FlushStop(c) \/ FlushFail(c) \/ HangupEnd(c)
                              \/ Writable(c) \/ PeerCloses(c)
                              \/ FreeWritten(c) \/ FreeEnd(c) \/ Gone(c)
                              \/ Connect(c) \/ ClientDisconnect(c)
  <2>1. Silent
    BY <1>3, TurnsSilent, RemovedSilent, EventSilent
  <2> QED BY <2>1, SilentAgree
<1>4. CASE \/ WriteRelease \/ Migrated \/ Detach \/ ResetRelease \/ ResetQueues
           \/ \E c \in Clients \cup {None}, vm \in BOOLEAN : Attach(c, vm)
  BY <1>4, WrittenAgree, MigratedAgree, DetachAgree, AttachAgree
<1>5. CASE \E c \in Clients : \/ FlushSend(c) \/ HangupItem(c) \/ RestoreLate(c) \/ RestoreNone(c)
                              \/ BufGet(c) \/ BufStale(c) \/ BufAdd(c) \/ BufGiveBack(c)
                              \/ \E n \in 0..MaxSend : TokensSet(c, n) \/ ClientAdd(c, n)
  BY <1>5, ItemAgree, RestoreLateAgree, BufAgree, TokensSetAgree, ClientAddAgree
<1>6. CASE UNCHANGED vars
  <2>1. UNCHANGED <<clients, conn, pipe, peerTokens, started, clientTokens, cur, writeQueue,
                    held, heldAs, stack>>
    BY <1>6 DEF vars, deviceVars, writeVars, rxVars, chanVars
  <2>2. Silent
    BY <2>1, SameOwned DEF Silent, Going, Hanging, Active
  <2> QED BY <2>2, SilentAgree
<1>7. CASE Running
  BY <1>1, <1>2, <1>3, <1>4, <1>5, <1>7 DEF Running, Writing, Removing, Channel
<1>8. CASE FromVM
  BY <1>2, <1>4, <1>8 DEF FromVM
<1>9. CASE \E c \in Clients : FromClient(c) \/ FromServer(c)
  BY <1>1, <1>3, <1>5, <1>9 DEF FromClient, FromServer
<1> QED BY <1>2, <1>4, <1>6, <1>7, <1>8, <1>9 DEF Next

LEMMA AgreeInit ==
  ASSUME ConstantsOK, Init
  PROVE  AgreeInv
<1>1. \A c \in Clients : Fresh(c) /\ ~started
  <2>1. /\ held = None /\ writeQueue = <<>> /\ cur = NoBuf /\ ~started
        /\ pipe = [c \in Clients |-> <<>>]
    BY DEF Init
  <2>2. ASSUME NEW c \in Clients PROVE ~Receiving(c) /\ ~Owned(c) /\ Blank(pipe[c])
    BY <2>1, QueuedSteps, PriceFacts, BlankSteps DEF Receiving, Owned, ConstantsOK
  <2> QED BY <2>1, <2>2 DEF Fresh
<1>2. clients = {}
  BY DEF Init
<1> QED BY <1>1, <1>2 DEF AgreeInv

LEMMA AgreeMean ==
  ASSUME TypeOK, AgreeInv
  PROVE  TokensAgree
<1>1. DOMAIN stack = 1..Len(stack)
  BY StackFacts, LenProperties
<1>2. \A c : HangingUp(c) <=> Hanging(c)
  BY <1>1 DEF HangingUp, Hanging, Active, Frames
<1> QED BY <1>2 DEF TokensAgree, AgreeInv, Balanced, Way

\* What a client believes changes only with what the server counts for it.
THEOREM AgreeAlways == Spec => []AgreeInv
<1> DEFINE I == TypeOK /\ LoopInv /\ WritingInv /\ MessageInv
<1>1. Init => AgreeInv
  BY ConstantsOK, AgreeInit
<1>2. I /\ TypeOK' /\ AgreeInv /\ [Next]_vars => AgreeInv'
  BY ConstantsOK, AgreeNext
<1> QED BY <1>1, <1>2, TypeCorrect, LoopsGuarded, WritingAlways, QueuesAlways, PTL DEF Spec

\* A client that has started the agent and the server agree on the client's tokens: its
\* MSGC_AGENT_DATA never finds num_client_tokens at zero, which would disconnect it,
\* while it obeys the tokens it was told by MSG_MAIN_AGENT_TOKEN, AGENT_CONNECTED_TOKENS
\* or the migration.
THEOREM TokensAgreeAlways == Spec => []TokensAgree
<1>1. TypeOK /\ AgreeInv => TokensAgree
  BY AgreeMean
<1> QED BY <1>1, TypeCorrect, AgreeAlways, PTL
=============================================================================

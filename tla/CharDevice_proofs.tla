--------------------------- MODULE CharDevice_proofs --------------------------
(***************************************************************************)
(* Proofs about CharDevice, for any number of clients and read buffers and *)
(* any limits.  First: every variable keeps its type (TypeCorrect).  The   *)
(* type invariant is inductive as it stands.  A step changes a few of its  *)
(* eight groups; for each action a lemma says that these keep their types, *)
(* and Keep covers the others.  Then: its two loops are guarded            *)
(* (LoopsGuarded).                                                         *)
(***************************************************************************)
EXTENDS CharDevice, TLAPS, SequenceTheorems, FiniteSetTheorems, FunctionTheorems

-----------------------------------------------------------------------------
(* Counting.  Where a sequence holds members of S, how many there are, and *)
(* the places of a family f of sequences, over C, that hold them.          *)

Hits(q, S)      == {i \in 1..Len(q) : q[i] \in S}
Count(q, S)     == Cardinality(Hits(q, S))
Places(f, C, S) == UNION {{c} \X Hits(f[c], S) : c \in C}

LEMMA CountTypes ==
  ASSUME NEW X, NEW S
  PROVE  /\ \A q \in Seq(X) : IsFiniteSet(Hits(q, S)) /\ Count(q, S) \in Nat
         /\ \A q \in Seq(X) : Hits(q, S) = {i \in DOMAIN q : q[i] \in S}
<1>1. ASSUME NEW q \in Seq(X)
      PROVE  IsFiniteSet(Hits(q, S)) /\ Hits(q, S) = {i \in DOMAIN q : q[i] \in S}
  <2>1. Len(q) \in Nat /\ DOMAIN q = 1..Len(q)
    BY LenProperties
  <2>2. IsFiniteSet(1..Len(q))
    BY <2>1, FS_Interval
  <2> QED BY <2>1, <2>2, FS_Subset DEF Hits
<1> QED BY <1>1, FS_CardinalityType DEF Count

LEMMA CountConcat ==
  ASSUME NEW X, NEW S, NEW s \in Seq(X), NEW t \in Seq(X)
  PROVE  Count(s \o t, S) = Count(s, S) + Count(t, S)
<1>1. /\ Len(s) \in Nat /\ Len(t) \in Nat /\ Len(s \o t) = Len(s) + Len(t)
      /\ \A i \in 1..Len(s) + Len(t) :
           (s \o t)[i] = IF i <= Len(s) THEN s[i] ELSE t[i - Len(s)]
  BY ConcatProperties, LenProperties
<1> DEFINE Up == {i \in Hits(s \o t, S) : i > Len(s)}
           f  == [i \in Hits(t, S) |-> i + Len(s)]
<1>2. Hits(s \o t, S) = Hits(s, S) \cup Up
  BY <1>1 DEF Hits
<1>3. Hits(s, S) \cap Up = {}
  BY <1>1 DEF Hits
<1>4. f \in Bijection(Hits(t, S), Up)
  <2>1. \A i \in Hits(t, S) : f[i] \in Up
    BY <1>1 DEF Hits
  <2>2. \A i, j \in Hits(t, S) : f[i] = f[j] => i = j
    BY <1>1 DEF Hits
  <2>3. ASSUME NEW k \in Up PROVE \E i \in Hits(t, S) : f[i] = k
    <3>1. k - Len(s) \in 1..Len(t) /\ t[k - Len(s)] = (s \o t)[k] /\ k \in Nat
      BY <1>1 DEF Hits
    <3>2. k - Len(s) \in Hits(t, S) /\ f[k - Len(s)] = k
      BY <1>1, <3>1 DEF Hits
    <3> QED BY <3>2
  <2>4. f \in [Hits(t, S) -> Up]
    BY <2>1
  <2> HIDE DEF f, Up
  <2> QED BY <2>2, <2>3, <2>4, Fun_IsBij
<1>5. IsFiniteSet(Hits(t, S)) /\ IsFiniteSet(Hits(s, S))
  BY CountTypes
<1>6. IsFiniteSet(Up) /\ Cardinality(Up) = Cardinality(Hits(t, S))
  <2> HIDE DEF f, Up
  <2> QED BY <1>4, <1>5, FS_Bijection DEF ExistsBijection
<1>7. Cardinality(Hits(s, S) \cup Up) = Cardinality(Hits(s, S)) + Cardinality(Up) - Cardinality({})
  <2> HIDE DEF Up
  <2> QED BY <1>3, <1>5, <1>6, FS_Union
<1>8. Cardinality({}) = 0
  BY FS_EmptySet
<1>9. Cardinality(Hits(s, S)) \in Nat /\ Cardinality(Up) \in Nat
  BY <1>5, <1>6, FS_CardinalityType
<1> HIDE DEF Up
<1> QED BY <1>2, <1>6, <1>7, <1>8, <1>9 DEF Count

LEMMA CountSteps ==
  ASSUME NEW X, NEW S
  PROVE  /\ Count(<<>>, S) = 0
         /\ \A x : Count(<<x>>, S) = IF x \in S THEN 1 ELSE 0
         /\ \A q \in Seq(X), x \in X : 
               Count(Append(q, x), S) = Count(q, S) + (IF x \in S THEN 1 ELSE 0)
         /\ \A q \in Seq(X) : q # <<>> =>
               Count(q, S) = Count(Tail(q), S) + (IF Head(q) \in S THEN 1 ELSE 0)
<1>1. Count(<<>>, S) = 0
  <2>1. Hits(<<>>, S) = {}
    BY DEF Hits
  <2> QED BY <2>1, FS_EmptySet DEF Count
<1>2. ASSUME NEW x PROVE Count(<<x>>, S) = IF x \in S THEN 1 ELSE 0
  <2>1. Hits(<<x>>, S) = IF x \in S THEN {1} ELSE {}
    BY DEF Hits
  <2>2. Cardinality({1}) = 1 /\ Cardinality({}) = 0
    BY FS_Singleton, FS_EmptySet
  <2> QED BY <2>1, <2>2 DEF Count
<1>3. ASSUME NEW q \in Seq(X), NEW x \in X
      PROVE  Count(Append(q, x), S) = Count(q, S) + (IF x \in S THEN 1 ELSE 0)
  <2>1. Append(q, x) = q \o <<x>> /\ <<x>> \in Seq(X)
    BY AppendIsConcat
  <2> QED BY <1>2, <2>1, CountConcat
<1>4. ASSUME NEW q \in Seq(X), q # <<>>
      PROVE  Count(q, S) = Count(Tail(q), S) + (IF Head(q) \in S THEN 1 ELSE 0)
  <2>1. /\ Head(q) \in X /\ Tail(q) \in Seq(X) /\ Len(q) \in Nat \ {0}
        /\ q = SubSeq(q, 1, Len(q)) /\ Head(q) = q[1] /\ Tail(q) = SubSeq(q, 2, Len(q))
    BY <1>4, HeadTailProperties, EmptySeq, LenProperties, SubSeqFull, TailIsSubSeq
  <2>2. q = <<Head(q)>> \o Tail(q)
    BY <2>1, SubSeqRecursiveFirst
  <2>3. <<Head(q)>> \in Seq(X)
    BY <2>1
  <2>4. Count(q, S) = Count(<<Head(q)>>, S) + Count(Tail(q), S)
    BY <2>1, <2>2, <2>3, CountConcat
  <2>5. Count(Tail(q), S) \in Nat
    BY <2>1, CountTypes
  <2> QED BY <1>2, <2>4, <2>5
<1> QED BY <1>1, <1>2, <1>3, <1>4

\* The element at i is taken out.
LEMMA CountRemove ==
  ASSUME NEW X, NEW S, NEW q \in Seq(X), NEW i \in 1..Len(q)
  PROVE  Count(q, S) = Count(SubSeq(q, 1, i - 1) \o SubSeq(q, i + 1, Len(q)), S)
                       + (IF q[i] \in S THEN 1 ELSE 0)
<1> DEFINE s == SubSeq(q, 1, i - 1)
           t == SubSeq(q, i, Len(q))
           u == SubSeq(q, i + 1, Len(q))
<1>1. Len(q) \in Nat /\ i \in Nat /\ 1 <= i /\ i <= Len(q)
  BY LenProperties
<1>2. s \in Seq(X) /\ t \in Seq(X) /\ u \in Seq(X)
  BY <1>1, SubSeqProperties
<1>3. q = SubSeq(q, 1, i - 1) \o SubSeq(q, (i - 1) + 1, Len(q))
  BY <1>1, ConcatAdjacentSubSeq, SubSeqFull
<1>4. q = s \o t
  BY <1>1, <1>3
<1>5. t = <<q[i]>> \o u
  BY <1>1, SubSeqRecursiveFirst
<1>6. <<q[i]>> \in Seq(X)
  BY <1>1, ElementOfSeq
<1> HIDE DEF s, t, u
<1>7. /\ Count(q, S) = Count(s, S) + Count(t, S)
      /\ Count(s \o u, S) = Count(s, S) + Count(u, S)
  BY <1>2, <1>4, CountConcat
<1>8. Count(t, S) = Count(<<q[i]>>, S) + Count(u, S)
  BY <1>2, <1>5, <1>6, CountConcat
<1>9. Count(s, S) \in Nat /\ Count(u, S) \in Nat
  BY <1>2, CountTypes
<1>10. Count(<<q[i]>>, S) = IF q[i] \in S THEN 1 ELSE 0
  BY CountSteps
<1>11. Count(q, S) = Count(s \o u, S) + (IF q[i] \in S THEN 1 ELSE 0)
  BY <1>7, <1>8, <1>9, <1>10
<1> QED BY <1>11 DEF s, u

LEMMA PlacesTypes ==
  ASSUME NEW X, NEW S, NEW C, IsFiniteSet(C), NEW f, \A c \in C : f[c] \in Seq(X)
  PROVE  IsFiniteSet(Places(f, C, S)) /\ Cardinality(Places(f, C, S)) \in Nat
<1> DEFINE g == [c \in C |-> {c} \X Hits(f[c], S)]
           T == {{c} \X Hits(f[c], S) : c \in C}
<1>1. g \in [C -> T] /\ \A t \in T : \E c \in C : g[c] = t
  OBVIOUS
<1>2. g \in Surjection(C, T)
  BY <1>1, Fun_IsSurj
<1>3. IsFiniteSet(T)
  BY <1>2, FS_Surjection
<1>4. \A t \in T : IsFiniteSet(t)
  <2>1. ASSUME NEW c \in C PROVE IsFiniteSet({c} \X Hits(f[c], S))
    BY CountTypes, FS_Singleton, FS_Product
  <2> QED BY <2>1
<1>5. IsFiniteSet(UNION T)
  BY <1>3, <1>4, FS_UNION
<1> QED BY <1>5, FS_CardinalityType DEF Places

\* The sequence of c alone changes.
LEMMA PlacesExcept ==
  ASSUME NEW X, NEW S, NEW C, IsFiniteSet(C), NEW f, NEW g, NEW c \in C,
         \A d \in C : f[d] \in Seq(X) /\ g[d] \in Seq(X),
         \A d \in C \ {c} : g[d] = f[d]
  PROVE  Cardinality(Places(g, C, S))
            = Cardinality(Places(f, C, S)) - Count(f[c], S) + Count(g[c], S)
<1> DEFINE D == C \ {c}
<1>1. IsFiniteSet(D)
  BY FS_Subset
<1>2. ASSUME NEW h, \A d \in C : h[d] \in Seq(X)
      PROVE  Cardinality(Places(h, C, S)) = Cardinality(Places(h, D, S)) + Count(h[c], S)
  <2> DEFINE P == {c} \X Hits(h[c], S)
             k == [i \in Hits(h[c], S) |-> <<c, i>>]
  <2>1. Places(h, C, S) = Places(h, D, S) \cup P
    BY DEF Places
  <2>2. Places(h, D, S) \cap P = {}
    BY DEF Places
  <2>3. IsFiniteSet(Places(h, D, S)) /\ Cardinality(Places(h, D, S)) \in Nat
    BY <1>1, <1>2, PlacesTypes
  <2>4. IsFiniteSet(Hits(h[c], S)) /\ Count(h[c], S) \in Nat
    BY <1>2, CountTypes
  <2>5. k \in Bijection(Hits(h[c], S), P)
    <3>1. k \in [Hits(h[c], S) -> P]
      OBVIOUS
    <3>2. \A i, j \in Hits(h[c], S) : k[i] = k[j] => i = j
      OBVIOUS
    <3>3. \A p \in P : \E i \in Hits(h[c], S) : k[i] = p
      OBVIOUS
    <3> HIDE DEF k, P
    <3> QED BY <3>1, <3>2, <3>3, Fun_IsBij
  <2>6. IsFiniteSet(P) /\ Cardinality(P) = Count(h[c], S)
    BY <2>4, <2>5, FS_Bijection DEF ExistsBijection, Count
  <2> HIDE DEF P, D
  <2>7. Cardinality(Places(h, D, S) \cup P)
          = Cardinality(Places(h, D, S)) + Cardinality(P) - Cardinality({})
    BY <2>2, <2>3, <2>6, FS_Union
  <2>8. Cardinality({}) = 0
    BY FS_EmptySet
  <2> QED BY <2>1, <2>3, <2>4, <2>6, <2>7, <2>8
<1>3. Places(g, D, S) = Places(f, D, S)
  BY DEF Places
<1>4. Cardinality(Places(f, D, S)) \in Nat /\ Count(f[c], S) \in Nat /\ Count(g[c], S) \in Nat
  BY <1>1, PlacesTypes, CountTypes
<1>5. /\ Cardinality(Places(g, C, S)) = Cardinality(Places(g, D, S)) + Count(g[c], S)
      /\ Cardinality(Places(f, C, S)) = Cardinality(Places(f, D, S)) + Count(f[c], S)
  BY <1>2
<1> HIDE DEF D
<1> QED BY <1>3, <1>4, <1>5

-----------------------------------------------------------------------------
(* Facts about the data.                                                   *)

\* A group of variables that does not change keeps its types.
LEMMA Keep ==
  ASSUME TypeOK
  PROVE  /\ UNCHANGED <<deviceVars, clients>> => DeviceTypes'
         /\ UNCHANGED <<writeVars, writeLocals>> => WriteTypes'
         /\ UNCHANGED sendVars => SendTypes'
         /\ UNCHANGED rxVars => RxTypes'
         /\ UNCHANGED poolVars => PoolTypes'
         /\ UNCHANGED chanVars => ChanTypes'
         /\ UNCHANGED <<guestVars, readLocals>> => ReadTypes'
         /\ UNCHANGED <<stack, ret>> => StackTypes'
<1>1. UNCHANGED <<deviceVars, clients>> => DeviceTypes'
  BY DEF TypeOK, DeviceTypes, deviceVars
<1>2. UNCHANGED <<writeVars, writeLocals>> => WriteTypes'
  BY DEF TypeOK, WriteTypes, writeVars, writeLocals
<1>3. UNCHANGED sendVars => SendTypes'
  BY DEF TypeOK, SendTypes, sendVars
<1>4. UNCHANGED rxVars => RxTypes'
  BY DEF TypeOK, RxTypes, rxVars
<1>5. UNCHANGED poolVars => PoolTypes'
  BY DEF TypeOK, PoolTypes, poolVars
<1>6. UNCHANGED chanVars => ChanTypes'
  BY DEF TypeOK, ChanTypes, chanVars
<1>7. UNCHANGED <<guestVars, readLocals>> => ReadTypes'
  BY DEF TypeOK, ReadTypes, guestVars, readLocals
<1>8. UNCHANGED <<stack, ret>> => StackTypes'
  BY DEF TypeOK, StackTypes
<1> QED BY <1>1, <1>2, <1>3, <1>4, <1>5, <1>6, <1>7, <1>8

\* What any sequence over a set gives.
LEMMA SeqFacts ==
  ASSUME NEW S
  PROVE  /\ <<>> \in Seq(S)
         /\ \A x \in S : <<x>> \in Seq(S)
         /\ \A x, y \in S : <<x, y>> \in Seq(S)
         /\ \A q, r \in Seq(S) : q \o r \in Seq(S)
         /\ \A q \in Seq(S), x \in S : Append(q, x) \in Seq(S)
         /\ \A q \in Seq(S) : q # <<>> => Head(q) \in S /\ Tail(q) \in Seq(S)
<1>1. \A q, r \in Seq(S) : q \o r \in Seq(S)
  BY ConcatProperties
<1>2. \A q \in Seq(S), x \in S : Append(q, x) \in Seq(S)
  BY AppendProperties
<1>3. \A q \in Seq(S) : q # <<>> => Head(q) \in S /\ Tail(q) \in Seq(S)
  BY HeadTailProperties
<1> QED BY <1>1, <1>2, <1>3

\* Write buffers and the write queue.
LEMMA WriteFacts ==
  /\ \A c \in Clients, n \in Nat : ClientBuf(c, n) \in WriteBuf
  /\ ServerBuf \in WriteBuf /\ NoTokenBuf \in WriteBuf
  /\ <<>> \in Seq(WriteBuf)
  /\ \A q, r \in Seq(WriteBuf) : q \o r \in Seq(WriteBuf)
  /\ \A q \in Seq(WriteBuf), b \in WriteBuf : Append(q, b) \in Seq(WriteBuf)
  /\ \A q \in Seq(WriteBuf) : q # <<>> => Head(q) \in WriteBuf /\ Tail(q) \in Seq(WriteBuf)
<1>1. /\ \A c \in Clients, n \in Nat : ClientBuf(c, n) \in WriteBuf
      /\ ServerBuf \in WriteBuf /\ NoTokenBuf \in WriteBuf
  BY DEF ClientBuf, ServerBuf, NoTokenBuf, WriteBuf
<1> QED BY <1>1, SeqFacts

\* Pipe items and the pipe of a channel.
LEMMA PipeFacts ==
  /\ \A b \in Bufs : DataItem(b) \in PipeItem
  /\ \A n \in Nat : TokensItem(n) \in PipeItem
  /\ \A i \in PipeItem : i.buf \in Bufs \cup {None} /\ i.tokens \in Nat
  /\ \A p \in Seq(PipeItem), i \in PipeItem : Append(p, i) \in Seq(PipeItem)
  /\ \A p \in Seq(PipeItem) : p # <<>> => Head(p) \in PipeItem /\ Tail(p) \in Seq(PipeItem)
<1>1. /\ \A b \in Bufs : DataItem(b) \in PipeItem
      /\ \A n \in Nat : TokensItem(n) \in PipeItem
      /\ \A i \in PipeItem : i.buf \in Bufs \cup {None} /\ i.tokens \in Nat
  BY DEF DataItem, TokensItem, PipeItem
<1> QED BY <1>1, SeqFacts

\* The frames that calls push on the stack.
LEMMA FrameFacts ==
  /\ \A op \in Ops : <<F(op)>> \in Seq(Frame)
  /\ \A op \in Ops, c \in Clients : <<FC(op, c)>> \in Seq(Frame)
  /\ \A op, op2 \in Ops : <<F(op), F(op2)>> \in Seq(Frame)
  /\ \A op, op2 \in Ops, c \in Clients : <<FC(op, c), F(op2)>> \in Seq(Frame)
  /\ \A c \in Clients, b \in Bufs : <<[op |-> "pushed", c |-> c, b |-> b]>> \in Seq(Frame)
  /\ Wakeup \in Seq(Frame) /\ <<>> \in Seq(Frame)
  /\ \A fs, gs \in Seq(Frame) : fs \o gs \in Seq(Frame)
<1>1. \A op \in Ops : F(op) \in Frame
  BY DEF F, Frame
<1>2. \A op \in Ops, c \in Clients : FC(op, c) \in Frame
  BY DEF FC, Frame
<1>3. \A c \in Clients, b \in Bufs : [op |-> "pushed", c |-> c, b |-> b] \in Frame
  BY DEF Frame, Ops
<1>4. "write?" \in Ops /\ "read?" \in Ops
  BY DEF Ops
<1>5. Wakeup \in Seq(Frame)
  BY <1>1, <1>4, SeqFacts DEF Wakeup
<1> QED BY <1>1, <1>2, <1>3, <1>5, SeqFacts

\* What is left of the stack when its top frame returns.
LEMMA StackFacts ==
  ASSUME TypeOK
  PROVE  /\ stack \in Seq(Frame) /\ ret \in BOOLEAN
         /\ stack # <<>> => Tail(stack) \in Seq(Frame) /\ Top \in Frame
<1>1. stack \in Seq(Frame) /\ ret \in BOOLEAN
  BY DEF TypeOK, StackTypes
<1> QED BY <1>1, SeqFacts DEF Top

\* The top frame turns into others, calls others, or returns.
LEMMA StackSteps ==
  ASSUME TypeOK, ret' \in BOOLEAN
  PROVE  /\ \A fs \in Seq(Frame) : stack # <<>> /\ Become(fs) => StackTypes'
         /\ \A fs \in Seq(Frame) : Call(fs) => StackTypes'
         /\ stack # <<>> /\ Return => StackTypes'
         /\ \A fs \in Seq(Frame) : stack' = fs => StackTypes'
  BY StackFacts, FrameFacts DEF StackTypes, Become, Call, Return

LEMMA ReturnSteps ==
  ASSUME TypeOK, stack # <<>>, NEW v \in BOOLEAN, ReturnWith(v)
  PROVE  StackTypes'
  BY StackSteps DEF ReturnWith

-----------------------------------------------------------------------------
(* The operators that actions share.                                       *)

\* A reference is dropped; the stack may grow by a wakeup.
LEMMA UnrefTypes ==
  ASSUME TypeOK, NEW b, NEW rest \in Seq(Frame), Unref(b, rest),
         UNCHANGED <<serial, ret>>
  PROVE  PoolTypes' /\ StackTypes'
<1>1. PoolTypes'
  <2>1. refs \in [Bufs -> Int] /\ serial \in [Bufs -> Nat]
    BY DEF TypeOK, PoolTypes
  <2>2. refs' = [refs EXCEPT ![b] = refs[b] - 1]
    BY DEF Unref
  <2>3. refs' = [x \in Bufs |-> IF x = b THEN refs[x] - 1 ELSE refs[x]]
    BY <2>1, <2>2
  <2>4. refs' \in [Bufs -> Int]
    BY <2>1, <2>3
  <2> QED BY <2>1, <2>4 DEF PoolTypes
<1>2. stack' \in Seq(Frame)
  BY FrameFacts DEF Unref
<1>3. ret' \in BOOLEAN
  BY StackFacts
<1> QED BY <1>1, <1>2, <1>3 DEF StackTypes

\* An item is pushed to a channel; the stack may grow by the sending of it.
LEMMA PushItemTypes ==
  ASSUME TypeOK, NEW c \in Clients, NEW item \in PipeItem, NEW rest \in Seq(Frame),
         PushItem(c, item, rest), UNCHANGED <<conn, peerTokens, ret>>
  PROVE  ChanTypes' /\ StackTypes'
<1>1. pipe' = [pipe EXCEPT ![c] = Append(@, item)] \/ pipe' = pipe
  BY DEF PushItem
<1>2. pipe' \in [Clients -> Seq(PipeItem)]
  <2>1. pipe \in [Clients -> Seq(PipeItem)]
    BY DEF TypeOK, ChanTypes
  <2>2. Append(pipe[c], item) \in Seq(PipeItem)
    BY <2>1, PipeFacts
  <2> QED BY <1>1, <2>1, <2>2
<1>3. ChanTypes'
  BY <1>2 DEF TypeOK, ChanTypes
<1>4. "flush" \in Ops
  BY DEF Ops
<1>5. stack' \in Seq(Frame)
  BY <1>4, FrameFacts DEF PushItem
<1>6. ret' \in BOOLEAN
  BY StackFacts
<1> QED BY <1>3, <1>5, <1>6 DEF StackTypes

\* A message is handed to the channel of a client.
LEMMA SendMsgTypes ==
  ASSUME TypeOK, NEW c \in Clients, NEW b \in Bufs, NEW rest \in Seq(Frame),
         SendMsg(c, b, rest), UNCHANGED <<conn, peerTokens, serial, ret>>
  PROVE  /\ ChanTypes' /\ StackTypes' /\ PoolTypes'
         /\ handed' \in [Clients -> Nat] /\ credit' \in [Clients -> Int]
<1>1. ChanTypes' /\ StackTypes'
  BY PushItemTypes, PipeFacts DEF SendMsg
<1>2. PoolTypes'
  BY DEF TypeOK, PoolTypes, SendMsg, RefForPipe
<1>3. handed' \in [Clients -> Nat] /\ credit' \in [Clients -> Int]
  BY DEF TypeOK, SendTypes, PoolTypes, SendMsg
<1> QED BY <1>1, <1>2, <1>3

LEMMA SumOfNats == \A x, y \in Nat : x + y \in Nat
  OBVIOUS

\* A write buffer is released; q is what the write queue then is.
LEMMA ReleaseTypes ==
  ASSUME ConstantsOK, TypeOK, NEW buf \in WriteBuf \cup {NoBuf}, NEW q \in Seq(WriteBuf),
         NEW rest \in Seq(Frame), Release(buf, q, rest),
         held' \in Clients \cup {None}, UNCHANGED <<heldAs, started, conn, peerTokens, ret>>
  PROVE  /\ RxTypes' /\ ChanTypes' /\ StackTypes'
         /\ writeQueue' \in Seq(WriteBuf) /\ mouse' \in BOOLEAN
         /\ selfTokens' \in Int /\ writing' \in 0..2
<1> DEFINE f == tokensFree[buf.c] + buf.price
           back == buf.origin = "client" /\ FlowControl
<1>1. /\ tokensFree \in [Clients -> Nat] /\ clientTokens \in [Clients -> Nat]
      /\ started' \in BOOLEAN
      /\ held' \in Clients \cup {None} /\ heldAs' \in {"live", "stale", "orphan"}
  BY DEF TypeOK, RxTypes
<1>2. back => buf.c \in Clients /\ f \in Nat /\ Kept(f) \in Nat
  <2>1. back => buf.c \in Clients
    BY DEF Release, TypeOK, DeviceTypes
  <2>2. buf.price \in Nat
    BY DEF WriteBuf, NoBuf
  <2>3. back => tokensFree[buf.c] \in Nat
    BY <2>1, <1>1
  <2>4. ASSUME back PROVE f \in Nat
    <3>1. tokensFree[buf.c] \in Nat
      BY <2>3, <2>4
    <3> QED BY <2>2, <3>1, SumOfNats
  <2> QED BY <2>1, <2>4 DEF Kept
<1>3. tokensFree' \in [Clients -> Nat]
  BY <1>1, <1>2 DEF Release
<1>4. clientTokens' \in [Clients -> Nat]
  <2>1. CASE back /\ f >= Interval
    <3>1. clientTokens' = [clientTokens EXCEPT ![buf.c] = clientTokens[buf.c] + f]
      BY <2>1 DEF Release
    <3>2. clientTokens[buf.c] \in Nat
      BY <2>1, <1>1, <1>2
    <3>3. f \in Nat
      BY <2>1, <1>2
    <3>4. clientTokens[buf.c] + f \in Nat
      <4> HIDE DEF f
      <4> QED BY <3>2, <3>3, SumOfNats
    <3> HIDE DEF f
    <3> QED BY <3>1, <3>4, <1>1
  <2>2. CASE ~(back /\ f >= Interval)
    BY <2>2, <1>1 DEF Release
  <2> QED BY <2>1, <2>2
<1>5. RxTypes'
  BY <1>1, <1>3, <1>4 DEF RxTypes
<1>6. ChanTypes' /\ StackTypes'
  <2>1. CASE back /\ f >= Interval
    <3>1. PushItem(buf.c, TokensItem(f), rest)
      BY <2>1 DEF Release
    <3>2. TokensItem(f) \in PipeItem
      BY <2>1, <1>2, PipeFacts
    <3> QED BY <3>1, <3>2, <2>1, <1>2, PushItemTypes
  <2>2. CASE ~(back /\ f >= Interval)
    <3>1. pipe' = pipe /\ stack' = rest
      BY <2>2 DEF Release
    <3>2. ChanTypes'
      BY <3>1 DEF TypeOK, ChanTypes
    <3>3. ret' \in BOOLEAN
      BY StackFacts
    <3> QED BY <3>1, <3>2, <3>3 DEF StackTypes
  <2> QED BY <2>1, <2>2
<1>7. writeQueue' \in Seq(WriteBuf)
  BY WriteFacts DEF Release
<1>8. mouse' \in BOOLEAN /\ selfTokens' \in Int /\ writing' \in 0..2
  BY DEF TypeOK, WriteTypes, Release, MouseAgain
<1> QED BY <1>5, <1>6, <1>7, <1>8

\* A client is added with n send tokens.
LEMMA AddClientTypes ==
  ASSUME ConstantsOK, TypeOK, NEW c \in Clients, NEW n \in Int, AddClient(c, n),
         UNCHANGED <<held, heldAs, conn, pipe>>, started' \in BOOLEAN
  PROVE  clients' \subseteq Clients /\ SendTypes' /\ RxTypes' /\ ChanTypes'
<1>1. clients' \subseteq Clients
  BY DEF TypeOK, DeviceTypes, AddClient
<1>2. /\ sendTokens' \in [Clients -> Int] /\ credit' \in [Clients -> Int]
      /\ queueSize' \in [Clients -> Int]
      /\ timer' \in [Clients -> {"off", "armed", "spent"}]
  BY DEF TypeOK, SendTypes, AddClient
<1>3. handed' \in [Clients -> Nat]
  BY DEF TypeOK, SendTypes, ReadTypes, AddClient
<1>4. sendQueue' \in [Clients -> Seq(Bufs)]
  BY SeqFacts DEF TypeOK, SendTypes, AddClient
<1>5. SendTypes'
  BY <1>2, <1>3, <1>4 DEF SendTypes
<1>6. Window \in Nat
  BY DEF ConstantsOK
<1>7. RxTypes'
  BY <1>6 DEF TypeOK, RxTypes, AddClient
<1>8. ChanTypes'
  BY <1>6 DEF TypeOK, ChanTypes, AddClient
<1> QED BY <1>1, <1>5, <1>7, <1>8

\* Tokens come from a client.
LEMMA AbsorbTypes ==
  ASSUME TypeOK, NEW c \in Clients, NEW had \in Int, NEW n \in Int, Absorb(c, had, n)
  PROVE  /\ sendTokens' \in [Clients -> Int] /\ StackTypes'
         /\ UNCHANGED <<sendQueue, queueSize, timer, handed>>
<1>1. sendTokens' \in [Clients -> Int]
  BY DEF Absorb, TypeOK, SendTypes
<1>2. "push" \in Ops /\ "absorb" \in Ops
  BY DEF Ops
<1>3. ret' \in BOOLEAN
  BY StackFacts DEF Absorb
<1>4. (IF queueSize[c] > 0 THEN <<FC("push", c)>> ELSE <<>>) \o <<FC("absorb", c)>>
        \in Seq(Frame)
  BY <1>2, FrameFacts
<1>5. StackTypes'
  BY <1>3, <1>4, StackSteps DEF Absorb
<1> QED BY <1>1, <1>5 DEF Absorb

-----------------------------------------------------------------------------
(* Actions: the main channel.                                              *)

LEMMA FlushSendTypes ==
  ASSUME ConstantsOK, TypeOK, NEW c \in Clients, FlushSend(c)
  PROVE  TypeOK'
<1> DEFINE item == Head(pipe[c])
<1>1. pipe \in [Clients -> Seq(PipeItem)] /\ peerTokens \in [Clients -> Nat]
  BY DEF TypeOK, ChanTypes
<1>2. /\ item \in PipeItem /\ Tail(pipe[c]) \in Seq(PipeItem)
      /\ item.buf \in Bufs \cup {None} /\ item.tokens \in Nat
  BY <1>1, PipeFacts DEF FlushSend
<1>3. ChanTypes'
  <2>1. /\ pipe' = [pipe EXCEPT ![c] = Tail(pipe[c])]
        /\ peerTokens' = [peerTokens EXCEPT ![c] = peerTokens[c] + item.tokens]
        /\ conn' = conn
    BY DEF FlushSend
  <2>2. peerTokens[c] + item.tokens \in Nat
    BY <1>1, <1>2
  <2> HIDE DEF item
  <2> QED BY <1>1, <1>2, <2>1, <2>2 DEF TypeOK, ChanTypes
<1>4. PoolTypes' /\ StackTypes'
  <2>1. CASE item.buf # None
    <3>1. Unref(item.buf, stack) /\ UNCHANGED <<serial, ret>>
      BY <2>1 DEF FlushSend
    <3> QED BY <3>1, StackFacts, UnrefTypes
  <2>2. CASE item.buf = None
    BY <2>2, Keep DEF FlushSend, poolVars
  <2> QED BY <2>1, <2>2
<1> QED BY <1>3, <1>4, Keep DEF TypeOK, FlushSend

LEMMA FlushStopTypes ==
  ASSUME ConstantsOK, TypeOK, NEW c \in Clients, FlushStop(c)
  PROVE  TypeOK'
<1>1. StackTypes'
  BY StackFacts, StackSteps, FrameFacts DEF FlushStop, At
<1> QED BY <1>1, Keep DEF TypeOK, FlushStop

LEMMA FlushFailTypes ==
  ASSUME ConstantsOK, TypeOK, NEW c \in Clients, FlushFail(c)
  PROVE  TypeOK'
<1>1. StackTypes'
  BY StackFacts, StackSteps, FrameFacts DEF FlushFail, At, Ops
<1> QED BY <1>1, Keep DEF TypeOK, FlushFail

LEMMA HangupItemTypes ==
  ASSUME ConstantsOK, TypeOK, NEW c \in Clients, HangupItem(c)
  PROVE  TypeOK'
<1> DEFINE k == Len(pipe[c])
           item == pipe[c][k]
<1>1. pipe \in [Clients -> Seq(PipeItem)]
  BY DEF TypeOK, ChanTypes
<1>2. k \in Nat \ {0} /\ \A i \in 1..k : pipe[c][i] \in PipeItem
  BY <1>1, ElementOfSeq, EmptySeq DEF HangupItem
<1>3. ChanTypes'
  <2>1. SubSeq(pipe[c], 1, k - 1) \in Seq(PipeItem)
    BY <1>2, SubSeqProperties
  <2>2. pipe' = [pipe EXCEPT ![c] = SubSeq(pipe[c], 1, k - 1)] /\ UNCHANGED <<conn, peerTokens>>
    BY DEF HangupItem
  <2> HIDE DEF k
  <2> QED BY <1>1, <2>1, <2>2 DEF TypeOK, ChanTypes
<1>4. PoolTypes' /\ StackTypes'
  <2>1. CASE item.buf # None
    <3>1. Unref(item.buf, stack) /\ UNCHANGED <<serial, ret>>
      BY <2>1 DEF HangupItem
    <3> QED BY <3>1, StackFacts, UnrefTypes
  <2>2. CASE item.buf = None
    BY <2>2, Keep DEF HangupItem, poolVars
  <2> QED BY <2>1, <2>2
<1> QED BY <1>3, <1>4, Keep DEF TypeOK, HangupItem

LEMMA HangupEndTypes ==
  ASSUME ConstantsOK, TypeOK, NEW c \in Clients, HangupEnd(c)
  PROVE  TypeOK'
<1>1. ChanTypes'
  BY PipeFacts DEF TypeOK, ChanTypes, HangupEnd, Top, Linked
<1>2. StackTypes'
  BY StackFacts, StackSteps, FrameFacts DEF HangupEnd, At
<1> QED BY <1>1, <1>2, Keep DEF TypeOK, HangupEnd

LEMMA WritableTypes ==
  ASSUME ConstantsOK, TypeOK, NEW c \in Clients, Writable(c)
  PROVE  TypeOK'
<1>1. StackTypes'
  BY StackFacts, StackSteps, FrameFacts DEF Writable, Ops
<1> QED BY <1>1, Keep DEF TypeOK, Writable

LEMMA PeerClosesTypes ==
  ASSUME ConstantsOK, TypeOK, NEW c \in Clients, PeerCloses(c)
  PROVE  TypeOK'
<1>1. StackTypes'
  BY StackFacts, StackSteps, FrameFacts DEF PeerCloses, Ops
<1> QED BY <1>1, Keep DEF TypeOK, PeerCloses


-----------------------------------------------------------------------------
(* Actions: the read loop.                                                 *)

LEMMA ReadRefusedTypes ==
  ASSUME ConstantsOK, TypeOK, ReadRefused
  PROVE  TypeOK'
<1>1. StackTypes'
  BY StackFacts, ReturnSteps DEF ReadRefused, At
<1> QED BY <1>1, Keep DEF TypeOK, ReadRefused

LEMMA ReadNestedTypes ==
  ASSUME ConstantsOK, TypeOK, ReadNested
  PROVE  TypeOK'
<1>1. ReadTypes'
  BY DEF TypeOK, ReadTypes, ReadNested, InRead, guestVars
<1>2. StackTypes'
  BY StackFacts, ReturnSteps DEF ReadNested, At
<1> QED BY <1>1, <1>2, Keep DEF TypeOK, ReadNested

LEMMA ReadBeginTypes ==
  ASSUME ConstantsOK, TypeOK, ReadBegin
  PROVE  TypeOK'
<1>1. ReadTypes'
  <2>1. max' \in Int
    BY DEF TypeOK, SendTypes, DeviceTypes, ReadBegin
  <2> QED BY <2>1 DEF TypeOK, ReadTypes, ReadBegin, guestVars
<1>2. StackTypes'
  BY StackFacts, StackSteps, FrameFacts DEF ReadBegin, At, Ops
<1> QED BY <1>1, <1>2, Keep DEF TypeOK, ReadBegin

LEMMA ReadMsgTypes ==
  ASSUME ConstantsOK, TypeOK, ReadMsg
  PROVE  TypeOK'
<1>1. PoolTypes'
  <2>1. PICK b \in Bufs : /\ refs' = [refs EXCEPT ![b] = 1]
                          /\ serial' = [serial EXCEPT ![b] = lastRead + 1]
    BY DEF ReadMsg, Free
  <2> QED BY <2>1 DEF TypeOK, PoolTypes, ReadTypes
<1>2. ReadTypes'
  <2>1. msg' \in Bufs /\ msg' # None
    BY DEF ReadMsg, Free, ConstantsOK
  <2>2. todo' \subseteq Clients
    BY DEF ReadMsg, TypeOK, DeviceTypes
  <2> QED BY <2>1, <2>2 DEF TypeOK, ReadTypes, ReadMsg
<1> QED BY <1>1, <1>2, Keep DEF TypeOK, ReadMsg

LEMMA ReadDiscardTypes ==
  ASSUME ConstantsOK, TypeOK, ReadDiscard
  PROVE  TypeOK'
<1>1. ReadTypes'
  BY DEF TypeOK, ReadTypes, ReadDiscard, readLocals
<1>2. StackTypes'
  BY StackFacts, StackSteps, FrameFacts DEF ReadDiscard, At
<1> QED BY <1>1, <1>2, Keep DEF TypeOK, ReadDiscard

LEMMA ReadNothingTypes ==
  ASSUME ConstantsOK, TypeOK, ReadNothing
  PROVE  TypeOK'
<1>1. ReadTypes'
  BY DEF TypeOK, ReadTypes, ReadNothing, GuestWritesIn, readLocals
<1>2. StackTypes'
  BY StackFacts, StackSteps, FrameFacts DEF ReadNothing, GuestWritesIn, At, Ops
<1> QED BY <1>1, <1>2, Keep DEF TypeOK, ReadNothing

LEMMA ReadAgainTypes ==
  ASSUME ConstantsOK, TypeOK, ReadAgain
  PROVE  TypeOK'
<1>1. ReadTypes'
  BY DEF TypeOK, ReadTypes, ReadAgain, guestVars
<1>2. StackTypes'
  BY StackFacts, StackSteps, FrameFacts DEF ReadAgain, At, Ops
<1> QED BY <1>1, <1>2, Keep DEF TypeOK, ReadAgain

LEMMA ReadEndTypes ==
  ASSUME ConstantsOK, TypeOK, ReadEnd
  PROVE  TypeOK'
<1>1. DeviceTypes'
  BY DEF TypeOK, DeviceTypes, ReadEnd
<1>2. ReadTypes'
  <2>1. /\ reading' = 0 /\ max' = 0 /\ didRead' = FALSE
        /\ UNCHANGED <<left, pending, lastRead, msg, todo>>
    BY DEF ReadEnd, guestVars
  <2>2. reading' \in 0..2 /\ max' \in Int
    BY <2>1
  <2>3. didRead' \in BOOLEAN
    BY <2>1
  <2> QED BY <2>1, <2>2, <2>3 DEF TypeOK, ReadTypes
<1>3. StackTypes'
  <2>1. didRead \in BOOLEAN /\ stack # <<>>
    BY DEF TypeOK, ReadTypes, ReadEnd, At
  <2> QED BY <2>1, ReturnSteps DEF ReadEnd
<1> QED BY <1>1, <1>2, <1>3, Keep DEF TypeOK, ReadEnd

LEMMA SendNowTypes ==
  ASSUME ConstantsOK, TypeOK, NEW c \in Clients, SendNow(c)
  PROVE  TypeOK'
<1>1. msg \in Bufs
  BY DEF TypeOK, ReadTypes, SendNow
<1>2. /\ ChanTypes' /\ StackTypes' /\ PoolTypes'
      /\ handed' \in [Clients -> Nat] /\ credit' \in [Clients -> Int]
  BY <1>1, StackFacts, SendMsgTypes DEF SendNow
<1>3. SendTypes'
  <2>1. sendTokens' \in [Clients -> Int]
    BY DEF TypeOK, SendTypes, SendNow
  <2> QED BY <1>2, <2>1 DEF TypeOK, SendTypes, SendNow
<1>4. ReadTypes'
  BY DEF TypeOK, ReadTypes, SendNow, guestVars
<1> QED BY <1>2, <1>3, <1>4, Keep DEF TypeOK, SendNow

LEMMA SendOverflowTypes ==
  ASSUME ConstantsOK, TypeOK, NEW c \in Clients, SendOverflow(c)
  PROVE  TypeOK'
<1>1. ChanTypes'
  BY PipeFacts DEF TypeOK, ChanTypes, SendOverflow, RemoveClient, CanSend
<1>2. ReadTypes'
  BY DEF TypeOK, ReadTypes, SendOverflow, RemoveClient, CanSend, guestVars
<1> QED BY <1>1, <1>2, Keep DEF TypeOK, SendOverflow

LEMMA SendLaterTypes ==
  ASSUME ConstantsOK, TypeOK, NEW c \in Clients, SendLater(c)
  PROVE  TypeOK'
<1>1. msg \in Bufs
  BY DEF TypeOK, ReadTypes, SendLater
<1>2. SendTypes'
  <2>1. sendQueue \in [Clients -> Seq(Bufs)]
    BY DEF TypeOK, SendTypes
  <2>2. Enqueue(sendQueue[c], msg) \in Seq(Bufs)
    BY <1>1, <2>1, SeqFacts DEF Enqueue
  <2>3. sendQueue' = [sendQueue EXCEPT ![c] = Enqueue(sendQueue[c], msg)]
    BY DEF SendLater
  <2>4. sendQueue' \in [Clients -> Seq(Bufs)]
    BY <2>1, <2>2, <2>3
  <2>5. timer' \in [Clients -> {"off", "armed", "spent"}]
    BY DEF TypeOK, SendTypes, SendLater, WatchQueue
  <2>6. queueSize' \in [Clients -> Int]
    BY DEF TypeOK, SendTypes, SendLater
  <2>7. UNCHANGED <<sendTokens, handed, credit>>
    BY DEF SendLater
  <2> QED BY <2>4, <2>5, <2>6, <2>7 DEF TypeOK, SendTypes
<1>3. PoolTypes'
  BY <1>1 DEF TypeOK, PoolTypes, SendLater
<1>4. ReadTypes'
  BY DEF TypeOK, ReadTypes, SendLater, guestVars
<1> QED BY <1>2, <1>3, <1>4, Keep DEF TypeOK, SendLater

LEMMA SendDoneTypes ==
  ASSUME ConstantsOK, TypeOK, SendDone
  PROVE  TypeOK'
<1> USE DEF SendDone, DropMsg
<1>1. PoolTypes' /\ StackTypes'
  BY StackFacts, UnrefTypes
<1>2. ReadTypes'
  BY DEF TypeOK, ReadTypes, guestVars
<1> QED BY <1>1, <1>2, Keep DEF TypeOK


-----------------------------------------------------------------------------
(* Actions: tokens.                                                        *)

LEMMA TokensAddTypes ==
  ASSUME ConstantsOK, TypeOK, NEW c \in Clients, NEW n \in 0..MaxSend, TokensAdd(c, n)
  PROVE  TypeOK'
<1>1. /\ sendTokens' \in [Clients -> Int] /\ StackTypes'
      /\ UNCHANGED <<sendQueue, queueSize, timer, handed>>
  <2>1. Absorb(c, sendTokens[c], n)
    BY DEF TokensAdd
  <2>2. sendTokens[c] \in Int /\ n \in Int
    BY DEF TypeOK, SendTypes
  <2> QED BY <2>1, <2>2, AbsorbTypes
<1>2. SendTypes'
  <2>1. credit' = [credit EXCEPT ![c] = @ + n]
    BY DEF TokensAdd
  <2>2. credit' \in [Clients -> Int]
    BY <2>1 DEF TypeOK, SendTypes
  <2> QED BY <1>1, <2>2 DEF TypeOK, SendTypes
<1>3. RxTypes' /\ ChanTypes'
  BY DEF TypeOK, RxTypes, ChanTypes, TokensAdd, Absorb
<1> QED BY <1>1, <1>2, <1>3, Keep DEF TypeOK, TokensAdd, Absorb

LEMMA TokensSetTypes ==
  ASSUME ConstantsOK, TypeOK, NEW c \in Clients, NEW n \in 0..MaxSend, TokensSet(c, n)
  PROVE  TypeOK'
<1>1. /\ sendTokens' \in [Clients -> Int] /\ StackTypes'
      /\ UNCHANGED <<sendQueue, queueSize, timer, handed>>
  <2>1. Absorb(c, 0, n) /\ 0 \in Int /\ n \in Int
    BY DEF TokensSet
  <2> QED BY <2>1, AbsorbTypes
<1>2. SendTypes'
  <2>1. credit' = [credit EXCEPT ![c] = n]
    BY DEF TokensSet
  <2>2. credit' \in [Clients -> Int]
    BY <2>1 DEF TypeOK, SendTypes
  <2> QED BY <1>1, <2>2 DEF TypeOK, SendTypes
<1>3. RxTypes'
  BY DEF TypeOK, RxTypes, TokensSet, Absorb
<1>4. Window \in Nat
  BY DEF ConstantsOK
<1>5. ChanTypes'
  BY <1>4 DEF TypeOK, ChanTypes, TokensSet, Absorb
<1> QED BY <1>1, <1>2, <1>3, <1>5, Keep DEF TypeOK, TokensSet, Absorb

LEMMA PushOneTypes ==
  ASSUME ConstantsOK, TypeOK, NEW c \in Clients, PushOne(c)
  PROVE  TypeOK'
<1> DEFINE b == Head(sendQueue[c])
           rest == <<[op |-> "pushed", c |-> c, b |-> b]>> \o Tail(stack)
<1>1. sendQueue \in [Clients -> Seq(Bufs)]
  BY DEF TypeOK, SendTypes
<1>2. b \in Bufs /\ Tail(sendQueue[c]) \in Seq(Bufs)
  BY <1>1, SeqFacts DEF PushOne
<1>3. rest \in Seq(Frame)
  BY <1>2, StackFacts, FrameFacts DEF PushOne, At
<1>4. SendMsg(c, b, rest) /\ UNCHANGED <<conn, peerTokens, serial, ret>>
  BY DEF PushOne
<1>5. /\ ChanTypes' /\ StackTypes' /\ PoolTypes'
      /\ handed' \in [Clients -> Nat] /\ credit' \in [Clients -> Int]
  <2> HIDE DEF b, rest
  <2> QED BY <1>2, <1>3, <1>4, SendMsgTypes
<1>6. SendTypes'
  <2>1. sendQueue' \in [Clients -> Seq(Bufs)]
    BY <1>1, <1>2 DEF PushOne
  <2>2. sendTokens' \in [Clients -> Int]
    <3>1. sendTokens \in [Clients -> Int]
      BY DEF TypeOK, SendTypes
    <3> QED BY <3>1 DEF PushOne
  <2>3. UNCHANGED <<queueSize, timer>>
    BY DEF PushOne
  <2> QED BY <1>5, <2>1, <2>2, <2>3 DEF TypeOK, SendTypes
<1> QED BY <1>5, <1>6, Keep DEF TypeOK, PushOne

LEMMA PushUnrefTypes ==
  ASSUME ConstantsOK, TypeOK, NEW c \in Clients, PushUnref(c)
  PROVE  TypeOK'
<1>1. "shrink" \in Ops /\ stack # <<>>
  BY DEF Ops, PushUnref, At
<1>2. <<FC("shrink", c)>> \o Tail(stack) \in Seq(Frame)
  BY <1>1, StackFacts, FrameFacts
<1>3. PoolTypes' /\ StackTypes'
  BY <1>2, UnrefTypes DEF PushUnref
<1> QED BY <1>3, Keep DEF TypeOK, PushUnref

LEMMA PushShrinkTypes ==
  ASSUME ConstantsOK, TypeOK, NEW c \in Clients, PushShrink(c)
  PROVE  TypeOK'
<1>1. SendTypes'
  BY DEF TypeOK, SendTypes, PushShrink, Top
<1>2. StackTypes'
  BY StackFacts, StackSteps, FrameFacts DEF PushShrink, At, Ops
<1> QED BY <1>1, <1>2, Keep DEF TypeOK, PushShrink

LEMMA PushEndTypes ==
  ASSUME ConstantsOK, TypeOK, NEW c \in Clients, PushEnd(c)
  PROVE  TypeOK'
<1>1. StackTypes'
  BY StackFacts, StackSteps, FrameFacts DEF PushEnd, At
<1> QED BY <1>1, Keep DEF TypeOK, PushEnd

LEMMA AbsorbEndTypes ==
  ASSUME ConstantsOK, TypeOK, NEW c \in Clients, AbsorbEnd(c)
  PROVE  TypeOK'
<1>1. SendTypes'
  BY DEF TypeOK, SendTypes, AbsorbEnd, Top, CanSend
<1>2. StackTypes'
  BY StackFacts, StackSteps, FrameFacts DEF AbsorbEnd, At, Ops
<1> QED BY <1>1, <1>2, Keep DEF TypeOK, AbsorbEnd

LEMMA WaitTimeoutTypes ==
  ASSUME ConstantsOK, TypeOK, NEW c \in Clients, WaitTimeout(c)
  PROVE  TypeOK'
<1>1. SendTypes'
  BY DEF TypeOK, SendTypes, WaitTimeout, RemoveClient
<1>2. ChanTypes'
  BY PipeFacts DEF TypeOK, ChanTypes, WaitTimeout, RemoveClient
<1> QED BY <1>1, <1>2, Keep DEF TypeOK, WaitTimeout


-----------------------------------------------------------------------------
(* Actions: the write loop.                                                *)

LEMMA WriteRefusedTypes ==
  ASSUME ConstantsOK, TypeOK, WriteRefused
  PROVE  TypeOK'
<1>1. StackTypes'
  BY StackFacts, ReturnSteps DEF WriteRefused, At
<1> QED BY <1>1, Keep DEF TypeOK, WriteRefused

LEMMA WriteNestedTypes ==
  ASSUME ConstantsOK, TypeOK, WriteNested
  PROVE  TypeOK'
<1>1. WriteTypes'
  BY DEF TypeOK, WriteTypes, WriteNested, InWrite, writeVars
<1>2. StackTypes'
  BY StackFacts, ReturnSteps DEF WriteNested, At
<1> QED BY <1>1, <1>2, Keep DEF TypeOK, WriteNested

LEMMA WriteBeginTypes ==
  ASSUME ConstantsOK, TypeOK, WriteBegin
  PROVE  TypeOK'
<1>1. WriteTypes'
  <2>1. /\ writing' = 1 /\ retry' = FALSE
        /\ UNCHANGED <<writeQueue, cur, selfTokens, mouse, didWrite>>
    BY DEF WriteBegin
  <2>2. writing' \in 0..2
    BY <2>1
  <2>3. retry' \in BOOLEAN
    BY <2>1
  <2>4. UNCHANGED <<writeQueue, cur, selfTokens, mouse, didWrite>>
    BY <2>1
  <2> QED BY <2>2, <2>3, <2>4 DEF TypeOK, WriteTypes
<1>2. StackTypes'
  BY StackFacts, StackSteps, FrameFacts DEF WriteBegin, At, Ops
<1> QED BY <1>1, <1>2, Keep DEF TypeOK, WriteBegin

\* The outcomes of one call of sif->write.
LEMMA WriteSomeTypes ==
  ASSUME ConstantsOK, TypeOK, NEW result \in Ops, WriteSome(result)
  PROVE  TypeOK'
<1>1. WriteTypes'
  <2>1. cur' \in WriteBuf \cup {NoBuf} /\ writeQueue' \in Seq(WriteBuf)
    BY WriteFacts DEF TypeOK, WriteTypes, WriteSome, MayWrite
  <2> QED BY <2>1 DEF TypeOK, WriteTypes, WriteSome
<1>2. StackTypes'
  <2>1. PICK nested \in {<<>>, Wakeup} : Become(nested \o <<F(result)>>)
    BY DEF WriteSome
  <2>2. nested \o <<F(result)>> \in Seq(Frame)
    BY FrameFacts
  <2>3. stack # <<>> /\ ret' \in BOOLEAN
    BY StackFacts DEF WriteSome, At
  <2> QED BY <2>1, <2>2, <2>3, StackSteps
<1> QED BY <1>1, <1>2, Keep DEF TypeOK, WriteSome

LEMMA WriteCallTypes ==
  ASSUME ConstantsOK, TypeOK, WriteAll \/ WritePart \/ WriteNone
  PROVE  TypeOK'
<1>1. {"wrote", "write", "wrote0"} \subseteq Ops
  BY DEF Ops
<1> QED BY <1>1, WriteSomeTypes DEF WriteAll, WritePart, WriteNone





LEMMA WriteReleaseTypes ==
  ASSUME ConstantsOK, TypeOK, WriteRelease
  PROVE  TypeOK'
<1> DEFINE rest == <<F("write")>> \o Tail(stack)
<1>1. cur \in WriteBuf \cup {NoBuf} /\ writeQueue \in Seq(WriteBuf)
  BY DEF TypeOK, WriteTypes
<1>2. "write" \in Ops /\ stack # <<>>
  BY DEF Ops, WriteRelease, At
<1>3. rest \in Seq(Frame)
  BY <1>2, StackFacts, FrameFacts
<1>4. Release(cur, writeQueue, rest)
  BY DEF WriteRelease
<1>5. /\ RxTypes' /\ ChanTypes' /\ StackTypes'
      /\ writeQueue' \in Seq(WriteBuf) /\ mouse' \in BOOLEAN
      /\ selfTokens' \in Int /\ writing' \in 0..2
  <2> HIDE DEF rest
  <2>1. held' \in Clients \cup {None}
    BY DEF TypeOK, RxTypes, WriteRelease
  <2> QED BY <1>1, <1>3, <1>4, <2>1, ReleaseTypes DEF WriteRelease
<1>6. WriteTypes'
  BY <1>5 DEF TypeOK, WriteTypes, WriteRelease
<1> QED BY <1>5, <1>6, Keep DEF TypeOK, WriteRelease

LEMMA WriteAgainTypes ==
  ASSUME ConstantsOK, TypeOK, WriteAgain
  PROVE  TypeOK'
<1>1. WriteTypes'
  BY DEF TypeOK, WriteTypes, WriteAgain, writeVars
<1>2. StackTypes'
  BY StackFacts, StackSteps, FrameFacts DEF WriteAgain, At, Ops
<1> QED BY <1>1, <1>2, Keep DEF TypeOK, WriteAgain

LEMMA WriteEndTypes ==
  ASSUME ConstantsOK, TypeOK, WriteEnd
  PROVE  TypeOK'
<1>1. DeviceTypes'
  BY DEF TypeOK, DeviceTypes, WriteEnd, NeedsRetry
<1>2. WriteTypes'
  <2>1. /\ writing' = 0 /\ didWrite' = FALSE
        /\ UNCHANGED <<writeQueue, cur, selfTokens, mouse>>
    BY DEF WriteEnd
  <2>2. retry' \in BOOLEAN
    BY DEF WriteEnd, NeedsRetry, TypeOK, WriteTypes
  <2>3. writing' \in 0..2
    BY <2>1
  <2>4. didWrite' \in BOOLEAN
    BY <2>1
  <2>5. UNCHANGED <<writeQueue, cur, selfTokens, mouse>>
    BY <2>1
  <2> QED BY <2>2, <2>3, <2>4, <2>5 DEF TypeOK, WriteTypes
<1>3. StackTypes'
  <2>1. didWrite \in BOOLEAN /\ stack # <<>>
    BY DEF TypeOK, WriteTypes, WriteEnd, At
  <2> QED BY <2>1, ReturnSteps DEF WriteEnd
<1> QED BY <1>1, <1>2, <1>3, Keep DEF TypeOK, WriteEnd

LEMMA WriteRetryTypes ==
  ASSUME ConstantsOK, TypeOK, WriteRetry
  PROVE  TypeOK'
<1>1. WriteTypes'
  BY WriteFacts DEF TypeOK, WriteTypes, WriteRetry, writeLocals
<1>2. StackTypes'
  BY StackFacts, StackSteps, FrameFacts DEF WriteRetry, Ops
<1> QED BY <1>1, <1>2, Keep DEF TypeOK, WriteRetry


-----------------------------------------------------------------------------
(* Actions: buffers.                                                       *)

LEMMA BufGetTypes ==
  ASSUME ConstantsOK, TypeOK, NEW c \in Clients, BufGet(c)
  PROVE  TypeOK'
<1>1. RxTypes'
  <2>1. clientTokens' \in [Clients -> Nat]
    <3>1. CASE FlowControl
      <4>1. clientTokens[c] > 0 /\ clientTokens' = [clientTokens EXCEPT ![c] = clientTokens[c] - 1]
        BY <3>1 DEF BufGet
      <4> QED BY <4>1 DEF TypeOK, RxTypes
    <3>2. CASE ~FlowControl
      BY <3>2 DEF BufGet, TypeOK, RxTypes
    <3> QED BY <3>1, <3>2
  <2> QED BY <2>1 DEF TypeOK, RxTypes, BufGet
<1>2. ChanTypes'
  <2>1. peerTokens' \in [Clients -> Nat]
    <3>1. CASE FlowControl
      <4>1. peerTokens[c] > 0 /\ peerTokens' = [peerTokens EXCEPT ![c] = peerTokens[c] - 1]
        BY <3>1 DEF BufGet
      <4> QED BY <4>1 DEF TypeOK, ChanTypes
    <3>2. CASE ~FlowControl
      BY <3>2 DEF BufGet, TypeOK, ChanTypes
    <3> QED BY <3>1, <3>2
  <2> QED BY <2>1 DEF TypeOK, ChanTypes, BufGet
<1> QED BY <1>1, <1>2, Keep DEF TypeOK, BufGet

LEMMA BufStaleTypes ==
  ASSUME ConstantsOK, TypeOK, NEW c \in Clients, BufStale(c)
  PROVE  TypeOK'
<1>1. ChanTypes'
  BY PipeFacts DEF TypeOK, ChanTypes, BufStale, Receiving
<1> QED BY <1>1, Keep DEF TypeOK, BufStale

LEMMA BufAddTypes ==
  ASSUME ConstantsOK, TypeOK, NEW c \in Clients, BufAdd(c)
  PROVE  TypeOK'
<1>1. WriteTypes'
  BY WriteFacts DEF TypeOK, WriteTypes, BufAdd, Receiving, writeLocals
<1>2. RxTypes'
  BY DEF TypeOK, RxTypes, BufAdd, Receiving
<1>3. StackTypes'
  BY StackFacts, StackSteps, FrameFacts DEF BufAdd, Ops
<1> QED BY <1>1, <1>2, <1>3, Keep DEF TypeOK, BufAdd

LEMMA BufGiveBackTypes ==
  ASSUME ConstantsOK, TypeOK, NEW c \in Clients, BufGiveBack(c)
  PROVE  TypeOK'
<1>1. UNCHANGED <<cur, retry, didWrite, heldAs, started, conn, peerTokens, ret>>
  BY DEF BufGiveBack
<1>2. held' = None
  BY DEF BufGiveBack
<1>3. /\ RxTypes' /\ ChanTypes' /\ StackTypes'
      /\ writeQueue' \in Seq(WriteBuf) /\ mouse' \in BOOLEAN
      /\ selfTokens' \in Int /\ writing' \in 0..2
  <2>1. CASE exists
    <3>1. Release(ClientBuf(c, 1), writeQueue, <<>>)
      BY <2>1 DEF BufGiveBack
    <3>2. /\ ClientBuf(c, 1) \in WriteBuf /\ writeQueue \in Seq(WriteBuf)
          /\ <<>> \in Seq(Frame)
      BY WriteFacts, FrameFacts DEF TypeOK, WriteTypes
    <3>3. held' \in Clients \cup {None}
      BY <1>2
    <3> QED BY <1>1, <3>1, <3>2, <3>3, ReleaseTypes
  <2>2. CASE ~exists
    <3>1. UNCHANGED <<clientTokens, tokensFree, pipe, selfTokens, mouse, writeQueue,
                      writing, stack>>
      BY <2>2 DEF BufGiveBack
    <3> QED BY <1>1, <1>2, <3>1
        DEF TypeOK, RxTypes, ChanTypes, StackTypes, WriteTypes
  <2> QED BY <2>1, <2>2
<1>4. WriteTypes'
  BY <1>1, <1>3 DEF TypeOK, WriteTypes
<1> QED BY <1>3, <1>4, Keep DEF TypeOK, BufGiveBack

LEMMA MouseEventTypes ==
  ASSUME ConstantsOK, TypeOK, MouseEvent
  PROVE  TypeOK'
<1>1. WriteTypes'
  <2>1. writeQueue' \in Seq(WriteBuf)
    BY WriteFacts DEF TypeOK, WriteTypes, MouseEvent
  <2>2. mouse' \in BOOLEAN
    BY DEF MouseEvent
  <2>3. selfTokens' \in Int /\ UNCHANGED <<cur, retry, writing, didWrite>>
    BY DEF TypeOK, WriteTypes, MouseEvent, writeLocals
  <2> QED BY <2>1, <2>2, <2>3 DEF TypeOK, WriteTypes
<1>2. StackTypes'
  BY StackFacts, StackSteps, FrameFacts DEF MouseEvent, Ops
<1> QED BY <1>1, <1>2, Keep DEF TypeOK, MouseEvent


-----------------------------------------------------------------------------
(* Actions: clients.                                                       *)

LEMMA ConnectTypes ==
  ASSUME ConstantsOK, TypeOK, NEW c \in Clients, Connect(c)
  PROVE  TypeOK'
<1>1. ChanTypes'
  BY PipeFacts DEF TypeOK, ChanTypes, Connect
<1> QED BY <1>1, Keep DEF TypeOK, Connect

LEMMA ClientAddTypes ==
  ASSUME ConstantsOK, TypeOK, NEW c \in Clients, NEW n \in 0..MaxSend, ClientAdd(c, n)
  PROVE  TypeOK'
<1>1. /\ AddClient(c, n) /\ UNCHANGED <<held, heldAs, conn, pipe, ret>>
      /\ started' = TRUE /\ waitMig' = FALSE /\ Call(Wakeup)
  BY DEF ClientAdd
<1>2. clients' \subseteq Clients /\ SendTypes' /\ RxTypes' /\ ChanTypes'
  BY <1>1, AddClientTypes
<1>3. DeviceTypes'
  BY <1>1, <1>2 DEF TypeOK, DeviceTypes, ClientAdd
<1>4. StackTypes'
  BY <1>1, StackFacts, FrameFacts, StackSteps
<1> QED BY <1>2, <1>3, <1>4, Keep DEF TypeOK, ClientAdd

LEMMA ClientDisconnectTypes ==
  ASSUME ConstantsOK, TypeOK, NEW c \in Clients, ClientDisconnect(c)
  PROVE  TypeOK'
<1>1. StackTypes'
  BY StackFacts, StackSteps, FrameFacts DEF ClientDisconnect, Ops
<1> QED BY <1>1, Keep DEF TypeOK, ClientDisconnect

LEMMA FreeQueuedTypes ==
  ASSUME ConstantsOK, TypeOK, NEW c \in Clients, FreeQueued(c)
  PROVE  TypeOK'
<1>1. sendQueue \in [Clients -> Seq(Bufs)]
  BY DEF TypeOK, SendTypes
<1>2. Tail(sendQueue[c]) \in Seq(Bufs)
  BY <1>1, SeqFacts DEF FreeQueued
<1>3. SendTypes'
  <2>1. sendQueue' \in [Clients -> Seq(Bufs)]
    BY <1>1, <1>2 DEF FreeQueued
  <2>2. timer' \in [Clients -> {"off", "armed", "spent"}]
    BY DEF TypeOK, SendTypes, FreeQueued
  <2> QED BY <2>1, <2>2 DEF TypeOK, SendTypes, FreeQueued
<1>4. PoolTypes' /\ StackTypes'
  BY StackFacts, UnrefTypes DEF FreeQueued
<1> QED BY <1>3, <1>4, Keep DEF TypeOK, FreeQueued

LEMMA FreeWrittenTypes ==
  ASSUME ConstantsOK, TypeOK, NEW c \in Clients, FreeWritten(c)
  PROVE  TypeOK'
<1>1. WriteTypes'
  <2>1. PICK i \in DOMAIN writeQueue :
          writeQueue' = SubSeq(writeQueue, 1, i - 1)
                          \o SubSeq(writeQueue, i + 1, Len(writeQueue))
    BY DEF FreeWritten
  <2>2. writeQueue \in Seq(WriteBuf)
    BY DEF TypeOK, WriteTypes
  <2>3. /\ Len(writeQueue) \in Nat /\ i \in 1..Len(writeQueue)
        /\ \A j \in 1..Len(writeQueue) : writeQueue[j] \in WriteBuf
    BY <2>1, <2>2, LenProperties, ElementOfSeq
  <2>4. SubSeq(writeQueue, 1, i - 1) \in Seq(WriteBuf)
    BY <2>3, SubSeqProperties
  <2>5. SubSeq(writeQueue, i + 1, Len(writeQueue)) \in Seq(WriteBuf)
    BY <2>3, SubSeqProperties
  <2>6. writeQueue' \in Seq(WriteBuf)
    BY <2>1, <2>4, <2>5, WriteFacts
  <2>7. UNCHANGED <<cur, retry, selfTokens, mouse, writing, didWrite>>
    BY DEF FreeWritten, writeLocals
  <2> QED BY <2>6, <2>7 DEF TypeOK, WriteTypes
<1> QED BY <1>1, Keep DEF TypeOK, FreeWritten

LEMMA FreeEndTypes ==
  ASSUME ConstantsOK, TypeOK, NEW c \in Clients, FreeEnd(c)
  PROVE  TypeOK'
<1>1. DeviceTypes'
  BY DEF TypeOK, DeviceTypes, FreeEnd, Top, Owns, deviceVars
<1>2. WriteTypes'
  BY WriteFacts DEF TypeOK, WriteTypes, FreeEnd, Top, Owns, writeLocals
<1>3. SendTypes'
  BY DEF TypeOK, SendTypes, FreeEnd, Top, Owns
<1>4. StackTypes'
  BY StackFacts, StackSteps, FrameFacts DEF FreeEnd, At
<1> QED BY <1>1, <1>2, <1>3, <1>4, Keep DEF TypeOK, FreeEnd

LEMMA RemovedEndTypes ==
  ASSUME ConstantsOK, TypeOK, RemovedEnd
  PROVE  TypeOK'
<1>1. DeviceTypes'
  BY DEF TypeOK, DeviceTypes, RemovedEnd, EndWait
<1>2. StackTypes'
  BY StackFacts, StackSteps, FrameFacts DEF RemovedEnd, EndWait, At, Ops
<1> QED BY <1>1, <1>2, Keep DEF TypeOK, RemovedEnd

LEMMA GoneTypes ==
  ASSUME ConstantsOK, TypeOK, NEW c \in Clients, Gone(c)
  PROVE  TypeOK'
<1>1. WriteTypes'
  BY WriteFacts DEF TypeOK, WriteTypes, Gone, Top, writeLocals
<1>2. RxTypes'
  BY DEF TypeOK, RxTypes, Gone, Top
<1>3. ChanTypes'
  BY PipeFacts DEF TypeOK, ChanTypes, Gone, Top
<1>4. StackTypes'
  BY StackFacts, StackSteps, FrameFacts DEF Gone, At, Ops
<1> QED BY <1>1, <1>2, <1>3, <1>4, Keep DEF TypeOK, Gone


-----------------------------------------------------------------------------
(* Actions: device.                                                        *)

LEMMA AttachTypes ==
  ASSUME ConstantsOK, TypeOK, NEW c \in Clients \cup {None}, NEW vm \in BOOLEAN,
         Attach(c, vm)
  PROVE  TypeOK'
<1>1. UNCHANGED <<mouse, held, heldAs, started, conn, pipe, writing, didWrite, ret>>
  BY DEF Attach, writeLocals
<1>2. /\ clients' \subseteq Clients /\ SendTypes' /\ RxTypes' /\ ChanTypes'
  <2>1. CASE c \in clients \cup {None}
    <3>1. UNCHANGED <<clients, sendVars, clientTokens, tokensFree, peerTokens>>
      BY <2>1 DEF Attach
    <3> QED BY <1>1, <3>1, Keep DEF TypeOK, DeviceTypes, rxVars, chanVars
  <2>2. CASE c \notin clients \cup {None}
    <3>1. AddClient(c, MaxSend)
      BY <2>2 DEF Attach
    <3>2. c \in Clients /\ MaxSend \in Int /\ started' \in BOOLEAN
      BY <2>2, <1>1 DEF ConstantsOK, TypeOK, RxTypes
    <3> QED BY <1>1, <3>1, <3>2, AddClientTypes
  <2> QED BY <2>1, <2>2
<1>3. DeviceTypes'
  <2>1. active' \in BOOLEAN /\ waitMig' \in BOOLEAN
    BY DEF TypeOK, DeviceTypes, Attach
  <2> QED BY <1>2, <2>1 DEF DeviceTypes, Attach
<1>4. WriteTypes'
  <2>1. /\ writeQueue' \in Seq(WriteBuf) /\ cur' \in WriteBuf \cup {NoBuf}
        /\ retry' \in BOOLEAN /\ selfTokens' \in Int
    <3>1. CASE exists
      BY <3>1 DEF TypeOK, WriteTypes, Attach
    <3>2. CASE ~exists
      <4>1. writeQueue' = <<>> /\ cur' = NoBuf /\ selfTokens' = SelfTokens
        BY <3>2 DEF Attach
      <4>2. retry' \in BOOLEAN
        BY <3>2 DEF Attach
      <4> QED BY <4>1, <4>2, WriteFacts DEF ConstantsOK
    <3> QED BY <3>1, <3>2
  <2> QED BY <1>1, <2>1 DEF TypeOK, WriteTypes
<1>5. StackTypes'
  <2>1. stack' = <<F("start")>> \/ stack' = <<>>
    BY DEF Attach
  <2>2. "start" \in Ops
    BY DEF Ops
  <2> QED BY <1>1, <2>1, <2>2, StackFacts, FrameFacts, StackSteps
<1> QED BY <1>2, <1>3, <1>4, <1>5, Keep DEF TypeOK, Attach

LEMMA StartTypes ==
  ASSUME ConstantsOK, TypeOK, Start
  PROVE  TypeOK'
<1>1. DeviceTypes'
  BY DEF TypeOK, DeviceTypes, Start
<1>2. StackTypes'
  BY StackFacts, StackSteps, FrameFacts DEF Start, Ops
<1> QED BY <1>1, <1>2, Keep DEF TypeOK, Start

LEMMA StartLoopTypes ==
  ASSUME ConstantsOK, TypeOK, StartLoop
  PROVE  TypeOK'
<1>1. StackTypes'
  BY StackFacts, StackSteps, FrameFacts DEF StartLoop, At, Ops
<1> QED BY <1>1, Keep DEF TypeOK, StartLoop

LEMMA StopTypes ==
  ASSUME ConstantsOK, TypeOK, Stop
  PROVE  TypeOK'
<1>1. DeviceTypes'
  BY DEF TypeOK, DeviceTypes, Stop
<1>2. WriteTypes'
  BY WriteFacts DEF TypeOK, WriteTypes, Stop, writeLocals
<1> QED BY <1>1, <1>2, Keep DEF TypeOK, Stop

LEMMA DetachTypes ==
  ASSUME ConstantsOK, TypeOK, Detach
  PROVE  TypeOK'
<1>1. DeviceTypes'
  BY DEF TypeOK, DeviceTypes, Detach, Linked
<1>2. WriteTypes'
  BY WriteFacts DEF TypeOK, WriteTypes, Detach, Linked, writeLocals
<1>3. RxTypes'
  BY DEF TypeOK, RxTypes, Detach, Linked
<1>4. ChanTypes'
  BY PipeFacts DEF TypeOK, ChanTypes, Detach, Linked
<1>5. StackTypes'
  BY StackFacts, StackSteps, FrameFacts DEF Detach, Ops
<1> QED BY <1>1, <1>2, <1>3, <1>4, <1>5, Keep DEF TypeOK, Detach

LEMMA DestroyTypes ==
  ASSUME ConstantsOK, TypeOK, Destroy
  PROVE  TypeOK'
<1>1. DeviceTypes'
  BY DEF TypeOK, DeviceTypes, Destroy
<1>2. StackTypes'
  <2>1. "free" \in Ops /\ stack # <<>> /\ ret' \in BOOLEAN
    BY StackFacts DEF Ops, Destroy, At
  <2>2. \A c \in clients : <<FC("free", c)>> \in Seq(Frame)
    BY <2>1, FrameFacts DEF TypeOK, DeviceTypes
  <2> QED BY <2>1, <2>2, StackSteps DEF Destroy
<1> QED BY <1>1, <1>2, Keep DEF TypeOK, Destroy

LEMMA ResetReleaseTypes ==
  ASSUME ConstantsOK, TypeOK, ResetRelease
  PROVE  TypeOK'
<1> DEFINE rest == <<F("reset2")>> \o Tail(stack)
<1>1. /\ writeQueue \in Seq(WriteBuf) /\ cur \in WriteBuf \cup {NoBuf}
      /\ writeQueue # <<>> => /\ Head(writeQueue) \in WriteBuf
                              /\ Tail(writeQueue) \in Seq(WriteBuf)
  BY WriteFacts DEF TypeOK, WriteTypes
<1>2. "reset2" \in Ops /\ stack # <<>>
  BY DEF Ops, ResetRelease, At
<1>3. rest \in Seq(Frame) /\ stack \in Seq(Frame)
  BY <1>2, StackFacts, FrameFacts
<1>4. /\ UNCHANGED <<heldAs, started, conn, peerTokens, ret, retry, didWrite>>
      /\ held' \in Clients \cup {None}
  BY DEF TypeOK, RxTypes, ResetRelease
<1>5. cur' \in WriteBuf \cup {NoBuf}
  BY <1>1 DEF ResetRelease
<1>6. /\ RxTypes' /\ ChanTypes' /\ StackTypes'
      /\ writeQueue' \in Seq(WriteBuf) /\ mouse' \in BOOLEAN
      /\ selfTokens' \in Int /\ writing' \in 0..2
  <2>1. CASE writeQueue # <<>>
    <3>1. Release(Head(writeQueue), Tail(writeQueue), stack)
      BY <2>1 DEF ResetRelease
    <3> QED BY <1>1, <1>3, <1>4, <2>1, <3>1, ReleaseTypes
  <2>2. CASE writeQueue = <<>> /\ cur # NoBuf
    <3>1. Release(cur, writeQueue, rest)
      BY <2>2 DEF ResetRelease
    <3> HIDE DEF rest
    <3> QED BY <1>1, <1>3, <1>4, <3>1, ReleaseTypes
  <2>3. CASE writeQueue = <<>> /\ cur = NoBuf
    <3>1. /\ stack' = rest
          /\ UNCHANGED <<clientTokens, tokensFree, pipe, selfTokens, mouse, writeQueue, writing>>
      BY <2>3 DEF ResetRelease, Become
    <3>2. StackTypes'
      BY <1>3, <1>4, <3>1, StackFacts DEF StackTypes
    <3> QED BY <1>4, <3>1, <3>2 DEF TypeOK, RxTypes, ChanTypes, WriteTypes
  <2> QED BY <2>1, <2>2, <2>3
<1>7. WriteTypes'
  BY <1>4, <1>5, <1>6 DEF TypeOK, WriteTypes
<1> QED BY <1>6, <1>7, Keep DEF TypeOK, ResetRelease

LEMMA QueuePlaces ==
  ASSUME TypeOK, NEW b, NEW cs \in SUBSET Clients
  PROVE  InQueues(b, cs) = Places(sendQueue, cs, {b})
<1>1. \A c \in cs : {i \in DOMAIN sendQueue[c] : sendQueue[c][i] = b} = Hits(sendQueue[c], {b})
  BY LenProperties DEF Hits, TypeOK, SendTypes
<1>2. {{c} \X {i \in DOMAIN sendQueue[c] : sendQueue[c][i] = b} : c \in cs}
        = {{c} \X Hits(sendQueue[c], {b}) : c \in cs}
  BY <1>1
<1> QED BY <1>2 DEF InQueues, Places

LEMMA ResetQueuesTypes ==
  ASSUME ConstantsOK, TypeOK, ResetQueues
  PROVE  TypeOK'
<1>1. DeviceTypes'
  BY DEF TypeOK, DeviceTypes, ResetQueues
<1>2. SendTypes'
  <2>1. handed' = [c \in Clients |-> IF c \in clients THEN lastRead ELSE handed[c]]
    BY DEF ResetQueues
  <2>2. lastRead \in Nat /\ handed \in [Clients -> Nat]
    BY DEF TypeOK, ReadTypes, SendTypes
  <2>3. handed' \in [Clients -> Nat]
    BY <2>1, <2>2
  <2> QED BY <2>3 DEF TypeOK, SendTypes, ResetQueues
<1>3. PoolTypes'
  <2>1. ASSUME NEW b \in Bufs PROVE Cardinality(InQueues(b, clients)) \in Nat
    <3>1. /\ clients \subseteq Clients /\ IsFiniteSet(clients)
          /\ \A c \in clients : sendQueue[c] \in Seq(Bufs)
      BY FS_Subset DEF ConstantsOK, TypeOK, DeviceTypes, SendTypes
    <3>2. InQueues(b, clients) = Places(sendQueue, clients, {b})
      BY <3>1, QueuePlaces
    <3>3. IsFiniteSet(clients) /\ \A c \in clients : sendQueue[c] \in Seq(Bufs)
      BY <3>1
    <3>4. Cardinality(Places(sendQueue, clients, {b})) \in Nat
      BY <3>3, PlacesTypes
    <3> QED BY <3>2, <3>4
  <2>2. refs' = [b \in Bufs |-> refs[b] - Cardinality(InQueues(b, clients))] /\ serial' = serial
    BY DEF ResetQueues
  <2> QED BY <2>1, <2>2 DEF TypeOK, PoolTypes
<1>4. StackTypes'
  BY StackFacts, StackSteps, FrameFacts DEF ResetQueues, At
<1> QED BY <1>1, <1>2, <1>3, <1>4, Keep DEF TypeOK, ResetQueues

LEMMA RestoreTypes ==
  ASSUME ConstantsOK, TypeOK, NEW c \in Clients, NEW n \in 0..Window, NEW w \in 0..Window,
         NEW t \in 0..MaxSend, NEW data \in BOOLEAN, Restore(c, n, w, t, data)
  PROVE  TypeOK'
<1>1. DeviceTypes'
  BY DEF TypeOK, DeviceTypes, Restore
<1>2. WriteTypes'
  BY WriteFacts DEF TypeOK, WriteTypes, Restore, writeLocals
<1>3. SendTypes'
  <2>1. sendTokens' = [sendTokens EXCEPT ![c] = t] /\ credit' = [credit EXCEPT ![c] = t]
    BY DEF Restore
  <2>2. t \in Int
    BY DEF ConstantsOK
  <2>3. UNCHANGED <<sendQueue, queueSize, timer, handed>>
    BY DEF Restore
  <2>4. sendTokens' \in [Clients -> Int] /\ credit' \in [Clients -> Int]
    BY <2>1, <2>2 DEF TypeOK, SendTypes
  <2> QED BY <2>3, <2>4 DEF TypeOK, SendTypes
<1>4. RxTypes'
  <2>1. /\ clientTokens' = [clientTokens EXCEPT ![c] = n]
        /\ tokensFree' = [tokensFree EXCEPT ![c] = Window - n - w]
        /\ started' = TRUE /\ UNCHANGED <<held, heldAs>>
    BY DEF Restore
  <2>2. n \in Nat /\ Window - n - w \in Nat
    BY DEF Restore, ConstantsOK
  <2> QED BY <2>1, <2>2 DEF TypeOK, RxTypes
<1>5. ChanTypes'
  <2>1. /\ conn' = [conn EXCEPT ![c] = "open"]
        /\ peerTokens' = [peerTokens EXCEPT ![c] = n] /\ pipe' = pipe
    BY DEF Restore
  <2>2. n \in Nat
    BY DEF ConstantsOK
  <2> QED BY <2>1, <2>2 DEF TypeOK, ChanTypes
<1>6. StackTypes'
  BY StackFacts, StackSteps, FrameFacts DEF Restore
<1> QED BY <1>1, <1>2, <1>3, <1>4, <1>5, <1>6, Keep DEF TypeOK, Restore

LEMMA RestoreLateTypes ==
  ASSUME ConstantsOK, TypeOK, NEW c \in Clients, RestoreLate(c)
  PROVE  TypeOK'
<1>1. ChanTypes'
  BY PipeFacts DEF TypeOK, ChanTypes, RestoreLate
<1> QED BY <1>1, Keep DEF TypeOK, RestoreLate

LEMMA RestoreNoneTypes ==
  ASSUME ConstantsOK, TypeOK, NEW c \in Clients, RestoreNone(c)
  PROVE  TypeOK'
<1>1. ChanTypes'
  BY PipeFacts DEF TypeOK, ChanTypes, RestoreNone, Waiting
<1>2. StackTypes'
  BY StackFacts, StackSteps, FrameFacts DEF RestoreNone, Ops
<1> QED BY <1>1, <1>2, Keep DEF TypeOK, RestoreNone

LEMMA GuestWritesTypes ==
  ASSUME ConstantsOK, TypeOK, GuestWrites
  PROVE  TypeOK'
<1>1. ReadTypes'
  BY DEF TypeOK, ReadTypes, GuestWrites, readLocals
<1>2. StackTypes'
  BY StackFacts, StackSteps, FrameFacts DEF GuestWrites
<1> QED BY <1>1, <1>2, Keep DEF TypeOK, GuestWrites


-----------------------------------------------------------------------------
(* Type correctness.                                                       *)

LEMMA ReadingTypes ==
  ASSUME ConstantsOK, TypeOK, Reading
  PROVE  TypeOK'
<1>1. CASE \E c \in Clients : SendNow(c) \/ SendOverflow(c) \/ SendLater(c)
  BY <1>1, SendNowTypes, SendOverflowTypes, SendLaterTypes
<1>2. CASE ~\E c \in Clients : SendNow(c) \/ SendOverflow(c) \/ SendLater(c)
  BY <1>2, ReadRefusedTypes, ReadNestedTypes, ReadBeginTypes, ReadMsgTypes,
     ReadDiscardTypes, ReadNothingTypes, ReadAgainTypes, ReadEndTypes, SendDoneTypes
  DEF Reading
<1> QED BY <1>1, <1>2

LEMMA WritingTypes ==
  ASSUME ConstantsOK, TypeOK, Writing
  PROVE  TypeOK'
  BY WriteRefusedTypes, WriteNestedTypes, WriteBeginTypes, WriteCallTypes,
     WriteReleaseTypes, WriteAgainTypes, WriteEndTypes
  DEF Writing

LEMMA RunningTypes ==
  ASSUME ConstantsOK, TypeOK, Running
  PROVE  TypeOK'
<1>1. CASE \E c \in Clients : Channel(c) \/ Pushing(c) \/ Removing(c)
  <2>1. PICK c \in Clients : Channel(c) \/ Pushing(c) \/ Removing(c)
    BY <1>1
  <2>2. CASE Channel(c)
    BY <2>2, FlushSendTypes, FlushStopTypes, FlushFailTypes, HangupItemTypes,
       HangupEndTypes DEF Channel
  <2>3. CASE Pushing(c)
    BY <2>3, PushOneTypes, PushUnrefTypes, PushShrinkTypes, PushEndTypes,
       AbsorbEndTypes DEF Pushing
  <2>4. CASE Removing(c)
    BY <2>4, FreeQueuedTypes, FreeWrittenTypes, FreeEndTypes, GoneTypes DEF Removing
  <2> QED BY <2>1, <2>2, <2>3, <2>4
<1>2. CASE Reading \/ Writing
  BY <1>2, ReadingTypes, WritingTypes
<1>3. CASE RemovedEnd \/ StartLoop \/ Destroy \/ ResetRelease \/ ResetQueues
  BY <1>3, RemovedEndTypes, StartLoopTypes, DestroyTypes, ResetReleaseTypes,
     ResetQueuesTypes
<1> QED BY <1>1, <1>2, <1>3 DEF Running

LEMMA ClientTypes ==
  ASSUME ConstantsOK, TypeOK, NEW c \in Clients, FromClient(c) \/ FromServer(c)
  PROVE  TypeOK'
<1>1. CASE FromServer(c)
  BY <1>1, WritableTypes, WaitTimeoutTypes, BufAddTypes, BufGiveBackTypes DEF FromServer
<1>2. CASE \E n \in 0..MaxSend : ClientAdd(c, n) \/ TokensSet(c, n) \/ TokensAdd(c, n)
  BY <1>2, ClientAddTypes, TokensSetTypes, TokensAddTypes
<1>3. CASE \/ Connect(c) \/ ClientDisconnect(c) \/ PeerCloses(c) \/ BufGet(c)
           \/ BufStale(c) \/ RestoreLate(c) \/ RestoreNone(c)
  BY <1>3, ConnectTypes, ClientDisconnectTypes, PeerClosesTypes, BufGetTypes,
     BufStaleTypes, RestoreLateTypes, RestoreNoneTypes
<1> QED BY <1>1, <1>2, <1>3 DEF FromClient

LEMMA VMTypes ==
  ASSUME ConstantsOK, TypeOK, FromVM
  PROVE  TypeOK'
<1>1. CASE \E c \in Clients \cup {None}, vm \in BOOLEAN : Attach(c, vm)
  BY <1>1, AttachTypes
<1>2. CASE Start \/ Stop \/ Detach \/ GuestWrites \/ MouseEvent
  BY <1>2, StartTypes, StopTypes, DetachTypes, GuestWritesTypes, MouseEventTypes
<1> QED BY <1>1, <1>2 DEF FromVM

LEMMA NextTypes ==
  ASSUME ConstantsOK, TypeOK, [Next]_vars
  PROVE  TypeOK'
<1>1. CASE Running \/ WriteRetry \/ FromVM
  BY <1>1, RunningTypes, WriteRetryTypes, VMTypes
<1>2. CASE Migrated
  BY <1>2, RestoreTypes DEF Migrated
<1>3. CASE \E c \in Clients : FromClient(c) \/ FromServer(c)
  BY <1>3, ClientTypes
<1>4. CASE UNCHANGED vars
  <2>1. UNCHANGED <<deviceVars, writeVars, sendVars, rxVars, poolVars, chanVars,
                    guestVars, readLocals, writeLocals, clients, stack, ret>>
    BY <1>4 DEF vars
  <2> QED BY <2>1, Keep DEF TypeOK
<1> QED BY <1>1, <1>2, <1>3, <1>4 DEF Next

LEMMA InitTypes ==
  ASSUME ConstantsOK, Init
  PROVE  TypeOK
<1>1. DeviceTypes
  <2>1. exists \in BOOLEAN /\ attached \in BOOLEAN /\ running \in BOOLEAN
        /\ active \in BOOLEAN /\ waitMig \in BOOLEAN
    BY Zenon DEF Init
  <2>2. clients = {}
    BY DEF Init
  <2> QED BY <2>1, <2>2 DEF DeviceTypes
<1>2. WriteTypes
  <2>1. retry \in BOOLEAN /\ mouse \in BOOLEAN /\ didWrite \in BOOLEAN
    BY Zenon DEF Init
  <2>2. writeQueue = <<>> /\ cur = NoBuf /\ selfTokens = 0 /\ writing = 0
    BY DEF Init
  <2> QED BY <2>1, <2>2, WriteFacts DEF WriteTypes
<1>3. SendTypes
  BY SeqFacts DEF Init, SendTypes
<1>4. ChanTypes
  BY SeqFacts DEF Init, ChanTypes
<1>5. RxTypes
  <2>1. started \in BOOLEAN
    BY Zenon DEF Init
  <2> QED BY <2>1 DEF Init, RxTypes
<1>6. PoolTypes
  BY DEF Init, PoolTypes
<1>7. ReadTypes
  <2>1. didRead \in BOOLEAN
    BY Zenon DEF Init
  <2>2. /\ left = MaxMsgs /\ pending = 0 /\ lastRead = 0
        /\ reading = 0 /\ max = 0 /\ msg = None /\ todo = {}
    BY DEF Init
  <2> QED BY <2>1, <2>2 DEF ReadTypes, ConstantsOK
<1>8. StackTypes
  <2>1. ret \in BOOLEAN
    BY Zenon DEF Init
  <2> QED BY <2>1, SeqFacts DEF Init, StackTypes
<1> QED BY <1>1, <1>2, <1>3, <1>4, <1>5, <1>6, <1>7, <1>8 DEF TypeOK

\* Every variable of the device keeps its type whatever calls nest and whatever
\* comes from clients, guest and VM: in particular a buffer is sent to clients
\* only while the read loop holds it.
THEOREM TypeCorrect == Spec => []TypeOK
<1>1. Init => TypeOK
  BY InitTypes, ConstantsOK
<1>2. TypeOK /\ [Next]_vars => TypeOK'
  BY NextTypes, ConstantsOK
<1> QED BY <1>1, <1>2, PTL DEF Spec

-----------------------------------------------------------------------------
(***************************************************************************)
(* The read loop and the write loop of the device are never entered again  *)
(* while they are active, for any number of clients and read buffers       *)
(* (OneReaderAlways, OneWriterAlways).                                     *)
(*                                                                         *)
(* The two invariants are inductive.  Most steps are quiet: the frames     *)
(* they push and the frame they pop are not frames of a loop, so the       *)
(* stack has the same loops before and after (Same).  The entry, the turns *)
(* and the exit of each loop are dealt with one by one.                    *)
(***************************************************************************)

ReadOps  == {"read", "read0"}
WriteOps == {"write", "wrote", "wrote0"}
Loops    == ReadOps \cup WriteOps

\* The frames of a loop in a stack s: none, at most one.
NoneOf(L, s) == \A i \in 1..Len(s) : s[i].op \notin L
OneOf(L, s)  == \A i, j \in 1..Len(s) : s[i].op \in L /\ s[j].op \in L => i = j
Same(L, s, t) == (NoneOf(L, s) <=> NoneOf(L, t)) /\ (OneOf(L, s) <=> OneOf(L, t))

-----------------------------------------------------------------------------
(* Stacks.                                                                 *)

LEMMA SameTrans ==
  ASSUME NEW L, NEW s, NEW t, NEW u, Same(L, s, t), Same(L, t, u)
  PROVE  Same(L, s, u)
  BY DEF Same

\* Frames of no loop on top of a stack change nothing.
LEMMA SamePush ==
  ASSUME NEW L, NEW fs \in Seq(Frame), NEW s \in Seq(Frame), NoneOf(L, fs)
  PROVE  Same(L, fs \o s, s)
<1> DEFINE t == fs \o s
           k == Len(fs)
<1>1. /\ k \in Nat /\ Len(s) \in Nat /\ Len(t) = k + Len(s)
      /\ \A i \in 1..Len(t) : t[i] = IF i <= k THEN fs[i] ELSE s[i - k]
  BY ConcatProperties, LenProperties
<1>2. \A i \in 1..Len(s) : i + k \in 1..Len(t) /\ t[i + k] = s[i]
  BY <1>1
<1>3. \A i \in 1..Len(t) : t[i].op \in L => i - k \in 1..Len(s) /\ t[i] = s[i - k]
  BY <1>1 DEF NoneOf
<1> HIDE DEF t, k
<1>4. NoneOf(L, t) <=> NoneOf(L, s)
  BY <1>2, <1>3 DEF NoneOf
<1>5. OneOf(L, s) => OneOf(L, t)
  <2> SUFFICES ASSUME OneOf(L, s), NEW i \in 1..Len(t), NEW j \in 1..Len(t),
                      t[i].op \in L, t[j].op \in L
               PROVE  i = j
    BY DEF OneOf
  <2>1. i - k = j - k
    BY <1>3 DEF OneOf
  <2> QED BY <2>1, <1>1
<1>6. OneOf(L, t) => OneOf(L, s)
  <2> SUFFICES ASSUME OneOf(L, t), NEW i \in 1..Len(s), NEW j \in 1..Len(s),
                      s[i].op \in L, s[j].op \in L
               PROVE  i = j
    BY DEF OneOf
  <2>1. i + k = j + k
    BY <1>2 DEF OneOf
  <2> QED BY <2>1, <1>1
<1>7. Same(L, t, s)
  BY <1>4, <1>5, <1>6 DEF Same
<1> QED BY <1>7 DEF t

\* A stack without its top frame, whether that is a frame of the loop or not.
LEMMA SamePop ==
  ASSUME NEW L, NEW s \in Seq(Frame), s # <<>>
  PROVE  /\ Head(s).op \notin L => Same(L, Tail(s), s)
         /\ Head(s).op \in L /\ OneOf(L, s) => NoneOf(L, Tail(s))
         /\ Head(s).op \in L => ~NoneOf(L, s)
<1> DEFINE t == Tail(s)
<1>1. /\ Len(s) \in Nat \ {0} /\ Len(t) = Len(s) - 1 /\ Head(s) = s[1]
      /\ \A i \in 1..Len(t) : t[i] = s[i + 1]
  BY HeadTailProperties, EmptySeq, LenProperties
<1>2. \A i \in 1..Len(t) : i + 1 \in 1..Len(s) /\ i + 1 # 1
  BY <1>1
<1>3. \A i \in 1..Len(s) : i # 1 => i - 1 \in 1..Len(t) /\ t[i - 1] = s[i]
  BY <1>1
<1>4. 1 \in 1..Len(s)
  BY <1>1
<1> HIDE DEF t
<1>5. ASSUME s[1].op \notin L PROVE Same(L, t, s)
  <2>1. NoneOf(L, t) <=> NoneOf(L, s)
    BY <1>1, <1>2, <1>3, <1>5 DEF NoneOf
  <2>2. OneOf(L, s) => OneOf(L, t)
    <3> SUFFICES ASSUME OneOf(L, s), NEW i \in 1..Len(t), NEW j \in 1..Len(t),
                        t[i].op \in L, t[j].op \in L
                 PROVE  i = j
      BY DEF OneOf
    <3>1. i + 1 = j + 1
      BY <1>1, <1>2 DEF OneOf
    <3> QED BY <3>1
  <2>3. OneOf(L, t) => OneOf(L, s)
    <3> SUFFICES ASSUME OneOf(L, t), NEW i \in 1..Len(s), NEW j \in 1..Len(s),
                        s[i].op \in L, s[j].op \in L
                 PROVE  i = j
      BY DEF OneOf
    <3>1. i # 1 /\ j # 1
      BY <1>5
    <3>2. i - 1 = j - 1
      BY <3>1, <1>3 DEF OneOf
    <3> QED BY <3>2
  <2> QED BY <2>1, <2>2, <2>3 DEF Same
<1>6. s[1].op \in L /\ OneOf(L, s) => NoneOf(L, t)
  BY <1>1, <1>2, <1>4 DEF OneOf, NoneOf
<1>7. s[1].op \in L => ~NoneOf(L, s)
  BY <1>4 DEF NoneOf
<1> QED BY <1>1, <1>5, <1>6, <1>7 DEF t

\* The frames that are pushed by quiet steps.
LEMMA QuietFrames ==
  ASSUME NEW L \in SUBSET Loops
  PROVE  /\ \A op \in Ops \ L : <<F(op)>> \in Seq(Frame) /\ NoneOf(L, <<F(op)>>)
         /\ \A op \in Ops \ L, c \in Clients :
               <<FC(op, c)>> \in Seq(Frame) /\ NoneOf(L, <<FC(op, c)>>)
         /\ \A op, op2 \in Ops \ L :
               <<F(op), F(op2)>> \in Seq(Frame) /\ NoneOf(L, <<F(op), F(op2)>>)
         /\ \A op, op2 \in Ops \ L, c \in Clients :
               <<FC(op, c), F(op2)>> \in Seq(Frame) /\ NoneOf(L, <<FC(op, c), F(op2)>>)
         /\ \A c \in Clients, b \in Bufs :
               NoneOf(L, <<[op |-> "pushed", c |-> c, b |-> b]>>)
         /\ NoneOf(L, Wakeup) /\ NoneOf(L, <<>>)
         /\ \A fs, gs \in Seq(Frame) :
               NoneOf(L, fs) /\ NoneOf(L, gs) => NoneOf(L, fs \o gs)
<1>1. \A op \in Ops \ L : NoneOf(L, <<F(op)>>)
  BY DEF NoneOf, F
<1>2. \A op \in Ops \ L, c \in Clients : NoneOf(L, <<FC(op, c)>>)
  BY DEF NoneOf, FC
<1>3. \A op, op2 \in Ops \ L : NoneOf(L, <<F(op), F(op2)>>)
  BY DEF NoneOf, F
<1>4. \A op, op2 \in Ops \ L, c \in Clients : NoneOf(L, <<FC(op, c), F(op2)>>)
  BY DEF NoneOf, F, FC
<1>5. \A c \in Clients, b \in Bufs : NoneOf(L, <<[op |-> "pushed", c |-> c, b |-> b]>>)
  BY DEF NoneOf, Loops, ReadOps, WriteOps
<1>6. NoneOf(L, Wakeup)
  BY DEF NoneOf, Wakeup, F, Loops, ReadOps, WriteOps
<1>7. NoneOf(L, <<>>)
  BY DEF NoneOf
<1>8. \A fs, gs \in Seq(Frame) : NoneOf(L, fs) /\ NoneOf(L, gs) => NoneOf(L, fs \o gs)
  BY SamePush DEF Same
<1> QED BY <1>1, <1>2, <1>3, <1>4, <1>5, <1>6, <1>7, <1>8, FrameFacts

\* The top frame turns into others, calls others, or returns.
LEMMA SameSteps ==
  ASSUME TypeOK, NEW L
  PROVE  /\ stack' = stack => Same(L, stack', stack)
         /\ \A fs \in Seq(Frame) : NoneOf(L, fs) /\ Call(fs) => Same(L, stack', stack)
         /\ stack # <<>> /\ Top.op \notin L /\ Return => Same(L, stack', stack)
         /\ \A fs \in Seq(Frame) : NoneOf(L, fs) /\ stack # <<>> /\ Top.op \notin L
                                   /\ Become(fs) => Same(L, stack', stack)
<1>1. stack \in Seq(Frame) /\ (stack # <<>> => Tail(stack) \in Seq(Frame))
  BY StackFacts
<1>2. Same(L, stack, stack)
  BY DEF Same
<1>3. \A fs \in Seq(Frame) : NoneOf(L, fs) => Same(L, fs \o stack, stack)
  BY <1>1, SamePush
<1>4. stack # <<>> /\ Top.op \notin L => Same(L, Tail(stack), stack)
  BY <1>1, SamePop DEF Top
<1>5. \A fs \in Seq(Frame) : NoneOf(L, fs) /\ stack # <<>> /\ Top.op \notin L
                             => Same(L, fs \o Tail(stack), stack)
  <2> SUFFICES ASSUME NEW fs \in Seq(Frame), NoneOf(L, fs), stack # <<>>, Top.op \notin L
               PROVE  Same(L, fs \o Tail(stack), stack)
    OBVIOUS
  <2>1. Same(L, fs \o Tail(stack), Tail(stack))
    BY <1>1, SamePush
  <2> QED BY <2>1, <1>4, SameTrans
<1> QED BY <1>2, <1>3, <1>4, <1>5 DEF Call, Become, Return

\* Dropping a reference and pushing an item add quiet frames.
LEMMA SameUnref ==
  ASSUME NEW L \in SUBSET Loops, NEW b, NEW rest \in Seq(Frame), Unref(b, rest)
  PROVE  Same(L, stack', rest)
<1>1. stack' = Wakeup \o rest \/ stack' = <<>> \o rest
  BY DEF Unref
<1>2. /\ Wakeup \in Seq(Frame) /\ <<>> \in Seq(Frame)
      /\ NoneOf(L, Wakeup) /\ NoneOf(L, <<>>)
  BY QuietFrames, FrameFacts
<1> QED BY <1>1, <1>2, SamePush

LEMMA SamePushItem ==
  ASSUME NEW L \in SUBSET Loops, NEW c \in Clients, NEW item, NEW rest \in Seq(Frame),
         PushItem(c, item, rest)
  PROVE  Same(L, stack', rest)
<1>1. stack' = <<FC("flush", c)>> \o rest \/ stack' = <<>> \o rest
  BY DEF PushItem
<1>2. "flush" \in Ops \ L
  BY DEF Ops, Loops, ReadOps, WriteOps
<1>3. /\ <<FC("flush", c)>> \in Seq(Frame) /\ <<>> \in Seq(Frame)
      /\ NoneOf(L, <<FC("flush", c)>>) /\ NoneOf(L, <<>>)
  BY <1>2, QuietFrames, FrameFacts
<1> QED BY <1>1, <1>3, SamePush

LEMMA SameRelease ==
  ASSUME NEW L \in SUBSET Loops, TypeOK, NEW buf, NEW q, NEW rest \in Seq(Frame),
         Release(buf, q, rest)
  PROVE  /\ Same(L, stack', rest)
         /\ writing' = writing \/ (writing > 0 /\ writing' = 2)
<1> DEFINE f == tokensFree[buf.c] + buf.price
<1>1. \/ buf.c \in Clients /\ PushItem(buf.c, TokensItem(f), rest)
      \/ stack' = rest
  <2>1. CASE buf.origin = "client" /\ FlowControl /\ f >= Interval
    BY <2>1 DEF Release, TypeOK, DeviceTypes
  <2>2. CASE ~(buf.origin = "client" /\ FlowControl /\ f >= Interval)
    BY <2>2 DEF Release
  <2> QED BY <2>1, <2>2
<1>2. Same(L, rest, rest)
  BY DEF Same
<1>3. Same(L, stack', rest)
  BY <1>1, <1>2, SamePushItem
<1>4. writing' = writing \/ (writing > 0 /\ writing' = 2)
  <2>1. writing' = IF MouseAgain(buf) /\ Usable /\ writing > 0 THEN 2 ELSE writing
    BY DEF Release
  <2> QED BY <2>1
<1> QED BY <1>3, <1>4

-----------------------------------------------------------------------------
(* Quiet steps.                                                            *)

Quiet(L) ==
    /\ Same(L, stack', stack)
    /\ reading' = reading
    /\ writing' = writing \/ (writing > 0 /\ writing' = 2)

LEMMA QuietOps ==
  ASSUME NEW L \in {ReadOps, WriteOps}
  PROVE  /\ L \in SUBSET Loops
         /\ {"write?", "read?", "push", "pushed", "shrink", "absorb", "flush", "hangup",
             "gone", "free", "removed", "start", "startW", "startR", "reset", "reset2",
             "destroy"} \subseteq Ops \ L
  BY DEF Loops, ReadOps, WriteOps, Ops

\* What is pushed and popped by quiet steps.
LEMMA QuietSteps ==
  ASSUME TypeOK, NEW L \in {ReadOps, WriteOps}
  PROVE  /\ stack' = stack => Same(L, stack', stack)
         /\ stack # <<>> /\ Top.op \notin L /\ Return => Same(L, stack', stack)
         /\ \A op \in Ops \ L : Call(<<F(op)>>) => Same(L, stack', stack)
         /\ \A op \in Ops \ L, c \in Clients : Call(<<FC(op, c)>>) => Same(L, stack', stack)
         /\ Call(Wakeup) => Same(L, stack', stack)
         /\ \A op \in Ops \ L : stack # <<>> /\ Top.op \notin L /\ Become(<<F(op)>>)
                                => Same(L, stack', stack)
         /\ \A op \in Ops \ L, c \in Clients :
               stack # <<>> /\ Top.op \notin L /\ Become(<<FC(op, c)>>) => Same(L, stack', stack)
         /\ \A op, op2 \in Ops \ L :
               stack # <<>> /\ Top.op \notin L /\ Become(<<F(op), F(op2)>>)
               => Same(L, stack', stack)
<1>1. L \in SUBSET Loops
  BY QuietOps
<1>2. \A op \in Ops \ L : <<F(op)>> \in Seq(Frame) /\ NoneOf(L, <<F(op)>>)
  BY <1>1, QuietFrames
<1>3. \A op \in Ops \ L, c \in Clients :
        <<FC(op, c)>> \in Seq(Frame) /\ NoneOf(L, <<FC(op, c)>>)
  BY <1>1, QuietFrames
<1>4. \A op, op2 \in Ops \ L :
        <<F(op), F(op2)>> \in Seq(Frame) /\ NoneOf(L, <<F(op), F(op2)>>)
  BY <1>1, QuietFrames
<1>5. Wakeup \in Seq(Frame) /\ NoneOf(L, Wakeup)
  BY <1>1, QuietFrames, FrameFacts
<1>6. stack' = stack => Same(L, stack', stack)
  BY SameSteps
<1>7. stack # <<>> /\ Top.op \notin L /\ Return => Same(L, stack', stack)
  BY SameSteps
<1>8. \A fs \in Seq(Frame) : NoneOf(L, fs) /\ Call(fs) => Same(L, stack', stack)
  BY SameSteps
<1>9. \A fs \in Seq(Frame) : NoneOf(L, fs) /\ stack # <<>> /\ Top.op \notin L /\ Become(fs)
                             => Same(L, stack', stack)
  BY SameSteps
<1> QED BY <1>2, <1>3, <1>4, <1>5, <1>6, <1>7, <1>8, <1>9

LEMMA ChannelQuiet ==
  ASSUME TypeOK, NEW L \in {ReadOps, WriteOps}, NEW c \in Clients,
         Channel(c) \/ Writable(c) \/ PeerCloses(c)
  PROVE  Quiet(L)
<1>1. UNCHANGED <<reading, writing>>
  BY DEF Channel, FlushSend, FlushStop, FlushFail, HangupItem, HangupEnd, Writable,
         PeerCloses, readLocals, writeLocals
<1>2. CASE FlushSend(c)
  <2>1. stack' = stack \/ Unref(Head(pipe[c]).buf, stack)
    BY <1>2 DEF FlushSend
  <2> QED BY <2>1, <1>1, QuietOps, StackFacts, SameUnref, QuietSteps DEF Quiet
<1>3. CASE HangupItem(c)
  <2>1. stack' = stack \/ Unref(pipe[c][Len(pipe[c])].buf, stack)
    BY <1>3 DEF HangupItem
  <2> QED BY <2>1, <1>1, QuietOps, StackFacts, SameUnref, QuietSteps DEF Quiet
<1>4. CASE FlushStop(c) \/ HangupEnd(c)
  <2>1. stack # <<>> /\ Top.op \in {"flush", "hangup"} /\ Return
    BY <1>4 DEF FlushStop, HangupEnd, At, Top
  <2> QED BY <2>1, <1>1, QuietOps, QuietSteps DEF Quiet
<1>5. CASE FlushFail(c) \/ Writable(c) \/ PeerCloses(c)
  <2>1. \E op \in {"flush", "hangup"} : Call(<<FC(op, c)>>)
    BY <1>5 DEF FlushFail, Writable, PeerCloses
  <2> QED BY <2>1, <1>1, QuietOps, QuietSteps DEF Quiet
<1> QED BY <1>2, <1>3, <1>4, <1>5 DEF Channel

\* The read loop's steps other than its entry, turns and exit.
LEMMA ReadingQuiet ==
  ASSUME TypeOK, NEW L \in {ReadOps, WriteOps},
         \/ ReadRefused \/ ReadMsg \/ ReadDiscard \/ SendDone
         \/ \E c \in Clients : SendNow(c) \/ SendOverflow(c) \/ SendLater(c)
  PROVE  Quiet(L)
<1>1. UNCHANGED <<reading, writing>>
  BY DEF ReadRefused, ReadMsg, ReadDiscard, SendDone, DropMsg, SendNow, SendOverflow,
         SendLater, readLocals, writeLocals
<1>2. CASE ReadRefused
  <2>1. stack # <<>> /\ Top.op = "read?" /\ Return
    BY <1>2 DEF ReadRefused, ReturnWith, At, Top
  <2> QED BY <2>1, <1>1, QuietOps, QuietSteps DEF Quiet
<1>3. CASE ReadMsg
  BY <1>3, <1>1, QuietSteps DEF ReadMsg, Quiet
<1>4. CASE ReadDiscard
  BY <1>4, <1>1, QuietSteps DEF ReadDiscard, Quiet
<1>5. CASE SendDone
  <2>1. Unref(msg, stack)
    BY <1>5 DEF SendDone, DropMsg
  <2> QED BY <2>1, <1>1, QuietOps, StackFacts, SameUnref DEF Quiet
<1>6. CASE \E c \in Clients : SendNow(c) \/ SendOverflow(c) \/ SendLater(c)
  <2>1. PICK c \in Clients : SendNow(c) \/ SendOverflow(c) \/ SendLater(c)
    BY <1>6
  <2>2. CASE SendNow(c)
    <3>1. PushItem(c, DataItem(msg), stack)
      BY <2>2 DEF SendNow, SendMsg
    <3> QED BY <3>1, <1>1, QuietOps, StackFacts, SamePushItem DEF Quiet
  <2>3. CASE SendOverflow(c) \/ SendLater(c)
    <3>1. stack' = stack
      BY <2>3 DEF SendOverflow, SendLater
    <3> QED BY <3>1, <1>1, QuietSteps DEF Quiet
  <2> QED BY <2>1, <2>2, <2>3
<1> QED BY <1>2, <1>3, <1>4, <1>5, <1>6

LEMMA PushingQuiet ==
  ASSUME TypeOK, NEW L \in {ReadOps, WriteOps}, NEW c \in Clients,
         \/ Pushing(c) \/ WaitTimeout(c)
         \/ \E n \in 0..MaxSend : TokensSet(c, n) \/ TokensAdd(c, n)
  PROVE  Quiet(L)
<1>1. UNCHANGED <<reading, writing>>
  BY DEF Pushing, PushOne, PushUnref, PushShrink, PushEnd, AbsorbEnd, WaitTimeout,
         TokensSet, TokensAdd, Absorb, readLocals, writeLocals
<1>2. CASE PushOne(c)
  <2> DEFINE b == Head(sendQueue[c])
             fs == <<[op |-> "pushed", c |-> c, b |-> b]>>
  <2>1. PushItem(c, DataItem(b), fs \o Tail(stack))
    BY <1>2 DEF PushOne, SendMsg
  <2>2. stack # <<>> /\ Top.op = "push"
    BY <1>2 DEF PushOne, At, Top
  <2>3. b \in Bufs
    BY <1>2, SeqFacts DEF PushOne, TypeOK, SendTypes
  <2>4. fs \in Seq(Frame) /\ NoneOf(L, fs)
    BY <2>3, FrameFacts, QuietFrames, QuietOps
  <2>5. Tail(stack) \in Seq(Frame) /\ stack \in Seq(Frame)
    BY <2>2, StackFacts
  <2> HIDE DEF b, fs
  <2>6. fs \o Tail(stack) \in Seq(Frame)
    BY <2>4, <2>5, FrameFacts
  <2>7. Same(L, stack', fs \o Tail(stack))
    BY <2>1, <2>6, QuietOps, SamePushItem
  <2>8. Same(L, fs \o Tail(stack), Tail(stack))
    BY <2>4, <2>5, SamePush
  <2>9. Same(L, Tail(stack), stack)
    BY <2>2, <2>5, QuietOps, SamePop DEF Top
  <2> QED BY <2>7, <2>8, <2>9, <1>1, SameTrans DEF Quiet
<1>3. CASE PushUnref(c)
  <2> DEFINE rest == <<FC("shrink", c)>> \o Tail(stack)
  <2>1. Unref(Top.b, rest)
    BY <1>3 DEF PushUnref
  <2>2. stack # <<>> /\ Top.op = "pushed"
    BY <1>3 DEF PushUnref, At, Top
  <2>3. Tail(stack) \in Seq(Frame) /\ stack \in Seq(Frame)
    BY <2>2, StackFacts
  <2>4. <<FC("shrink", c)>> \in Seq(Frame) /\ NoneOf(L, <<FC("shrink", c)>>)
    BY QuietOps, QuietFrames
  <2>5. rest \in Seq(Frame) /\ Same(L, rest, Tail(stack))
    BY <2>3, <2>4, FrameFacts, SamePush
  <2> HIDE DEF rest
  <2>6. Same(L, stack', rest)
    BY <2>1, <2>5, QuietOps, SameUnref
  <2>7. Same(L, Tail(stack), stack)
    BY <2>2, <2>3, QuietOps, SamePop DEF Top
  <2> QED BY <2>5, <2>6, <2>7, <1>1, SameTrans DEF Quiet
<1>4. CASE PushShrink(c)
  <2>1. stack # <<>> /\ Top.op = "shrink" /\ Become(<<FC("push", c)>>)
    BY <1>4 DEF PushShrink, At, Top
  <2> QED BY <2>1, <1>1, QuietOps, QuietSteps DEF Quiet
<1>5. CASE PushEnd(c)
  <2>1. stack # <<>> /\ Top.op = "push" /\ Return
    BY <1>5 DEF PushEnd, At, Top
  <2> QED BY <2>1, <1>1, QuietOps, QuietSteps DEF Quiet
<1>6. CASE AbsorbEnd(c)
  <2>1. stack # <<>> /\ Top.op = "absorb" /\ (Return \/ Become(<<F("read?")>>))
    BY <1>6 DEF AbsorbEnd, At, Top
  <2> QED BY <2>1, <1>1, QuietOps, QuietSteps DEF Quiet
<1>7. CASE WaitTimeout(c)
  BY <1>7, <1>1, QuietSteps DEF WaitTimeout, Quiet
<1>8. CASE \E n \in 0..MaxSend : TokensSet(c, n) \/ TokensAdd(c, n)
  <2> DEFINE fs == IF queueSize[c] > 0 THEN <<FC("push", c)>> ELSE <<>>
  <2>1. Call(fs \o <<FC("absorb", c)>>)
    BY <1>8 DEF TokensSet, TokensAdd, Absorb
  <2>2. /\ fs \in Seq(Frame) /\ NoneOf(L, fs)
        /\ <<FC("absorb", c)>> \in Seq(Frame) /\ NoneOf(L, <<FC("absorb", c)>>)
    BY QuietOps, QuietFrames, FrameFacts
  <2>3. fs \o <<FC("absorb", c)>> \in Seq(Frame) /\ NoneOf(L, fs \o <<FC("absorb", c)>>)
    BY <2>2, QuietOps, QuietFrames, FrameFacts
  <2> HIDE DEF fs
  <2> QED BY <2>1, <2>3, <1>1, SameSteps DEF Quiet
<1> QED BY <1>2, <1>3, <1>4, <1>5, <1>6, <1>7, <1>8 DEF Pushing

\* The write loop's steps other than its entry, turns and exit, and the events
\* of the write direction.
LEMMA WriteQuiet ==
  ASSUME ConstantsOK, TypeOK, NEW L \in {ReadOps, WriteOps},
         WriteRefused \/ WriteRetry \/ MouseEvent
  PROVE  Quiet(L)
<1>1. UNCHANGED <<reading, writing>>
  BY DEF WriteRefused, WriteRetry, MouseEvent, readLocals, writeLocals
<1>2. CASE WriteRefused
  <2>1. stack # <<>> /\ Top.op = "write?" /\ Return
    BY <1>2 DEF WriteRefused, ReturnWith, At, Top
  <2> QED BY <2>1, <1>1, QuietOps, QuietSteps DEF Quiet
<1>3. CASE WriteRetry \/ MouseEvent
  <2>1. stack' = stack \/ Call(<<F("write?")>>)
    BY <1>3 DEF WriteRetry, MouseEvent
  <2> QED BY <2>1, <1>1, QuietOps, QuietSteps DEF Quiet
<1> QED BY <1>2, <1>3

LEMMA BuffersQuiet ==
  ASSUME ConstantsOK, TypeOK, NEW L \in {ReadOps, WriteOps}, NEW c \in Clients,
         BufGet(c) \/ BufStale(c) \/ BufAdd(c) \/ BufGiveBack(c)
  PROVE  Quiet(L)
<1>1. CASE BufGet(c) \/ BufStale(c) \/ BufAdd(c)
  <2>1. UNCHANGED <<reading, writing>>
    BY <1>1 DEF BufGet, BufStale, BufAdd, readLocals, writeLocals
  <2>2. stack' = stack \/ Call(<<F("write?")>>)
    BY <1>1 DEF BufGet, BufStale, BufAdd
  <2> QED BY <2>1, <2>2, QuietOps, QuietSteps DEF Quiet
<1>2. CASE BufGiveBack(c) /\ exists
  <2>1. Release(ClientBuf(c, 1), writeQueue, <<>>) /\ stack = <<>> /\ reading' = reading
    BY <1>2 DEF BufGiveBack, Idle, readLocals
  <2>2. <<>> \in Seq(Frame)
    BY FrameFacts
  <2> QED BY <2>1, <2>2, QuietOps, SameRelease DEF Quiet
<1>3. CASE BufGiveBack(c) /\ ~exists
  <2>1. UNCHANGED <<stack, reading, writing>>
    BY <1>3 DEF BufGiveBack, readLocals
  <2> QED BY <2>1, QuietSteps DEF Quiet
<1> QED BY <1>1, <1>2, <1>3

LEMMA ClientsQuiet ==
  ASSUME ConstantsOK, TypeOK, NEW L \in {ReadOps, WriteOps}, NEW c \in Clients,
         \/ Connect(c) \/ ClientDisconnect(c) \/ RestoreLate(c) \/ RestoreNone(c)
         \/ Removing(c) \/ \E n \in 0..MaxSend : ClientAdd(c, n)
  PROVE  Quiet(L)
<1>1. UNCHANGED <<reading, writing>>
  BY DEF Connect, ClientDisconnect, RestoreLate, RestoreNone, Removing, ClientAdd,
         FreeQueued, FreeWritten, FreeEnd, Gone, readLocals, writeLocals
<1>2. CASE Connect(c) \/ RestoreLate(c) \/ FreeWritten(c)
  <2>1. stack' = stack
    BY <1>2 DEF Connect, RestoreLate, FreeWritten
  <2> QED BY <2>1, <1>1, QuietSteps DEF Quiet
<1>3. CASE ClientDisconnect(c)
  <2> DEFINE a == IF exists /\ c \in clients THEN <<FC("free", c), F("removed")>> ELSE <<>>
             b == IF Linked(c) THEN <<FC("hangup", c)>> ELSE <<>>
  <2>1. Call(a \o b \o <<FC("gone", c)>>)
    BY <1>3 DEF ClientDisconnect
  <2>2. a \in Seq(Frame) /\ NoneOf(L, a)
    BY QuietOps, QuietFrames, FrameFacts
  <2>3. b \in Seq(Frame) /\ NoneOf(L, b)
    BY QuietOps, QuietFrames, FrameFacts
  <2>4. <<FC("gone", c)>> \in Seq(Frame) /\ NoneOf(L, <<FC("gone", c)>>)
    BY QuietOps, QuietFrames
  <2> HIDE DEF a, b
  <2>5. a \o b \in Seq(Frame) /\ NoneOf(L, a \o b)
    BY <2>2, <2>3, QuietOps, QuietFrames, FrameFacts
  <2>6. a \o b \o <<FC("gone", c)>> \in Seq(Frame) /\ NoneOf(L, a \o b \o <<FC("gone", c)>>)
    BY <2>4, <2>5, QuietOps, QuietFrames, FrameFacts
  <2> QED BY <2>1, <2>6, <1>1, SameSteps DEF Quiet
<1>4. CASE RestoreNone(c)
  <2> DEFINE fs == IF attached THEN <<FC("free", c), F("removed")>> ELSE <<>>
  <2>1. Call(fs)
    BY <1>4 DEF RestoreNone
  <2>2. fs \in Seq(Frame) /\ NoneOf(L, fs)
    BY QuietOps, QuietFrames, FrameFacts
  <2> HIDE DEF fs
  <2> QED BY <2>1, <2>2, <1>1, SameSteps DEF Quiet
<1>5. CASE FreeQueued(c)
  <2>1. Unref(Head(sendQueue[c]), stack)
    BY <1>5 DEF FreeQueued
  <2> QED BY <2>1, <1>1, QuietOps, StackFacts, SameUnref DEF Quiet
<1>6. CASE FreeEnd(c)
  <2>1. stack # <<>> /\ Top.op = "free" /\ Return
    BY <1>6 DEF FreeEnd, At, Top
  <2> QED BY <2>1, <1>1, QuietOps, QuietSteps DEF Quiet
<1>7. CASE Gone(c)
  <2>1. stack # <<>> /\ Top.op = "gone" /\ (Return \/ Become(<<F("write?")>>))
    BY <1>7 DEF Gone, At, Top
  <2> QED BY <2>1, <1>1, QuietOps, QuietSteps DEF Quiet
<1>8. CASE \E n \in 0..MaxSend : ClientAdd(c, n)
  <2>1. Call(Wakeup)
    BY <1>8 DEF ClientAdd
  <2> QED BY <2>1, <1>1, QuietSteps DEF Quiet
<1> QED BY <1>2, <1>3, <1>4, <1>5, <1>6, <1>7, <1>8 DEF Removing

LEMMA DeviceQuiet ==
  ASSUME ConstantsOK, TypeOK, NEW L \in {ReadOps, WriteOps},
         \/ \E c \in Clients \cup {None}, vm \in BOOLEAN : Attach(c, vm)
         \/ Start \/ Stop \/ Detach \/ GuestWrites \/ Migrated
         \/ RemovedEnd \/ StartLoop \/ Destroy \/ ResetRelease \/ ResetQueues
  PROVE  Quiet(L)
<1>1. CASE ResetRelease
  <2> DEFINE rest == <<F("reset2")>> \o Tail(stack)
  <2>1. stack # <<>> /\ Top.op = "reset" /\ reading' = reading
    BY <1>1 DEF ResetRelease, At, Top, readLocals
  <2>2. stack \in Seq(Frame) /\ Tail(stack) \in Seq(Frame)
    BY <2>1, StackFacts
  <2>3. <<F("reset2")>> \in Seq(Frame) /\ NoneOf(L, <<F("reset2")>>)
    BY QuietOps, QuietFrames
  <2>4. rest \in Seq(Frame) /\ Same(L, rest, Tail(stack))
    BY <2>2, <2>3, FrameFacts, SamePush
  <2>5. Same(L, Tail(stack), stack)
    BY <2>1, <2>2, QuietOps, SamePop DEF Top
  <2>6. Same(L, rest, stack)
    BY <2>4, <2>5, SameTrans
  <2>7. \/ Release(Head(writeQueue), Tail(writeQueue), stack)
        \/ Release(cur, writeQueue, rest)
        \/ Become(<<F("reset2")>>) /\ writing' = writing
    BY <1>1 DEF ResetRelease
  <2> HIDE DEF rest
  <2>8. CASE Release(Head(writeQueue), Tail(writeQueue), stack)
    BY <2>1, <2>2, <2>8, QuietOps, SameRelease DEF Quiet
  <2>9. CASE Release(cur, writeQueue, rest)
    <3>1. /\ Same(L, stack', rest)
          /\ writing' = writing \/ (writing > 0 /\ writing' = 2)
      BY <2>4, <2>9, QuietOps, SameRelease
    <3> QED BY <2>1, <2>6, <3>1, SameTrans DEF Quiet
  <2>10. CASE Become(<<F("reset2")>>) /\ writing' = writing
    BY <2>1, <2>10, QuietOps, QuietSteps DEF Quiet
  <2> QED BY <2>7, <2>8, <2>9, <2>10
<1>2. CASE RemovedEnd \/ StartLoop \/ Destroy \/ ResetQueues
  <2>1. UNCHANGED <<reading, writing>>
    BY <1>2 DEF RemovedEnd, StartLoop, Destroy, ResetQueues, readLocals, writeLocals
  <2>2. stack # <<>> /\ Top.op \in {"removed", "start", "startW", "startR", "destroy", "reset2"}
    BY <1>2 DEF RemovedEnd, StartLoop, Destroy, ResetQueues, At, Top
  <2>3. \/ Return \/ Become(<<F("read?")>>) \/ Become(<<F("start")>>)
        \/ Become(<<F("write?"), F("startW")>>) \/ Become(<<F("read?"), F("startR")>>)
        \/ \E c \in Clients : Call(<<FC("free", c)>>)
    BY <1>2 DEF RemovedEnd, StartLoop, Destroy, ResetQueues, TypeOK, DeviceTypes
  <2>4. Same(L, stack', stack)
    BY <2>2, <2>3, QuietOps, QuietSteps
  <2> QED BY <2>1, <2>4 DEF Quiet
<1>3. CASE \E c \in Clients \cup {None}, vm \in BOOLEAN : Attach(c, vm)
  <2>1. UNCHANGED <<reading, writing>>
    BY <1>3 DEF Attach, readLocals, writeLocals
  <2>2. stack = <<>> /\ (stack' = <<F("start")>> \/ stack' = <<>>)
    BY <1>3 DEF Attach, Idle
  <2>3. <<F("start")>> \in Seq(Frame)
    BY FrameFacts, QuietOps
  <2>4. stack' = stack \/ Call(<<F("start")>>)
    BY <2>2, <2>3, ConcatEmptySeq DEF Call
  <2> QED BY <2>1, <2>4, QuietOps, QuietSteps DEF Quiet
<1>4. CASE Start \/ Stop \/ Detach \/ GuestWrites
  <2>1. UNCHANGED <<reading, writing>>
    BY <1>4 DEF Start, Stop, Detach, GuestWrites, readLocals, writeLocals
  <2>2. \/ stack' = stack \/ Call(Wakeup)
        \/ \E op \in {"start", "destroy", "reset"} : Call(<<F(op)>>)
    BY <1>4 DEF Start, Stop, Detach, GuestWrites
  <2> QED BY <2>1, <2>2, QuietOps, QuietSteps DEF Quiet
<1>5. CASE Migrated
  <2>1. UNCHANGED <<reading, writing>> /\ Call(Wakeup)
    BY <1>5 DEF Migrated, Restore, readLocals, writeLocals
  <2> QED BY <2>1, QuietSteps DEF Quiet
<1> QED BY <1>1, <1>2, <1>3, <1>4, <1>5

-----------------------------------------------------------------------------
(* The loops.                                                              *)

\* A loop that counts its callers in n is active at most once, and n is 0
\* exactly when it is not active.
Guarded(L, n, s) == OneOf(L, s) /\ (n = 0 <=> NoneOf(L, s))

LoopInv == Guarded(ReadOps, reading, stack) /\ Guarded(WriteOps, writing, stack)

LEMMA EnterLoop ==
  ASSUME NEW L, NEW op \in L \cap Ops, NEW t \in Seq(Frame), NoneOf(L, t)
  PROVE  <<F(op)>> \o t \in Seq(Frame) /\ OneOf(L, <<F(op)>> \o t)
         /\ ~NoneOf(L, <<F(op)>> \o t)
<1> DEFINE s == <<F(op)>> \o t
<1>1. <<F(op)>> \in Seq(Frame)
  BY FrameFacts
<1>2. /\ s \in Seq(Frame) /\ Len(s) = 1 + Len(t) /\ Len(t) \in Nat /\ s[1] = F(op)
      /\ \A i \in 1..Len(s) : i # 1 => s[i] = t[i - 1] /\ i - 1 \in 1..Len(t)
  BY <1>1, ConcatProperties, LenProperties
<1> HIDE DEF s
<1>3. F(op).op \in L
  BY DEF F
<1>4. \A i \in 1..Len(s) : s[i].op \in L => i = 1
  BY <1>2 DEF NoneOf
<1>5. OneOf(L, s)
  BY <1>4 DEF OneOf
<1>6. ~NoneOf(L, s)
  BY <1>2, <1>3 DEF NoneOf
<1> QED BY <1>2, <1>5, <1>6 DEF s

\* The frame of the loop on top of the stack turns into another one.
LEMMA TurnLoop ==
  ASSUME NEW L, NEW op \in L \cap Ops, stack \in Seq(Frame), stack # <<>>,
         Top.op \in L, OneOf(L, stack)
  PROVE  LET s == <<F(op)>> \o Tail(stack)
         IN  s \in Seq(Frame) /\ OneOf(L, s) /\ ~NoneOf(L, s) /\ ~NoneOf(L, stack)
<1>1. NoneOf(L, Tail(stack)) /\ ~NoneOf(L, stack) /\ Tail(stack) \in Seq(Frame)
  BY SamePop, SeqFacts DEF Top
<1> QED BY <1>1, EnterLoop

\* A quiet step leaves both loops alone.
LEMMA QuietLoops ==
  ASSUME TypeOK, LoopInv, Quiet(ReadOps), Quiet(WriteOps)
  PROVE  LoopInv'
<1>1. writing \in 0..2
  BY DEF TypeOK, WriteTypes
<1>2. writing' = 0 <=> writing = 0
  BY <1>1 DEF Quiet
<1>3. Guarded(ReadOps, reading', stack')
  BY DEF LoopInv, Guarded, Quiet, Same
<1>4. Guarded(WriteOps, writing', stack')
  BY <1>2 DEF LoopInv, Guarded, Quiet, Same
<1> QED BY <1>3, <1>4 DEF LoopInv

\* What a step of the read loop is for the write loop, and the other way round.
LEMMA OtherLoop ==
  ASSUME NEW K \in {ReadOps, WriteOps}, NEW op \in Ops \ K,
         NEW s \in Seq(Frame), s # <<>>, Head(s).op \notin K
  PROVE  /\ Same(K, Tail(s), s)
         /\ Same(K, <<F(op)>> \o Tail(s), s)
         /\ Same(K, Wakeup \o (<<F(op)>> \o Tail(s)), s)
<1>1. K \in SUBSET Loops
  BY QuietOps
<1>2. Tail(s) \in Seq(Frame)
  BY SeqFacts
<1>3. Same(K, Tail(s), s)
  BY <1>1, SamePop
<1>4. <<F(op)>> \in Seq(Frame) /\ NoneOf(K, <<F(op)>>)
  BY <1>1, QuietFrames
<1>5. Same(K, <<F(op)>> \o Tail(s), Tail(s)) /\ <<F(op)>> \o Tail(s) \in Seq(Frame)
  BY <1>2, <1>4, SamePush, FrameFacts
<1>6. Same(K, <<F(op)>> \o Tail(s), s)
  BY <1>3, <1>5, SameTrans
<1>7. Wakeup \in Seq(Frame) /\ NoneOf(K, Wakeup)
  BY <1>1, QuietFrames, FrameFacts
<1>8. Same(K, Wakeup \o (<<F(op)>> \o Tail(s)), <<F(op)>> \o Tail(s))
  BY <1>5, <1>7, SamePush
<1>9. Same(K, Wakeup \o (<<F(op)>> \o Tail(s)), s)
  BY <1>6, <1>8, SameTrans
<1> QED BY <1>3, <1>6, <1>9

\* A wakeup on top of a turned loop does not disturb it.
LEMMA WakeupOver ==
  ASSUME NEW L \in {ReadOps, WriteOps}, NEW s \in Seq(Frame)
  PROVE  Same(L, Wakeup \o s, s)
<1>1. Wakeup \in Seq(Frame) /\ NoneOf(L, Wakeup)
  BY QuietOps, QuietFrames, FrameFacts
<1> QED BY <1>1, SamePush

LEMMA ReadLoop ==
  ASSUME TypeOK, LoopInv, ReadNested \/ ReadBegin \/ ReadNothing \/ ReadAgain \/ ReadEnd
  PROVE  LoopInv'
<1> DEFINE s(op) == <<F(op)>> \o Tail(stack)
<1>1. /\ stack \in Seq(Frame) /\ stack # <<>> /\ Tail(stack) \in Seq(Frame)
      /\ reading \in 0..2
  BY StackFacts DEF ReadNested, ReadBegin, ReadNothing, ReadAgain, ReadEnd, At,
                    TypeOK, ReadTypes
<1>2. {"read", "read0"} \subseteq ReadOps \cap Ops /\ "read?" \notin ReadOps
  BY DEF ReadOps, Ops
<1>3. Top.op \notin WriteOps /\ writing' = writing
  BY DEF ReadNested, ReadBegin, ReadNothing, ReadAgain, ReadEnd, At, Top, WriteOps,
         writeLocals
<1>4. \A op \in ReadOps : /\ Same(WriteOps, Tail(stack), stack)
                          /\ Same(WriteOps, s(op), stack)
                          /\ Same(WriteOps, Wakeup \o s(op), stack)
  <2>1. SUFFICES ASSUME NEW op \in ReadOps
                 PROVE  /\ Same(WriteOps, Tail(stack), stack)
                        /\ Same(WriteOps, s(op), stack)
                        /\ Same(WriteOps, Wakeup \o s(op), stack)
    OBVIOUS
  <2>2. op \in Ops \ WriteOps
    BY DEF ReadOps, WriteOps, Ops
  <2> QED BY <1>1, <1>3, <2>2, OtherLoop DEF Top
<1>5. /\ stack' \in {Tail(stack), s("read"), s("read0"), Wakeup \o s("read0")}
  BY DEF ReadNested, ReadBegin, ReadNothing, ReadAgain, ReadEnd, ReturnWith, Return,
         Become, GuestWritesIn
<1>6. Guarded(WriteOps, writing', stack')
  <2>1. Same(WriteOps, stack', stack)
    BY <1>2, <1>4, <1>5
  <2> QED BY <1>3, <2>1 DEF LoopInv, Guarded, Same
<1>7. OneOf(ReadOps, stack) /\ (reading = 0 <=> NoneOf(ReadOps, stack))
  BY DEF LoopInv, Guarded
<1>8. Guarded(ReadOps, reading', stack')
  <2>1. CASE ReadNested
    <3>1. reading' = 2 /\ reading # 0 /\ stack' = Tail(stack) /\ Top.op = "read?"
      BY <1>1, <2>1 DEF ReadNested, InRead, ReturnWith, Return, At, Top
    <3>2. Same(ReadOps, stack', stack)
      BY <1>1, <1>2, <3>1, SamePop DEF Top
    <3> QED BY <1>7, <3>1, <3>2 DEF Guarded, Same
  <2>2. CASE ReadBegin
    <3>1. reading' = 1 /\ reading = 0 /\ stack' = s("read") /\ Top.op = "read?"
      BY <1>1, <2>2 DEF ReadBegin, InRead, Become, At, Top
    <3>2. NoneOf(ReadOps, Tail(stack))
      BY <1>1, <1>2, <1>7, <3>1, SamePop DEF Top, Same
    <3>3. OneOf(ReadOps, s("read")) /\ ~NoneOf(ReadOps, s("read"))
      BY <1>1, <1>2, <3>2, EnterLoop
    <3> QED BY <3>1, <3>3 DEF Guarded
  <2>3. CASE ReadNothing
    <3>1. /\ reading' = reading /\ Top.op = "read"
          /\ stack' = s("read0") \/ stack' = Wakeup \o s("read0")
      BY <2>3 DEF ReadNothing, GuestWritesIn, At, Top, readLocals
    <3>2. /\ s("read0") \in Seq(Frame) /\ OneOf(ReadOps, s("read0"))
          /\ ~NoneOf(ReadOps, s("read0")) /\ ~NoneOf(ReadOps, stack)
      BY <1>1, <1>2, <1>7, <3>1, TurnLoop
    <3>3. Same(ReadOps, Wakeup \o s("read0"), s("read0"))
      BY <3>2, WakeupOver
    <3>4. OneOf(ReadOps, stack') /\ ~NoneOf(ReadOps, stack')
      BY <3>1, <3>2, <3>3 DEF Same
    <3> QED BY <1>7, <3>1, <3>2, <3>4 DEF Guarded
  <2>4. CASE ReadAgain
    <3>1. reading' = 1 /\ Top.op = "read0" /\ stack' = s("read")
      BY <2>4 DEF ReadAgain, Become, At, Top
    <3>2. OneOf(ReadOps, s("read")) /\ ~NoneOf(ReadOps, s("read"))
      BY <1>1, <1>2, <1>7, <3>1, TurnLoop
    <3> QED BY <3>1, <3>2 DEF Guarded
  <2>5. CASE ReadEnd
    <3>1. reading' = 0 /\ Top.op \in ReadOps /\ stack' = Tail(stack)
      BY <2>5 DEF ReadEnd, ReturnWith, Return, At, Top, ReadOps
    <3>2. NoneOf(ReadOps, stack')
      BY <1>1, <1>7, <3>1, SamePop DEF Top
    <3> QED BY <3>1, <3>2 DEF Guarded, OneOf, NoneOf
  <2> QED BY <2>1, <2>2, <2>3, <2>4, <2>5
<1> QED BY <1>6, <1>8 DEF LoopInv

\* What WriteSome leaves on the stack: the loop's frame, below a wakeup or bare.
LEMMA WroteFrames ==
  ASSUME NEW op, <<F(op)>> \in Seq(Frame), NEW nested \in {<<>>, Wakeup},
         NEW t \in Seq(Frame)
  PROVE  (nested \o <<F(op)>>) \o t \in {<<F(op)>> \o t, Wakeup \o (<<F(op)>> \o t)}
<1> DEFINE f == <<F(op)>>
<1>1. f \in Seq(Frame) /\ Wakeup \in Seq(Frame)
  BY FrameFacts
<1> HIDE DEF f
<1>2. CASE nested = <<>>
  <2>1. nested \o f = f
    BY <1>1, <1>2, ConcatEmptySeq
  <2> QED BY <2>1 DEF f
<1>3. CASE nested = Wakeup
  <2>1. (Wakeup \o f) \o t = Wakeup \o (f \o t)
    BY <1>1, ConcatAssociative
  <2> QED BY <1>3, <2>1 DEF f
<1> QED BY <1>2, <1>3

LEMMA WriteLoop ==
  ASSUME ConstantsOK, TypeOK, LoopInv,
         \/ WriteNested \/ WriteBegin \/ WriteAll \/ WritePart \/ WriteNone
         \/ WriteRelease \/ WriteAgain \/ WriteEnd
  PROVE  LoopInv'
<1> DEFINE s(op) == <<F(op)>> \o Tail(stack)
<1> USE DEF WriteAll, WritePart, WriteNone
<1>1. /\ stack \in Seq(Frame) /\ stack # <<>> /\ Tail(stack) \in Seq(Frame)
      /\ writing \in 0..2
  BY StackFacts DEF WriteNested, WriteBegin, WriteSome, WriteRelease, WriteAgain, WriteEnd,
                    At, TypeOK, WriteTypes
<1>2. {"write", "wrote", "wrote0"} \subseteq WriteOps \cap Ops /\ "write?" \notin WriteOps
  BY DEF WriteOps, Ops
<1>3. Top.op \notin ReadOps /\ reading' = reading
  BY DEF WriteNested, WriteBegin, WriteSome, WriteRelease, WriteAgain, WriteEnd, At, Top,
         ReadOps, readLocals
<1>4. \A op \in WriteOps : /\ Same(ReadOps, Tail(stack), stack)
                           /\ Same(ReadOps, s(op), stack)
                           /\ Same(ReadOps, Wakeup \o s(op), stack)
  <2>1. SUFFICES ASSUME NEW op \in WriteOps
                 PROVE  /\ Same(ReadOps, Tail(stack), stack)
                        /\ Same(ReadOps, s(op), stack)
                        /\ Same(ReadOps, Wakeup \o s(op), stack)
    OBVIOUS
  <2>2. op \in Ops \ ReadOps
    BY DEF ReadOps, WriteOps, Ops
  <2> QED BY <1>1, <1>3, <2>2, OtherLoop DEF Top
<1>5. OneOf(WriteOps, stack) /\ (writing = 0 <=> NoneOf(WriteOps, stack))
  BY DEF LoopInv, Guarded
<1>6. \A op \in WriteOps : <<F(op)>> \in Seq(Frame) /\ s(op) \in Seq(Frame)
  BY <1>1, <1>2, FrameFacts DEF WriteOps
<1>7. ASSUME Top.op \in WriteOps
      PROVE  \A op \in WriteOps : /\ OneOf(WriteOps, s(op)) /\ ~NoneOf(WriteOps, s(op))
                                  /\ writing # 0
  <2>1. \A op \in WriteOps : op \in WriteOps \cap Ops
    BY DEF WriteOps, Ops
  <2> QED BY <1>1, <1>5, <1>7, <2>1, TurnLoop
<1>8. ASSUME Same(ReadOps, stack', stack) PROVE Guarded(ReadOps, reading', stack')
  BY <1>3, <1>8 DEF LoopInv, Guarded, Same
<1>9. CASE WriteNested
  <2>1. writing' = 2 /\ writing # 0 /\ stack' = Tail(stack) /\ Top.op = "write?"
    BY <1>1, <1>9 DEF WriteNested, InWrite, ReturnWith, Return, At, Top
  <2>2. Same(WriteOps, stack', stack)
    BY <1>1, <1>2, <2>1, SamePop DEF Top
  <2>3. Guarded(WriteOps, writing', stack')
    BY <1>5, <2>1, <2>2 DEF Guarded, Same
  <2>4. Same(ReadOps, stack', stack)
    BY <1>2, <1>4, <2>1
  <2> QED BY <1>8, <2>3, <2>4 DEF LoopInv
<1>10. CASE WriteBegin
  <2>1. writing' = 1 /\ writing = 0 /\ stack' = s("write") /\ Top.op = "write?"
    BY <1>1, <1>10 DEF WriteBegin, InWrite, Become, At, Top
  <2>2. NoneOf(WriteOps, Tail(stack))
    BY <1>1, <1>2, <1>5, <2>1, SamePop DEF Top, Same
  <2>3. OneOf(WriteOps, s("write")) /\ ~NoneOf(WriteOps, s("write"))
    BY <1>1, <1>2, <2>2, EnterLoop
  <2>4. Guarded(WriteOps, writing', stack')
    BY <2>1, <2>3 DEF Guarded
  <2>5. Same(ReadOps, stack', stack)
    BY <1>2, <1>4, <2>1
  <2> QED BY <1>8, <2>4, <2>5 DEF LoopInv
<1>11. CASE WriteAll \/ WritePart \/ WriteNone
  <2>1. PICK op \in WriteOps : WriteSome(op)
    BY <1>11 DEF WriteOps
  <2>2. Top.op \in WriteOps /\ writing' = writing
    BY <2>1 DEF WriteSome, At, Top, WriteOps
  <2>3. PICK nested \in {<<>>, Wakeup} : stack' = (nested \o <<F(op)>>) \o Tail(stack)
    BY <2>1 DEF WriteSome, Become
  <2>6. stack' = s(op) \/ stack' = Wakeup \o s(op)
    <3>1. <<F(op)>> \in Seq(Frame) /\ Tail(stack) \in Seq(Frame)
      BY <1>1, <1>6
    <3> QED BY <2>3, <3>1, WroteFrames
  <2>7. Same(WriteOps, stack', s(op))
    <3>1. s(op) \in Seq(Frame)
      BY <1>6
    <3>2. Same(WriteOps, Wakeup \o s(op), s(op))
      BY <3>1, WakeupOver
    <3>3. Same(WriteOps, s(op), s(op))
      BY DEF Same
    <3> QED BY <2>6, <3>2, <3>3
  <2>8. Guarded(WriteOps, writing', stack')
    BY <1>7, <2>2, <2>7 DEF Guarded, Same
  <2>9. Same(ReadOps, stack', stack)
    BY <1>4, <2>6
  <2> QED BY <1>8, <2>8, <2>9 DEF LoopInv
<1>12. CASE WriteRelease
  <2>1. Release(cur, writeQueue, s("write")) /\ Top.op \in WriteOps
    BY <1>12 DEF WriteRelease, At, Top, WriteOps
  <2>2. "write" \in WriteOps /\ WriteOps \in SUBSET Loops /\ ReadOps \in SUBSET Loops
    BY QuietOps DEF WriteOps
  <2>3. /\ Same(WriteOps, stack', s("write")) /\ Same(ReadOps, stack', s("write"))
        /\ writing' = writing \/ (writing > 0 /\ writing' = 2)
    BY <1>6, <2>1, <2>2, SameRelease
  <2>4. Guarded(WriteOps, writing', stack')
    BY <1>1, <1>7, <2>1, <2>2, <2>3 DEF Guarded, Same
  <2>5. Same(ReadOps, stack', stack)
    BY <1>4, <2>2, <2>3, SameTrans
  <2> QED BY <1>8, <2>4, <2>5 DEF LoopInv
<1>13. CASE WriteAgain
  <2>1. writing' = 1 /\ Top.op \in WriteOps /\ stack' = s("write") /\ "write" \in WriteOps
    BY <1>13 DEF WriteAgain, Become, At, Top, WriteOps
  <2>2. Guarded(WriteOps, writing', stack')
    BY <1>7, <2>1 DEF Guarded
  <2>3. Same(ReadOps, stack', stack)
    BY <1>4, <2>1
  <2> QED BY <1>8, <2>2, <2>3 DEF LoopInv
<1>14. CASE WriteEnd
  <2>1. writing' = 0 /\ Top.op \in WriteOps /\ stack' = Tail(stack)
    BY <1>14 DEF WriteEnd, ReturnWith, Return, At, Top, WriteOps
  <2>2. NoneOf(WriteOps, stack')
    BY <1>1, <1>5, <2>1, SamePop DEF Top
  <2>3. Guarded(WriteOps, writing', stack')
    BY <2>1, <2>2 DEF Guarded, OneOf, NoneOf
  <2>4. Same(ReadOps, stack', stack)
    BY <1>2, <1>4, <2>1
  <2> QED BY <1>8, <2>3, <2>4 DEF LoopInv
<1> QED BY <1>9, <1>10, <1>11, <1>12, <1>13, <1>14

-----------------------------------------------------------------------------
(* The theorems.                                                           *)

LEMMA LoopNext ==
  ASSUME ConstantsOK, TypeOK, LoopInv, [Next]_vars
  PROVE  LoopInv'
<1>1. CASE Reading
  <2>1. CASE ReadNested \/ ReadBegin \/ ReadNothing \/ ReadAgain \/ ReadEnd
    BY <2>1, ReadLoop
  <2>2. CASE \/ ReadRefused \/ ReadMsg \/ ReadDiscard \/ SendDone
             \/ \E c \in Clients : SendNow(c) \/ SendOverflow(c) \/ SendLater(c)
    <3>1. Quiet(ReadOps) /\ Quiet(WriteOps)
      BY <2>2, ReadingQuiet
    <3> QED BY <3>1, QuietLoops
  <2> QED BY <1>1, <2>1, <2>2 DEF Reading
<1>2. CASE Writing
  <2>1. CASE WriteRefused
    <3>1. Quiet(ReadOps) /\ Quiet(WriteOps)
      BY <2>1, WriteQuiet
    <3> QED BY <3>1, QuietLoops
  <2>2. CASE ~WriteRefused
    BY <1>2, <2>2, WriteLoop DEF Writing
  <2> QED BY <2>1, <2>2
<1>3. CASE \E c \in Clients : Channel(c) \/ Pushing(c) \/ Removing(c)
  <2>1. Quiet(ReadOps) /\ Quiet(WriteOps)
    BY <1>3, ChannelQuiet, PushingQuiet, ClientsQuiet
  <2> QED BY <2>1, QuietLoops
<1>4. CASE \/ RemovedEnd \/ StartLoop \/ Destroy \/ ResetRelease \/ ResetQueues
           \/ Migrated \/ FromVM \/ WriteRetry
  <2>1. Quiet(ReadOps) /\ Quiet(WriteOps)
    BY <1>4, DeviceQuiet, WriteQuiet DEF FromVM
  <2> QED BY <2>1, QuietLoops
<1>5. CASE \E c \in Clients : FromClient(c) \/ FromServer(c)
  <2>1. PICK c \in Clients : FromClient(c) \/ FromServer(c)
    BY <1>5
  <2>2. \/ Channel(c) \/ Writable(c) \/ PeerCloses(c)
        \/ \/ Pushing(c) \/ WaitTimeout(c)
           \/ \E n \in 0..MaxSend : TokensSet(c, n) \/ TokensAdd(c, n)
        \/ BufGet(c) \/ BufStale(c) \/ BufAdd(c) \/ BufGiveBack(c)
        \/ \/ Connect(c) \/ ClientDisconnect(c) \/ RestoreLate(c) \/ RestoreNone(c)
           \/ Removing(c) \/ \E n \in 0..MaxSend : ClientAdd(c, n)
    BY <2>1 DEF FromClient, FromServer
  <2>3. Quiet(ReadOps) /\ Quiet(WriteOps)
    BY <2>2, ChannelQuiet, PushingQuiet, BuffersQuiet, ClientsQuiet
  <2> QED BY <2>3, QuietLoops
<1>6. CASE UNCHANGED vars
  <2>1. UNCHANGED <<stack, reading, writing>>
    BY <1>6 DEF vars, readLocals, writeLocals
  <2>2. Quiet(ReadOps) /\ Quiet(WriteOps)
    BY <2>1 DEF Quiet, Same
  <2> QED BY <2>2, QuietLoops
<1> QED BY <1>1, <1>2, <1>3, <1>4, <1>5, <1>6 DEF Next, Running

LEMMA LoopInit ==
  ASSUME Init
  PROVE  LoopInv
<1>1. stack = <<>> /\ reading = 0 /\ writing = 0
  BY DEF Init
<1> QED BY <1>1 DEF LoopInv, Guarded, OneOf, NoneOf

\* The guards of both loops tell the truth: at most one activation of each loop is on
\* the stack, and during_read_from_device and during_write_to_device are zero exactly
\* when there is none, whatever calls nest through sif->write, unrefs and wakeups.
THEOREM LoopsGuarded == Spec => []LoopInv
<1>1. Init => LoopInv
  BY LoopInit
<1>2. TypeOK /\ LoopInv /\ [Next]_vars => LoopInv'
  BY LoopNext, ConstantsOK
<1> QED BY <1>1, <1>2, TypeCorrect, PTL DEF Spec

LEMMA LoopsMean ==
  ASSUME TypeOK, LoopInv
  PROVE  OneReader /\ OneWriter
<1>1. DOMAIN stack = 1..Len(stack)
  BY StackFacts, LenProperties
<1>2. OneReader
  BY <1>1 DEF LoopInv, Guarded, OneOf, NoneOf, OneReader, ReadOps
<1>3. OneWriter
  BY <1>1 DEF LoopInv, Guarded, OneOf, NoneOf, OneWriter, WriteOps
<1> QED BY <1>2, <1>3

\* spice_char_device_read_from_device is never active twice, whatever sends,
\* unrefs and wakeups nest in it, and during_read_from_device says whether it is.
THEOREM OneReaderAlways == Spec => []OneReader
  BY LoopsGuarded, TypeCorrect, LoopsMean, PTL

\* Nor is spice_char_device_write_to_device, whatever sif->write calls back and
\* whatever the release of a buffer sends.
THEOREM OneWriterAlways == Spec => []OneWriter
  BY LoopsGuarded, TypeCorrect, LoopsMean, PTL

=============================================================================

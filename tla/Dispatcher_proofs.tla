-------------------------- MODULE Dispatcher_proofs --------------------------
(***************************************************************************)
(* For any number of sending threads, any message types and any capacity of*)
(* the socket, the dispatcher implements the remote call of its header.    *)
(*                                                                         *)
(* The argument: while the words in the socket are an unbroken stretch of  *)
(* the stream between the receiver's next word and the senders' next word  *)
(* (Stream), the body the receiver collects is the body of the message it  *)
(* is at (Reading); so handlers are given the posted messages, in order.   *)
(* Only the last posted message can be an unserved acknowledged one, since *)
(* its sender keeps the mutex until it reads the answer (Answers).         *)
(***************************************************************************)
EXTENDS Dispatcher, SequenceTheorems, TLAPS

Typed ==
  /\ pc \in [Senders -> {"idle", "lock", "write", "ack", "unlock"}]
  /\ call \in [Senders -> Types \cup {None}]
  /\ mine \in [Senders -> Nat]
  /\ written \in [Senders -> Nat]
  /\ lock \in Senders \cup {None}
  /\ posts \in Seq([from : Senders, type : Types])
  /\ wire \in Seq(Word)
  /\ Len(wire) <= Capacity
  /\ acks \in Nat
  /\ recv \in {"away", "poll", "body", "handle", "ack", "async"}
  /\ rtype \in Types \cup {None}
  /\ payload \in Seq(Word)
  /\ handled \in Seq(Delivery)
  /\ completed \in Seq(Delivery)

\* The mutex is held by the one thread between Lock and Unlock, and a thread
\* has a message number exactly there.
Holding ==
  /\ \A s \in Senders : (lock = s) <=> (pc[s] \in {"write", "ack", "unlock"})
  /\ \A s \in Senders : (pc[s] = "idle") <=> (call[s] = None)
  /\ \A s \in Senders : mine[s] = IF lock = s THEN Len(posts) ELSE 0
  /\ lock # None =>
       /\ posts # <<>>
       /\ posts[Len(posts)].type = call[lock]
       /\ pc[lock] = "write" => written[lock] <= Size[call[lock]]
       /\ pc[lock] = "ack" => AckOf[call[lock]] = "ack"

Before(v, w) == v.n < w.n \/ (v.n = w.n /\ v.part < w.part)

Stream ==
  /\ Framed
  /\ \A i \in 1 .. Len(wire) :
       /\ wire[i].n \in 1 .. Len(posts)
       /\ wire[i].part \in 0 .. Size[posts[wire[i].n].type]
       /\ Before(wire[i], WriterWord)
  /\ ExpectedWord = WriterWord \/ Before(ExpectedWord, WriterWord)

\* The body of message n, as in Meaning(n) of Rpc, up to word m.
BodyUpTo(n, m) == [k \in 1 .. m |-> [n |-> n, part |-> k]]

Reading ==
  /\ Len(handled) <= Len(posts)
  /\ recv \in {"body", "handle"} =>
       /\ Len(handled) < Len(posts)
       /\ rtype = posts[Len(handled) + 1].type
       /\ payload = BodyUpTo(Len(handled) + 1, Len(payload))
  /\ recv = "body" => Len(payload) < Size[rtype]
  /\ recv = "handle" => Len(payload) = Size[rtype]
  /\ recv \in {"ack", "async"} =>
       /\ rtype \in Types
       /\ AckOf[rtype] = recv
       /\ handled # <<>>
       /\ handled[Len(handled)] = [type |-> rtype, body |-> payload]

Answers ==
  /\ acks \in 0 .. 1
  /\ acks = 1 =>
       /\ lock # None
       /\ pc[lock] = "ack"
       /\ Len(handled) = Len(posts)
       /\ recv # "ack"
  /\ recv = "ack" =>
       /\ lock # None
       /\ pc[lock] = "ack"
       /\ Len(handled) = Len(posts)
  /\ \A n \in Len(handled) + 1 .. Len(posts) :
       AckOf[posts[n].type] = "ack" =>
         /\ n = Len(posts)
         /\ lock # None
         /\ pc[lock] \in {"write", "ack"}

IInv == Typed /\ Holding /\ Stream /\ Reading /\ Answers

-----------------------------------------------------------------------------
(* The two ways the stream moves.                                          *)

\* The parts of r, the sequence q with e appended.
LEMMA AppendAt ==
  ASSUME NEW S, NEW q \in Seq(S), NEW e \in S, NEW r, r = Append(q, e)
  PROVE  /\ r \in Seq(S)
         /\ r # <<>>
         /\ Len(r) = Len(q) + 1
         /\ Len(q) \in Nat
         /\ \A i \in 1 .. Len(q) : r[i] = q[i]
         /\ r[Len(r)] = e
<1>1. /\ Append(q, e) \in Seq(S)
      /\ Append(q, e) # <<>>
      /\ Len(Append(q, e)) = Len(q) + 1
      /\ \A i \in 1 .. Len(q) : Append(q, e)[i] = q[i]
      /\ Append(q, e)[Len(q) + 1] = e
  BY AppendProperties, Zenon
<1>2. Len(q) \in Nat
  OBVIOUS
<1>3. QED
  BY <1>1, <1>2, Zenon

\* Every message posted is of a registered type.
LEMMA PostTypes ==
  ASSUME Typed, NEW i \in 1 .. Len(posts)
  PROVE  posts[i].type \in Types /\ Size[posts[i].type] \in Nat
<1>1. posts[i] \in [from : Senders, type : Types]
  <2>1. posts \in Seq([from : Senders, type : Types])
    BY DEF Typed
  <2>2. QED
    BY <2>1, ElementOfSeq
<1>2. posts[i].type \in Types
  BY <1>1
<1>3. QED
  BY <1>2, TypesAssumption

\* The senders' next word is a word of the last message or the type of the
\* next one.
LEMMA WriterWordFacts ==
  ASSUME Typed, Holding
  PROVE  /\ WriterWord \in Word
         /\ WriterWord.n \in 1 .. Len(posts) + 1
         /\ WriterWord.n = Len(posts) + 1 => WriterWord.part = 0
         /\ WriterWord.n <= Len(posts) =>
              WriterWord.part <= Size[posts[WriterWord.n].type]
<1>1. CASE lock # None /\ pc[lock] = "write"
  <2>1. lock \in Senders /\ posts # <<>> /\ Len(posts) \in Nat \ {0}
    BY <1>1 DEF Typed, Holding
  <2>2. WriterWord = [n |-> Len(posts), part |-> written[lock]]
    BY <1>1 DEF WriterWord
  <2>3. written[lock] \in Nat /\ written[lock] <= Size[posts[Len(posts)].type]
    BY <1>1, <2>1 DEF Typed, Holding
  <2>4. QED
    BY <2>1, <2>2, <2>3 DEF Word
<1>2. CASE ~(lock # None /\ pc[lock] = "write")
  <2>1. WriterWord = [n |-> Len(posts) + 1, part |-> 0]
    BY <1>2 DEF WriterWord
  <2>2. QED
    BY <2>1 DEF Typed, Word
<1>3. QED
  BY <1>1, <1>2

\* A step that leaves both ends and what is between them leaves the stream.
LEMMA StreamStays ==
  ASSUME Stream, UNCHANGED <<wire, posts>>,
         WriterWord' = WriterWord, ExpectedWord' = ExpectedWord
  PROVE  Stream'
<1>1. \A w : Succ(w)' = Succ(w)
  BY DEF Succ
<1>2. Framed'
  BY <1>1 DEF Stream, Framed
<1>3. QED
  BY <1>2 DEF Stream, Before

\* The receiver takes the word it expects: it expects the next one then.
LEMMA StreamShrinks ==
  ASSUME Typed, Holding, Stream, wire # <<>>, wire' = Tail(wire),
         UNCHANGED posts, WriterWord' = WriterWord,
         ExpectedWord' = Succ(ExpectedWord)
  PROVE  Stream'
<1> DEFINE W == WriterWord
<1>1. /\ wire' \in Seq(Word)
      /\ Len(wire') = Len(wire) - 1
      /\ Len(wire) \in Nat \ {0}
      /\ \A i \in 1 .. Len(wire') : wire'[i] = wire[i + 1]
  BY HeadTailProperties DEF Typed
<1>2. \A i \in 1 .. Len(wire) :
        /\ wire[i] \in Word
        /\ wire[i].n \in 1 .. Len(posts)
        /\ wire[i].part \in 0 .. Size[posts[wire[i].n].type]
        /\ Before(wire[i], W)
  BY DEF Typed, Stream
<1>3. /\ wire[1] = ExpectedWord
      /\ Succ(wire[Len(wire)]) = W
      /\ \A i \in 1 .. Len(wire) - 1 : wire[i + 1] = Succ(wire[i])
  BY DEF Stream, Framed
<1>4. \A w : Succ(w)' = Succ(w')
  BY DEF Succ
<1>5. ASSUME NEW i \in 1 .. Len(wire')
      PROVE  /\ wire'[i].n \in 1 .. Len(posts)
             /\ wire'[i].part \in 0 .. Size[posts[wire'[i].n].type]
             /\ Before(wire'[i], W)
  BY <1>1, <1>2
<1>6. ASSUME wire' = <<>> PROVE ExpectedWord' = W
  <2>1. Len(wire) = 1
    <3>1. Len(wire') = 0
      BY <1>1, <1>6, EmptySeq
    <3>2. QED
      BY <3>1, <1>1
  <2>2. QED
    BY <2>1, <1>3
<1>7. ASSUME wire' # <<>>
      PROVE  /\ wire'[1] = ExpectedWord'
             /\ Succ(wire'[Len(wire')]) = W
  <2>1. Len(wire') \in Nat \ {0}
    BY <1>1, <1>7
  <2>2. /\ 1 \in 1 .. Len(wire')
        /\ Len(wire') \in 1 .. Len(wire')
        /\ 1 \in 1 .. Len(wire) - 1
    BY <2>1, <1>1
  <2>3. wire'[1] = Succ(wire[1])
    BY <2>2, <1>1, <1>3
  <2>4. wire'[Len(wire')] = wire[Len(wire)]
    BY <2>2, <1>1
  <2>5. QED
    BY <2>3, <2>4, <1>3
<1>8. ASSUME NEW i \in 1 .. Len(wire') - 1
      PROVE  wire'[i + 1] = Succ(wire'[i])
  BY <1>1, <1>3
<1>9. ExpectedWord' = W \/ Before(ExpectedWord', W)
  <2>1. /\ wire[1] \in Word
        /\ wire[1].n \in 1 .. Len(posts)
        /\ wire[1].part \in 0 .. Size[posts[wire[1].n].type]
        /\ Before(wire[1], W)
    BY <1>1, <1>2
  <2>2. /\ W \in Word
        /\ W.n <= Len(posts) => W.part <= Size[posts[W.n].type]
    BY WriterWordFacts
  <2>3. Size[posts[wire[1].n].type] \in Nat
    BY <2>1, PostTypes
  <2>4. ExpectedWord' = Succ(wire[1])
    BY <1>3
  <2>5. CASE wire[1].part < Size[posts[wire[1].n].type]
    <3>1. ExpectedWord' = [n |-> wire[1].n, part |-> wire[1].part + 1]
      BY <2>4, <2>5 DEF Succ
    <3>2. W = [n |-> W.n, part |-> W.part]
      BY <2>2 DEF Word
    <3>3. wire[1].n \in Nat /\ wire[1].part \in Nat /\ W.n \in Nat /\ W.part \in Nat
      BY <2>1, <2>2 DEF Word
    <3>4. ExpectedWord'.n = wire[1].n /\ ExpectedWord'.part = wire[1].part + 1
      BY <3>1
    <3>5. CASE wire[1].n < W.n
      BY <3>4, <3>5 DEF Before
    <3>6. CASE wire[1].n = W.n /\ wire[1].part < W.part
      <4>1. CASE wire[1].part + 1 = W.part
        BY <4>1, <3>1, <3>2, <3>6
      <4>2. CASE wire[1].part + 1 < W.part
        BY <4>2, <3>4, <3>6 DEF Before
      <4>3. QED
        BY <4>1, <4>2, <3>3, <3>6
    <3>7. QED
      BY <3>5, <3>6, <2>1 DEF Before
  <2>6. CASE ~(wire[1].part < Size[posts[wire[1].n].type])
    <3>1. ExpectedWord' = [n |-> wire[1].n + 1, part |-> 0]
      BY <2>4, <2>6 DEF Succ
    <3>2. W = [n |-> W.n, part |-> W.part]
      BY <2>2 DEF Word
    <3>3. wire[1].n \in Nat /\ wire[1].part \in Nat /\ W.n \in Nat /\ W.part \in Nat
      BY <2>1, <2>2 DEF Word
    <3>4. wire[1].part = Size[posts[wire[1].n].type]
      BY <2>1, <2>3, <2>6
    <3>5. wire[1].n < W.n
      <4>1. CASE wire[1].n = W.n
        BY <4>1, <3>3, <3>4, <2>1, <2>2 DEF Before
      <4>2. QED
        BY <4>1, <2>1 DEF Before
    <3>6. ExpectedWord'.n = wire[1].n + 1 /\ ExpectedWord'.part = 0
      BY <3>1
    <3>7. CASE wire[1].n + 1 = W.n
      <4>1. CASE W.part = 0
        BY <4>1, <3>1, <3>2, <3>7
      <4>2. CASE W.part > 0
        BY <4>2, <3>6, <3>7 DEF Before
      <4>3. QED
        BY <4>1, <4>2, <3>3
    <3>8. CASE wire[1].n + 1 < W.n
      BY <3>8, <3>6 DEF Before
    <3>9. QED
      BY <3>3, <3>5, <3>7, <3>8
  <2>7. QED
    BY <2>5, <2>6
<1>10. Framed'
  BY <1>4, <1>6, <1>7, <1>8 DEF Framed, Succ
<1>11. QED
  BY <1>5, <1>9, <1>10 DEF Stream, Before

\* A sender puts the word that is due.
LEMMA StreamGrows ==
  ASSUME Typed, Holding, Stream, WriterWord.n <= Len(posts),
         wire' = Append(wire, WriterWord), UNCHANGED posts,
         WriterWord' = Succ(WriterWord), ExpectedWord' = ExpectedWord
  PROVE  Stream'
<1> DEFINE W == WriterWord
<1>1. /\ W \in Word
      /\ W.n \in 1 .. Len(posts)
      /\ W.part \in 0 .. Size[posts[W.n].type]
  BY WriterWordFacts, TypesAssumption DEF Word, Typed
<1>2. /\ wire' \in Seq(Word)
      /\ wire' # <<>>
      /\ Len(wire') = Len(wire) + 1
      /\ Len(wire) \in Nat
      /\ \A i \in 1 .. Len(wire) : wire'[i] = wire[i]
      /\ wire'[Len(wire) + 1] = W
  <2>1. wire \in Seq(Word)
    BY DEF Typed
  <2>2. /\ wire' \in Seq(Word)
        /\ wire' # <<>>
        /\ Len(wire') = Len(wire) + 1
        /\ Len(wire) \in Nat
        /\ \A i \in 1 .. Len(wire) : wire'[i] = wire[i]
        /\ wire'[Len(wire')] = W
    BY <2>1, <1>1, AppendAt
  <2>3. QED
    BY <2>2, Zenon
<1>3. \A i \in 1 .. Len(wire) :
        /\ wire[i] \in Word
        /\ wire[i].n \in 1 .. Len(posts)
        /\ wire[i].part \in 0 .. Size[posts[wire[i].n].type]
        /\ Before(wire[i], W)
  BY DEF Typed, Stream
<1>4. /\ Succ(W).n \in Nat
      /\ Succ(W).part \in Nat
      /\ Before(W, Succ(W))
  <2>1. W.n \in Nat /\ W.part \in Nat
    BY <1>1 DEF Word
  <2>2. CASE W.part < Size[posts[W.n].type]
    <3>1. Succ(W) = [n |-> W.n, part |-> W.part + 1]
      BY <2>2 DEF Succ
    <3>2. Succ(W).n = W.n /\ Succ(W).part = W.part + 1
      BY <3>1
    <3>3. QED
      BY <2>1, <3>2 DEF Before
  <2>3. CASE ~(W.part < Size[posts[W.n].type])
    <3>1. Succ(W) = [n |-> W.n + 1, part |-> 0]
      BY <2>3 DEF Succ
    <3>2. Succ(W).n = W.n + 1 /\ Succ(W).part = 0
      BY <3>1
    <3>3. QED
      BY <2>1, <3>2 DEF Before
  <2>4. QED
    BY <2>2, <2>3
<1>5. ASSUME NEW i \in 1 .. Len(wire')
      PROVE  /\ wire'[i].n \in 1 .. Len(posts)
             /\ wire'[i].part \in 0 .. Size[posts[wire'[i].n].type]
             /\ Before(wire'[i], Succ(W))
  <2>1. CASE i \in 1 .. Len(wire)
    <3>1. wire[i].n \in Nat /\ wire[i].part \in Nat
      BY <2>1, <1>3 DEF Word
    <3>2. W.n \in Nat /\ W.part \in Nat
      BY <1>1 DEF Word
    <3>3. Before(wire[i], Succ(W))
      <4>1. Before(wire[i], W) /\ Before(W, Succ(W))
        BY <2>1, <1>3, <1>4
      <4>2. Succ(W).n \in Nat /\ Succ(W).part \in Nat
        BY <1>4
      <4> HIDE DEF W
      <4>3. QED
        BY <3>1, <3>2, <4>1, <4>2 DEF Before
    <3>4. wire'[i] = wire[i]
      BY <2>1, <1>2
    <3>5. /\ wire[i].n \in 1 .. Len(posts)
          /\ wire[i].part \in 0 .. Size[posts[wire[i].n].type]
      BY <2>1, <1>3
    <3>6. QED
      BY <3>3, <3>4, <3>5, Zenon
  <2>2. CASE i = Len(wire) + 1
    BY <2>2, <1>1, <1>2, <1>4
  <2>3. QED
    BY <2>1, <2>2, <1>2
<1>6. wire'[1] = ExpectedWord
  <2>1. CASE wire = <<>>
    <3>1. Len(wire) = 0 /\ ExpectedWord = W
      BY <2>1 DEF Stream, Framed
    <3>2. QED
      BY <3>1, <1>2
  <2>2. CASE wire # <<>>
    <3>1. 1 \in 1 .. Len(wire) /\ wire[1] = ExpectedWord
      BY <2>2, <1>2 DEF Stream, Framed, Typed
    <3>2. QED
      BY <3>1, <1>2
  <2>3. QED
    BY <2>1, <2>2
<1>7. ASSUME NEW i \in 1 .. Len(wire') - 1
      PROVE  wire'[i + 1] = Succ(wire'[i])
  <2>1. CASE i \in 1 .. Len(wire) - 1
    BY <2>1, <1>2 DEF Stream, Framed
  <2>2. CASE i = Len(wire)
    <3>1. wire # <<>> /\ i \in 1 .. Len(wire)
      BY <2>2, <1>2
    <3>2. Succ(wire[Len(wire)]) = W
      BY <3>1 DEF Stream, Framed
    <3>3. QED
      BY <2>2, <3>1, <3>2, <1>2
  <2>3. QED
    BY <2>1, <2>2, <1>2
<1>8. ExpectedWord = Succ(W) \/ Before(ExpectedWord, Succ(W))
  <2>1. /\ 1 \in 1 .. Len(wire')
        /\ Before(wire'[1], Succ(W))
    BY <1>2, <1>5
  <2>2. QED
    BY <2>1, <1>6
<1>9. Framed'
  BY <1>2, <1>6, <1>7 DEF Framed, Succ
<1>10. QED
  BY <1>5, <1>8, <1>9 DEF Stream, Before

-----------------------------------------------------------------------------
(* One lemma for each action.                                              *)

LEMMA InitIInv == Init => IInv
<1> SUFFICES ASSUME Init PROVE IInv
  OBVIOUS
<1> USE TypesAssumption, BoundsAssumption DEF Init
<1>1. Typed
  BY DEF Typed
<1>2. Holding
  BY DEF Holding
<1>3. Stream
  BY DEF Stream, Framed, ExpectedWord, WriterWord, Before
<1>4. Reading
  BY DEF Reading
<1>5. Answers
  BY DEF Answers
<1>6. QED
  BY <1>1, <1>2, <1>3, <1>4, <1>5 DEF IInv

LEMMA AskIInv ==
  ASSUME NEW s \in Senders, NEW t \in Types, IInv, Ask(s, t)
  PROVE  IInv'
<1> USE TypesAssumption, BoundsAssumption DEF IInv, Ask, senderVars, recvVars
<1>1. Typed'
  BY DEF Typed, Word, Delivery
<1>2. Holding'
  BY DEF Typed, Holding
<1>3. Stream'
  <2>1. WriterWord' = WriterWord /\ ExpectedWord' = ExpectedWord
    BY DEF Typed, Holding, WriterWord, ExpectedWord
  <2>2. Stream /\ UNCHANGED <<wire, posts>>
    OBVIOUS
  <2>3. QED
    BY <2>1, <2>2, StreamStays
<1>4. Reading'
  BY DEF Typed, Reading, BodyUpTo
<1>5. Answers'
  BY SMTT(20) DEF Typed, Holding, Reading, Answers
<1>6. QED
  BY <1>1, <1>2, <1>3, <1>4, <1>5

LEMMA LockIInv ==
  ASSUME NEW s \in Senders, IInv, Lock(s)
  PROVE  IInv'
<1> USE TypesAssumption, BoundsAssumption DEF IInv
<1> DEFINE m == [from |-> s, type |-> call[s]]
<1>1. /\ pc[s] = "lock" /\ lock = None /\ lock' = s /\ s # None
      /\ pc' = [pc EXCEPT ![s] = "write"]
      /\ mine' = [mine EXCEPT ![s] = Len(posts')]
      /\ written' = [written EXCEPT ![s] = 0]
      /\ UNCHANGED <<call, wire, acks, recv, rtype, payload, handled, completed>>
  BY DEF Lock, recvVars
<1>2. call[s] \in Types /\ m \in [from : Senders, type : Types]
  BY <1>1 DEF Typed, Holding
<1>3. /\ posts' \in Seq([from : Senders, type : Types])
      /\ posts' # <<>>
      /\ Len(posts') = Len(posts) + 1
      /\ Len(posts) \in Nat
      /\ \A i \in 1 .. Len(posts) : posts'[i] = posts[i]
      /\ posts'[Len(posts')].type = call[s]
  <2>1. posts' = Append(posts, m)
    BY DEF Lock
  <2>2. posts \in Seq([from : Senders, type : Types])
    BY DEF Typed
  <2>3. /\ posts' \in Seq([from : Senders, type : Types])
        /\ posts' # <<>>
        /\ Len(posts') = Len(posts) + 1
        /\ Len(posts) \in Nat
        /\ \A i \in 1 .. Len(posts) : posts'[i] = posts[i]
        /\ posts'[Len(posts')] = m
    BY <2>1, <2>2, <1>2, AppendAt
  <2>4. posts'[Len(posts')].type = call[s]
    BY <2>3
  <2>5. QED
    BY <2>3, <2>4, Zenon
<1>4. Typed'
  <2>1. pc' \in [Senders -> {"idle", "lock", "write", "ack", "unlock"}]
    BY <1>1 DEF Typed
  <2>2. mine' \in [Senders -> Nat] /\ written' \in [Senders -> Nat]
    <3>1. Len(posts') \in Nat
      BY <1>3
    <3>2. QED
      BY <3>1, <1>1 DEF Typed
  <2>3. lock' \in Senders \cup {None}
    BY <1>1
  <2>4. posts' \in Seq([from : Senders, type : Types])
    BY <1>3
  <2>5. QED
    BY <2>1, <2>2, <2>3, <2>4, <1>1 DEF Typed, Word, Delivery
<1>5. Holding'
  <2>1. \A r \in Senders : (lock' = r) <=> (pc'[r] \in {"write", "ack", "unlock"})
    BY <1>1 DEF Typed, Holding
  <2>2. \A r \in Senders : (pc'[r] = "idle") <=> (call'[r] = None)
    BY <1>1 DEF Typed, Holding
  <2>3. \A r \in Senders : mine'[r] = IF lock' = r THEN Len(posts') ELSE 0
    BY <1>1 DEF Typed, Holding
  <2>4. /\ posts' # <<>>
        /\ posts'[Len(posts')].type = call'[lock']
        /\ written'[lock'] <= Size[call'[lock']]
        /\ pc'[lock'] # "ack"
    BY <1>1, <1>2, <1>3 DEF Typed
  <2>5. QED
    BY <2>1, <2>2, <2>3, <2>4 DEF Holding
<1>6. Stream'
  <2>1. WriterWord = [n |-> Len(posts) + 1, part |-> 0]
    BY <1>1 DEF WriterWord
  <2>2. WriterWord' = WriterWord
    <3>1. pc'[s] = "write" /\ written'[s] = 0
      BY <1>1 DEF Typed
    <3>2. WriterWord' = [n |-> Len(posts'), part |-> 0]
      BY <1>1, <3>1 DEF WriterWord
    <3>3. QED
      BY <2>1, <3>2, <1>3
  <2>3. ExpectedWord' = ExpectedWord
    BY <1>1 DEF ExpectedWord
  <2>4. \A i \in 1 .. Len(wire) :
          /\ wire[i].n \in 1 .. Len(posts')
          /\ posts'[wire[i].n] = posts[wire[i].n]
          /\ wire[i].part \in 0 .. Size[posts'[wire[i].n].type]
          /\ Before(wire[i], WriterWord)
          /\ Succ(wire[i])' = Succ(wire[i])
    <3>1. SUFFICES ASSUME NEW i \in 1 .. Len(wire)
                   PROVE  /\ wire[i].n \in 1 .. Len(posts')
                          /\ posts'[wire[i].n] = posts[wire[i].n]
                          /\ wire[i].part \in 0 .. Size[posts'[wire[i].n].type]
                          /\ Before(wire[i], WriterWord)
                          /\ Succ(wire[i])' = Succ(wire[i])
      OBVIOUS
    <3>2. /\ wire[i].n \in 1 .. Len(posts)
          /\ wire[i].part \in 0 .. Size[posts[wire[i].n].type]
          /\ Before(wire[i], WriterWord)
      BY DEF Stream
    <3>3. posts'[wire[i].n] = posts[wire[i].n]
      BY <3>2, <1>3
    <3>4. wire[i].n \in 1 .. Len(posts')
      BY <3>2, <1>3
    <3>5. wire' = wire
      BY <1>1
    <3>6. Succ(wire[i])' = Succ(wire[i])
      BY <3>3, <3>5, Zenon DEF Succ
    <3>7. QED
      BY <3>2, <3>3, <3>4, <3>6
  <2>5. Framed'
    <3>1. Len(wire) \in Nat /\ (wire # <<>> => Len(wire) \in 1 .. Len(wire))
      BY DEF Typed
    <3>2. QED
      BY <2>2, <2>3, <2>4, <3>1, <1>1 DEF Framed, Stream
  <2>6. QED
    BY <2>2, <2>3, <2>4, <2>5, <1>1 DEF Stream, Before
<1>7. Reading'
  <2>1. Len(handled) \in Nat /\ Len(handled) <= Len(posts')
    <3>1. Len(handled) \in Nat
      BY DEF Typed
    <3>2. Len(handled) <= Len(posts)
      BY DEF Reading
    <3>3. QED
      BY <3>1, <3>2, <1>3
  <2>2. ASSUME recv \in {"body", "handle"}
        PROVE  /\ Len(handled) < Len(posts')
               /\ rtype = posts'[Len(handled) + 1].type
               /\ payload = BodyUpTo(Len(handled) + 1, Len(payload))
    <3>1. Len(handled) + 1 \in 1 .. Len(posts)
      BY <2>1, <2>2, <1>3 DEF Reading
    <3>2. posts'[Len(handled) + 1] = posts[Len(handled) + 1]
      BY <3>1, <1>3
    <3>3. QED
      BY <2>2, <3>1, <3>2, <1>3 DEF Reading
  <2>3. QED
    BY <2>1, <2>2, <1>1 DEF Reading, BodyUpTo
<1>8. Answers'
  <2>1. acks' = 0 /\ recv' # "ack"
    BY <1>1 DEF Answers
  <2>2. ASSUME NEW n \in Len(handled) + 1 .. Len(posts'),
               AckOf[posts'[n].type] = "ack"
        PROVE  n = Len(posts')
    <3>1. Len(handled) \in Nat
      BY DEF Typed
    <3>2. CASE n \in Len(handled) + 1 .. Len(posts)
      <4>1. n \in 1 .. Len(posts)
        BY <3>1, <3>2, <1>3
      <4>2. posts'[n] = posts[n]
        BY <4>1, <1>3
      <4>3. QED
        BY <3>2, <4>2, <2>2, <1>1 DEF Answers
    <3>3. QED
      BY <3>1, <3>2, <1>3
  <2>3. pc'[lock'] = "write" /\ lock' # None
    BY <1>1 DEF Typed
  <2>4. QED
    BY <2>1, <2>2, <2>3, <1>1 DEF Answers
<1>9. QED
  BY <1>4, <1>5, <1>6, <1>7, <1>8

LEMMA WriteIInv ==
  ASSUME NEW s \in Senders, IInv, Write(s)
  PROVE  IInv'
<1> USE TypesAssumption, BoundsAssumption DEF IInv
<1> DEFINE last == ~(written[s] < Size[call[s]])
<1>1. /\ pc[s] = "write" /\ Len(wire) < Capacity
      /\ written' = [written EXCEPT ![s] = @ + 1]
      /\ pc' = [pc EXCEPT ![s] = IF written[s] < Size[call[s]]
                                 THEN "write" ELSE AfterBody(call[s])]
      /\ UNCHANGED <<call, mine, lock, posts, acks, recv, rtype, payload,
                     handled, completed>>
  BY DEF Write, recvVars
<1>2. /\ lock = s /\ s # None
      /\ call[s] \in Types
      /\ mine[s] = Len(posts)
      /\ Len(posts) \in Nat \ {0}
      /\ posts[Len(posts)].type = call[s]
      /\ written[s] \in Nat
      /\ written[s] <= Size[call[s]]
      /\ Size[call[s]] \in Nat
  <2>1. lock = s /\ s # None /\ call[s] \in Types
    BY <1>1 DEF Typed, Holding
  <2>2. mine[s] = Len(posts) /\ posts # <<>> /\ posts[Len(posts)].type = call[s]
        /\ written[s] <= Size[call[s]]
    BY <1>1, <2>1 DEF Holding
  <2>3. Len(posts) \in Nat \ {0} /\ written[s] \in Nat
    BY <2>2, EmptySeq DEF Typed
  <2>4. QED
    BY <2>1, <2>2, <2>3
<1>3. /\ WriterWord = [n |-> Len(posts), part |-> written[s]]
      /\ WriterWord \in Word
      /\ wire' = Append(wire, WriterWord)
  <2>1. WriterWord = [n |-> Len(posts), part |-> written[s]]
    BY <1>1, <1>2 DEF WriterWord
  <2>2. wire' = Append(wire, WriterWord)
    BY <1>2, <2>1 DEF Write
  <2>3. QED
    BY <1>2, <2>1, <2>2 DEF Word
<1>4. AfterBody(call[s]) = IF AckOf[call[s]] = "ack" THEN "ack" ELSE "unlock"
  BY DEF AfterBody
<1>5. Typed'
  <2>1. wire' \in Seq(Word) /\ Len(wire') = Len(wire) + 1 /\ Len(wire) \in Nat
    BY <1>3, AppendProperties DEF Typed
  <2>2. Len(wire') <= Capacity
    BY <2>1, <1>1
  <2>3. pc' \in [Senders -> {"idle", "lock", "write", "ack", "unlock"}]
    BY <1>1, <1>4 DEF Typed
  <2>4. written' \in [Senders -> Nat]
    BY <1>1 DEF Typed
  <2>5. QED
    BY <2>1, <2>2, <2>3, <2>4, <1>1 DEF Typed, Word, Delivery
<1>6. Holding'
  <2>1. pc'[s] \in {"write", "ack", "unlock"} /\ \A r \in Senders \ {s} : pc'[r] = pc[r]
    BY <1>1, <1>4 DEF Typed
  <2>2. \A r \in Senders : (lock' = r) <=> (pc'[r] \in {"write", "ack", "unlock"})
    BY <2>1, <1>1, <1>2 DEF Holding
  <2>3. \A r \in Senders : (pc'[r] = "idle") <=> (call'[r] = None)
    BY <2>1, <1>1 DEF Holding
  <2>4. pc'[s] = "write" => written'[s] <= Size[call'[s]]
    BY <1>1, <1>2, <1>4 DEF Typed
  <2>5. pc'[s] = "ack" => AckOf[call'[s]] = "ack"
    BY <1>1, <1>4 DEF Typed
  <2>6. QED
    BY <2>2, <2>3, <2>4, <2>5, <1>1, <1>2 DEF Holding
<1>7. Stream'
  <2>1. WriterWord.n = Len(posts) /\ WriterWord.part = written[s]
    BY <1>3
  <2>2. WriterWord' = Succ(WriterWord)
    <3>1. CASE written[s] < Size[call[s]]
      <4>1. pc'[s] = "write" /\ written'[s] = written[s] + 1
        BY <3>1, <1>1 DEF Typed
      <4>2. WriterWord' = [n |-> Len(posts), part |-> written[s] + 1]
        BY <4>1, <1>1, <1>2 DEF WriterWord
      <4>3. QED
        BY <3>1, <4>2, <2>1, <1>2 DEF Succ
    <3>2. CASE last
      <4>1. pc'[s] # "write"
        BY <3>2, <1>1, <1>4 DEF Typed
      <4>2. WriterWord' = [n |-> Len(posts) + 1, part |-> 0]
        BY <4>1, <1>1, <1>2 DEF WriterWord
      <4>3. QED
        BY <3>2, <4>2, <2>1, <1>2 DEF Succ
    <3>3. QED
      BY <3>1, <3>2
  <2>3. ExpectedWord' = ExpectedWord
    BY <1>1 DEF ExpectedWord
  <2>4. QED
    BY <2>1, <2>2, <2>3, <1>1, <1>2, <1>3, StreamGrows
<1>8. Reading'
  BY <1>1 DEF Typed, Reading, BodyUpTo
<1>9. Answers'
  <2>1. pc[lock] # "ack" /\ acks = 0 /\ recv # "ack"
    BY <1>1, <1>2 DEF Answers
  <2>2. ASSUME NEW n \in Len(handled) + 1 .. Len(posts),
               AckOf[posts[n].type] = "ack"
        PROVE  n = Len(posts) /\ pc'[s] \in {"write", "ack"}
    <3>1. n = Len(posts)
      BY <2>2 DEF Answers
    <3>2. AckOf[call[s]] = "ack"
      BY <3>1, <2>2, <1>2
    <3>3. QED
      BY <3>1, <3>2, <1>1, <1>4 DEF Typed
  <2>3. QED
    BY <2>1, <2>2, <1>1, <1>2 DEF Answers
<1>10. QED
  BY <1>5, <1>6, <1>7, <1>8, <1>9

LEMMA ReadAckIInv ==
  ASSUME NEW s \in Senders, IInv, ReadAck(s)
  PROVE  IInv'
<1> USE TypesAssumption, BoundsAssumption DEF IInv, ReadAck, senderVars, recvVars
<1>1. Typed'
  BY DEF Typed, Word, Delivery
<1>2. Holding'
  BY DEF Typed, Holding
<1>3. Stream'
  <2>1. WriterWord' = WriterWord /\ ExpectedWord' = ExpectedWord
    BY DEF Typed, Holding, WriterWord, ExpectedWord
  <2>2. Stream /\ UNCHANGED <<wire, posts>>
    OBVIOUS
  <2>3. QED
    BY <2>1, <2>2, StreamStays
<1>4. Reading'
  BY DEF Typed, Reading, BodyUpTo
<1>5. Answers'
  BY DEF Typed, Holding, Reading, Answers
<1>6. QED
  BY <1>1, <1>2, <1>3, <1>4, <1>5

LEMMA UnlockIInv ==
  ASSUME NEW s \in Senders, IInv, Unlock(s)
  PROVE  IInv'
<1> USE TypesAssumption, BoundsAssumption DEF IInv, Unlock, senderVars, recvVars
<1>1. Typed'
  BY DEF Typed, Word, Delivery
<1>2. Holding'
  BY DEF Typed, Holding
<1>3. Stream'
  <2>1. WriterWord' = WriterWord /\ ExpectedWord' = ExpectedWord
    BY DEF Typed, Holding, WriterWord, ExpectedWord
  <2>2. Stream /\ UNCHANGED <<wire, posts>>
    OBVIOUS
  <2>3. QED
    BY <2>1, <2>2, StreamStays
<1>4. Reading'
  BY DEF Typed, Reading, BodyUpTo
<1>5. Answers'
  BY DEF Typed, Holding, Reading, Answers
<1>6. QED
  BY <1>1, <1>2, <1>3, <1>4, <1>5

LEMMA WakeIInv ==
  ASSUME IInv, Wake
  PROVE  IInv'
<1> USE TypesAssumption, BoundsAssumption DEF IInv, Wake, senderVars, recvVars
<1>1. Typed'
  BY DEF Typed, Word, Delivery
<1>2. Holding'
  BY DEF Typed, Holding
<1>3. Stream'
  <2>1. WriterWord' = WriterWord /\ ExpectedWord' = ExpectedWord
    BY DEF Typed, Holding, WriterWord, ExpectedWord
  <2>2. Stream /\ UNCHANGED <<wire, posts>>
    OBVIOUS
  <2>3. QED
    BY <2>1, <2>2, StreamStays
<1>4. Reading'
  BY DEF Typed, Reading, BodyUpTo
<1>5. Answers'
  BY DEF Typed, Holding, Reading, Answers
<1>6. QED
  BY <1>1, <1>2, <1>3, <1>4, <1>5

LEMMA NoMessageIInv ==
  ASSUME IInv, NoMessage
  PROVE  IInv'
<1> USE TypesAssumption, BoundsAssumption DEF IInv, NoMessage, senderVars, recvVars
<1>1. Typed'
  BY DEF Typed, Word, Delivery
<1>2. Holding'
  BY DEF Typed, Holding
<1>3. Stream'
  <2>1. WriterWord' = WriterWord /\ ExpectedWord' = ExpectedWord
    BY DEF Typed, Holding, WriterWord, ExpectedWord
  <2>2. Stream /\ UNCHANGED <<wire, posts>>
    OBVIOUS
  <2>3. QED
    BY <2>1, <2>2, StreamStays
<1>4. Reading'
  BY DEF Typed, Reading, BodyUpTo
<1>5. Answers'
  BY DEF Typed, Holding, Reading, Answers
<1>6. QED
  BY <1>1, <1>2, <1>3, <1>4, <1>5

LEMMA ReadTypeIInv ==
  ASSUME IInv, ReadType
  PROVE  IInv'
<1> USE TypesAssumption, BoundsAssumption DEF IInv
<1> DEFINE h == Len(handled)
<1>1. /\ recv = "poll" /\ wire # <<>> /\ wire' = Tail(wire)
      /\ rtype' = TypeOf(Head(wire)) /\ payload' = <<>>
      /\ recv' = IF Size[rtype'] = 0 THEN "handle" ELSE "body"
      /\ UNCHANGED <<pc, call, mine, written, lock, posts, acks, handled, completed>>
  BY DEF ReadType, senderVars
<1>2. /\ wire' \in Seq(Word) /\ Len(wire') = Len(wire) - 1
      /\ Len(wire) \in Nat \ {0}
      /\ Head(wire) = wire[1]
  BY <1>1, HeadTailProperties DEF Typed
<1>3. /\ wire[1] = [n |-> h + 1, part |-> 0]
      /\ wire[1].n \in 1 .. Len(posts)
      /\ h \in Nat
  <2>1. h \in Nat /\ 1 \in 1 .. Len(wire)
    BY <1>2 DEF Typed
  <2>2. ExpectedWord = [n |-> h + 1, part |-> 0]
    BY <1>1 DEF ExpectedWord
  <2>3. QED
    BY <2>1, <2>2, <1>1 DEF Stream, Framed
<1>4. /\ wire[1].n = h + 1 /\ wire[1].part = 0
      /\ h + 1 \in 1 .. Len(posts)
  BY <1>3
<1>5. /\ rtype' = posts[h + 1].type
      /\ rtype' \in Types
      /\ Size[rtype'] \in Nat
  <2>1. rtype' = posts[h + 1].type
    BY <1>1, <1>2, <1>4 DEF TypeOf
  <2>2. QED
    BY <2>1, <1>4, PostTypes
<1>6. Typed'
  <2>1. Len(wire') <= Capacity
    BY <1>2 DEF Typed
  <2>2. payload' \in Seq(Word)
    BY <1>1
  <2>3. QED
    BY <2>1, <2>2, <1>1, <1>2, <1>5 DEF Typed, Word, Delivery
<1>7. Holding'
  BY <1>1 DEF Typed, Holding
<1>8. Stream'
  <2>1. WriterWord' = WriterWord
    BY <1>1 DEF WriterWord
  <2>2. ExpectedWord = [n |-> h + 1, part |-> 0]
    BY <1>1 DEF ExpectedWord
  <2>3. ExpectedWord.n = h + 1 /\ ExpectedWord.part = 0
    BY <2>2
  <2>4. ExpectedWord' = Succ(ExpectedWord)
    <3>1. CASE Size[rtype'] = 0
      <4>1. ExpectedWord' = [n |-> h + 2, part |-> 0]
        BY <3>1, <1>1 DEF ExpectedWord
      <4>2. Succ(ExpectedWord) = [n |-> h + 1 + 1, part |-> 0]
        BY <3>1, <2>3, <1>5 DEF Succ
      <4>3. QED
        BY <4>1, <4>2, <1>3
    <3>2. CASE Size[rtype'] # 0
      <4>1. ExpectedWord' = [n |-> h + 1, part |-> 1]
        BY <3>2, <1>1 DEF ExpectedWord
      <4>2. Succ(ExpectedWord) = [n |-> h + 1, part |-> 1]
        BY <3>2, <2>3, <1>5 DEF Succ
      <4>3. QED
        BY <4>1, <4>2
    <3>3. QED
      BY <3>1, <3>2
  <2>5. QED
    BY <2>1, <2>4, <1>1, StreamShrinks
<1>9. Reading'
  <2>1. payload' = BodyUpTo(h + 1, 0) /\ Len(payload') = 0
    BY <1>1 DEF BodyUpTo
  <2>2. Reading' <=>
          /\ h <= Len(posts)
          /\ h < Len(posts)
          /\ rtype' = posts[h + 1].type
          /\ payload' = BodyUpTo(h + 1, 0)
          /\ recv' = "body" => 0 < Size[rtype']
          /\ recv' = "handle" => 0 = Size[rtype']
    BY <2>1, <1>1 DEF Reading, BodyUpTo
  <2>3. h < Len(posts) /\ h <= Len(posts)
    <3>1. Len(posts) \in Nat
      BY DEF Typed
    <3>2. QED
      BY <3>1, <1>3, <1>4
  <2>4. QED
    BY <2>1, <2>2, <2>3, <1>1, <1>5
<1>10. Answers'
  BY <1>1 DEF Typed, Answers
<1>11. QED
  BY <1>6, <1>7, <1>8, <1>9, <1>10

LEMMA ReadBodyIInv ==
  ASSUME IInv, ReadBody
  PROVE  IInv'
<1> USE TypesAssumption, BoundsAssumption DEF IInv
<1> DEFINE h == Len(handled)
           k == Len(payload)
<1>1. /\ recv = "body" /\ wire # <<>> /\ wire' = Tail(wire)
      /\ recv' = IF Len(payload') = Size[rtype] THEN "handle" ELSE "body"
      /\ UNCHANGED <<pc, call, mine, written, lock, posts, acks, rtype, handled,
                     completed>>
  BY DEF ReadBody, senderVars
<1>2. /\ wire' \in Seq(Word) /\ Len(wire') = Len(wire) - 1
      /\ Len(wire) \in Nat \ {0}
      /\ Head(wire) = wire[1]
      /\ wire[1] \in Word
  BY <1>1, HeadTailProperties DEF Typed
<1>3. /\ wire[1] = [n |-> h + 1, part |-> k + 1]
      /\ h \in Nat /\ k \in Nat
      /\ h < Len(posts) /\ Len(posts) \in Nat
      /\ rtype = posts[h + 1].type
      /\ k < Size[rtype]
  <2>1. h \in Nat /\ k \in Nat /\ Len(posts) \in Nat
    BY DEF Typed
  <2>2. ExpectedWord = [n |-> h + 1, part |-> k + 1]
    BY <1>1 DEF ExpectedWord
  <2>3. wire[1] = ExpectedWord
    BY <1>1 DEF Stream, Framed
  <2>4. QED
    BY <2>1, <2>2, <2>3, <1>1 DEF Reading
<1>4. /\ payload' \in Seq(Word)
      /\ Len(payload') = k + 1
      /\ \A i \in 1 .. k : payload'[i] = payload[i]
      /\ payload'[k + 1] = [n |-> h + 1, part |-> k + 1]
  <2>1. payload' = Append(payload, wire[1])
    BY <1>2 DEF ReadBody
  <2>2. QED
    BY <2>1, <1>2, <1>3, AppendProperties DEF Typed
<1>5. rtype \in Types /\ Size[rtype] \in Nat
  <2>1. h + 1 \in 1 .. Len(posts)
    BY <1>3
  <2>2. QED
    BY <2>1, <1>3, PostTypes
<1>6. Typed'
  <2>1. Len(wire') <= Capacity
    BY <1>2 DEF Typed
  <2>2. QED
    BY <2>1, <1>1, <1>2, <1>4 DEF Typed, Word, Delivery
<1>7. Holding'
  BY <1>1 DEF Typed, Holding
<1>8. Stream'
  <2>1. WriterWord' = WriterWord
    BY <1>1 DEF WriterWord
  <2>2. ExpectedWord = [n |-> h + 1, part |-> k + 1]
    BY <1>1 DEF ExpectedWord
  <2>3. ExpectedWord.n = h + 1 /\ ExpectedWord.part = k + 1
    BY <2>2
  <2>4. ExpectedWord' = Succ(ExpectedWord)
    <3>1. CASE k + 1 = Size[rtype]
      <4>1. ExpectedWord' = [n |-> h + 2, part |-> 0]
        BY <3>1, <1>1, <1>4 DEF ExpectedWord
      <4>2. Succ(ExpectedWord) = [n |-> h + 1 + 1, part |-> 0]
        BY <3>1, <2>3, <1>3, <1>5 DEF Succ
      <4>3. QED
        BY <4>1, <4>2, <1>3
    <3>2. CASE k + 1 # Size[rtype]
      <4>1. ExpectedWord' = [n |-> h + 1, part |-> k + 1 + 1]
        BY <3>2, <1>1, <1>4 DEF ExpectedWord
      <4>2. Succ(ExpectedWord) = [n |-> h + 1, part |-> k + 1 + 1]
        BY <3>2, <2>3, <1>3, <1>5 DEF Succ
      <4>3. QED
        BY <4>1, <4>2
    <3>3. QED
      BY <3>1, <3>2
  <2>5. QED
    BY <2>1, <2>4, <1>1, StreamShrinks
<1>9. Reading'
  <2>1. payload' = BodyUpTo(h + 1, k + 1)
    <3>1. payload = BodyUpTo(h + 1, k)
      BY <1>1 DEF Reading
    <3>2. ASSUME NEW i \in 1 .. k + 1 PROVE payload'[i] = [n |-> h + 1, part |-> i]
      <4>1. CASE i \in 1 .. k
        BY <4>1, <3>1, <1>4 DEF BodyUpTo
      <4>2. CASE i = k + 1
        BY <4>2, <1>4
      <4>3. QED
        BY <4>1, <4>2, <1>3
    <3>3. payload' = [i \in 1 .. k + 1 |-> payload'[i]]
      BY <1>4
    <3>4. QED
      BY <3>2, <3>3 DEF BodyUpTo
  <2>2. Reading' <=>
          /\ h <= Len(posts)
          /\ h < Len(posts)
          /\ rtype = posts[h + 1].type
          /\ payload' = BodyUpTo(h + 1, k + 1)
          /\ recv' = "body" => k + 1 < Size[rtype]
          /\ recv' = "handle" => k + 1 = Size[rtype]
    BY <1>1, <1>4 DEF Reading, BodyUpTo
  <2>3. QED
    BY <2>1, <2>2, <1>1, <1>3, <1>4, <1>5
<1>10. Answers'
  BY <1>1 DEF Typed, Answers
<1>11. QED
  BY <1>6, <1>7, <1>8, <1>9, <1>10

LEMMA HandleIInv ==
  ASSUME IInv, Handle
  PROVE  IInv'
<1> USE TypesAssumption, BoundsAssumption DEF IInv
<1> DEFINE h == Len(handled)
           d == [type |-> rtype, body |-> payload]
<1>1. /\ recv = "handle" /\ recv' = AfterHandler(rtype)
      /\ UNCHANGED <<pc, call, mine, written, lock, posts, wire, acks, rtype,
                     payload, completed>>
  BY DEF Handle, senderVars
<1>2. /\ h \in Nat /\ Len(posts) \in Nat
      /\ h < Len(posts)
      /\ rtype = posts[h + 1].type
      /\ rtype \in Types
      /\ d \in Delivery
  <2>1. h \in Nat /\ Len(posts) \in Nat /\ payload \in Seq(Word)
    BY DEF Typed
  <2>2. h < Len(posts) /\ rtype = posts[h + 1].type
    BY <1>1 DEF Reading
  <2>3. h + 1 \in 1 .. Len(posts)
    BY <2>1, <2>2
  <2>4. rtype \in Types
    BY <2>2, <2>3, PostTypes
  <2>5. QED
    BY <2>1, <2>2, <2>4 DEF Delivery
<1>3. /\ handled' \in Seq(Delivery)
      /\ handled' # <<>>
      /\ Len(handled') = h + 1
      /\ handled'[Len(handled')] = d
  <2>1. handled' = Append(handled, d)
    BY DEF Handle
  <2>2. handled \in Seq(Delivery)
    BY DEF Typed
  <2>3. QED
    BY <2>1, <2>2, <1>2, AppendAt
<1>4. AckOf[rtype] \in {"none", "ack", "async"}
  BY <1>2
<1>5. /\ recv' \in {"ack", "async", "poll"}
      /\ recv' \in {"ack", "async"} => AckOf[rtype] = recv'
  BY <1>1, <1>4 DEF AfterHandler
<1>6. Typed'
  BY <1>1, <1>3, <1>5 DEF Typed, Word, Delivery
<1>7. Holding'
  BY <1>1 DEF Typed, Holding
<1>8. ExpectedWord = [n |-> h + 2, part |-> 0]
  BY <1>1 DEF ExpectedWord
<1>9. Stream'
  <2>1. WriterWord' = WriterWord
    BY <1>1 DEF WriterWord
  <2>2. ExpectedWord' = [n |-> h + 1 + 1, part |-> 0]
    BY <1>3, <1>5 DEF ExpectedWord
  <2>3. ExpectedWord' = ExpectedWord
    BY <2>2, <1>2, <1>8
  <2>4. QED
    BY <2>1, <2>3, <1>1 DEF Stream, Framed, Succ, Before
<1>10. Reading'
  BY <1>1, <1>2, <1>3, <1>5 DEF Reading
<1>11. Answers'
  <2>1. recv' = "ack" => /\ lock # None
                        /\ pc[lock] = "ack"
                        /\ h + 1 = Len(posts)
    <3>1. SUFFICES ASSUME recv' = "ack" PROVE /\ lock # None
                                            /\ pc[lock] = "ack"
                                            /\ h + 1 = Len(posts)
      OBVIOUS
    <3>2. AckOf[posts[h + 1].type] = "ack" /\ h + 1 \in h + 1 .. Len(posts)
      BY <3>1, <1>2, <1>5
    <3>3. h + 1 = Len(posts) /\ lock # None /\ pc[lock] \in {"write", "ack"}
      BY <3>2 DEF Answers
    <3>4. pc[lock] # "write"
      <4>1. SUFFICES ASSUME pc[lock] = "write" PROVE FALSE
        OBVIOUS
      <4>2. WriterWord = [n |-> h + 1, part |-> written[lock]]
        BY <4>1, <3>3 DEF WriterWord
      <4>3. /\ WriterWord.n = h + 1
            /\ ExpectedWord.n = h + 2
        BY <4>2, <1>8
      <4>4. QED
        BY <4>3, <1>2 DEF Stream, Before
    <3>5. QED
      BY <3>3, <3>4
  <2>2. acks' = 0
    BY <1>1, <1>2 DEF Answers
  <2>3. QED
    BY <2>1, <2>2, <1>1, <1>2, <1>3 DEF Answers
<1>12. QED
  BY <1>6, <1>7, <1>9, <1>10, <1>11

LEMMA WriteAckIInv ==
  ASSUME IInv, WriteAck
  PROVE  IInv'
<1> USE TypesAssumption, BoundsAssumption DEF IInv, WriteAck, senderVars, recvVars
<1>1. Typed'
  BY DEF Typed, Word, Delivery
<1>2. Holding'
  BY DEF Typed, Holding
<1>3. Stream'
  <2>1. WriterWord' = WriterWord /\ ExpectedWord' = ExpectedWord
    BY DEF Typed, Holding, WriterWord, ExpectedWord
  <2>2. Stream /\ UNCHANGED <<wire, posts>>
    OBVIOUS
  <2>3. QED
    BY <2>1, <2>2, StreamStays
<1>4. Reading'
  BY DEF Typed, Reading, BodyUpTo
<1>5. Answers'
  BY DEF Typed, Holding, Reading, Answers
<1>6. QED
  BY <1>1, <1>2, <1>3, <1>4, <1>5

LEMMA AsyncDoneIInv ==
  ASSUME IInv, AsyncDone
  PROVE  IInv'
<1> USE TypesAssumption, BoundsAssumption DEF IInv
<1>1. /\ recv = "async" /\ recv' = "poll"
      /\ UNCHANGED <<pc, call, mine, written, lock, posts, wire, acks, rtype,
                     payload, handled>>
  BY DEF AsyncDone, senderVars
<1>2. [type |-> rtype, body |-> payload] \in Delivery
  BY <1>1 DEF Typed, Reading, Delivery
<1>3. completed' \in Seq(Delivery)
  BY <1>2, AppendProperties DEF Typed, AsyncDone
<1>4. Typed'
  BY <1>1, <1>3 DEF Typed, Word, Delivery
<1>5. Holding'
  BY <1>1 DEF Typed, Holding
<1>6. Stream'
  BY <1>1 DEF Stream, Framed, ExpectedWord, WriterWord, Before, Succ
<1>7. Reading'
  BY <1>1 DEF Reading
<1>8. Answers'
  BY <1>1 DEF Answers
<1>9. QED
  BY <1>4, <1>5, <1>6, <1>7, <1>8

-----------------------------------------------------------------------------
LEMMA StepIInv == IInv /\ [Next]_vars => IInv'
<1> SUFFICES ASSUME IInv, [Next]_vars PROVE IInv'
  OBVIOUS
<1>1. CASE \E s \in Senders, t \in Types : Ask(s, t)
  BY <1>1, AskIInv
<1>2. CASE \E s \in Senders : SenderStep(s)
  BY <1>2, LockIInv, WriteIInv, ReadAckIInv, UnlockIInv DEF SenderStep
<1>3. CASE Receiver
  BY <1>3, WakeIInv, NoMessageIInv, ReadTypeIInv, ReadBodyIInv, HandleIInv,
     WriteAckIInv, AsyncDoneIInv DEF Receiver
<1>4. CASE UNCHANGED vars
  <2> USE <1>4 DEF vars, IInv
  <2>1. Typed'
    BY DEF Typed, Word, Delivery
  <2>2. Holding'
    BY DEF Holding
  <2>3. Stream'
    BY DEF Stream, Framed, ExpectedWord, WriterWord, Before, Succ
  <2>4. Reading'
    BY DEF Reading, BodyUpTo
  <2>5. Answers'
    BY DEF Answers
  <2>6. QED
    BY <2>1, <2>2, <2>3, <2>4, <2>5
<1>5. QED
  BY <1>1, <1>2, <1>3, <1>4 DEF Next

\* The inductive invariant: types, who holds the mutex, the unbroken stream,
\* the body read so far and the one acknowledgement that may be due
\* (dispatcher.c:116-201).
THEOREM DispatcherInvariant == Spec => []IInv
<1>1. Init => IInv
  BY InitIInv
<1>2. IInv /\ [Next]_vars => IInv'
  BY StepIInv
<1>3. QED
  BY <1>1, <1>2, PTL DEF Spec

\* Every variable keeps its type; in particular the socket back to the
\* senders never holds two acknowledgements, so writing one never blocks the
\* receiver (dispatcher.c:146-151).
THEOREM DispatcherTypes == Spec => []TypeOK
<1>1. IInv => TypeOK
  BY DEF IInv, Typed, Answers, TypeOK
<1>2. QED
  BY <1>1, DispatcherInvariant, PTL

\* The receiver never loses its place in the stream, for any sizes of
\* messages and of the socket's buffer (dispatcher.c:159-167).
THEOREM StreamFramed == Spec => []Framed
<1>1. IInv => Framed
  BY DEF IInv, Stream
<1>2. QED
  BY <1>1, DispatcherInvariant, PTL

\* An acknowledgement in the socket answers the message of the thread that is
\* about to read it (dispatcher.c:190-198).
THEOREM AcksAnswerHolder == Spec => []AckForHolder
<1>1. IInv => AckForHolder
  <2> SUFFICES ASSUME IInv, acks > 0 PROVE /\ lock # None
                                        /\ pc[lock] = "ack"
                                        /\ mine[lock] = Len(handled)
    BY DEF AckForHolder
  <2>1. acks = 1
    BY DEF IInv, Answers
  <2>2. /\ lock # None
        /\ pc[lock] = "ack"
        /\ Len(handled) = Len(posts)
    BY <2>1 DEF IInv, Answers
  <2>3. mine[lock] = Len(posts)
    BY <2>2 DEF IInv, Typed, Holding
  <2>4. QED
    BY <2>2, <2>3
<1>2. QED
  BY <1>1, DispatcherInvariant, PTL

-----------------------------------------------------------------------------
(* Refinement of the remote call.  Lock is its Post, Handle its Serve,     *)
(* AsyncDone its Complete and Unlock its Return; every other step stutters.*)

LEMMA InitRefines == Init => RemoteCall!Init
BY DEF Init, RemoteCall!Init

LEMMA LockRefines ==
  ASSUME IInv, NEW s \in Senders, Lock(s)
  PROVE  RemoteCall!Post(s)
<1>1. call[s] # None /\ mine[s] = 0
  <2>1. pc[s] = "lock" /\ lock = None /\ s # None
    BY TypesAssumption DEF Lock
  <2>2. QED
    BY <2>1 DEF IInv, Holding
<1>2. QED
  BY <1>1 DEF Lock, recvVars, RemoteCall!Post

LEMMA UnlockRefines ==
  ASSUME IInv, NEW s \in Senders, Unlock(s)
  PROVE  RemoteCall!Return(s)
<1>1. /\ pc[s] = "unlock" /\ lock = s /\ s # None
      /\ mine[s] = Len(posts)
      /\ posts # <<>>
      /\ posts[Len(posts)].type = call[s]
  BY TypesAssumption DEF Unlock, IInv, Holding
<1>2. Len(posts) \in Nat \ {0} /\ Len(handled) \in Nat
  <2>1. posts \in Seq([from : Senders, type : Types]) /\ handled \in Seq(Delivery)
    BY DEF IInv, Typed
  <2>2. QED
    BY <2>1, <1>1, EmptySeq
<1>3. ASSUME AckOf[call[s]] = "ack" PROVE mine[s] <= Len(handled)
  <2>1. ~(Len(posts) \in Len(handled) + 1 .. Len(posts))
    BY <1>1, <1>3 DEF IInv, Answers
  <2>2. QED
    BY <2>1, <1>1, <1>2
<1>4. QED
  BY <1>1, <1>2, <1>3 DEF Unlock, recvVars, RemoteCall!Return

LEMMA HandleRefines ==
  ASSUME IInv, Handle
  PROVE  RemoteCall!Serve
<1> DEFINE h == Len(handled)
<1>1. /\ recv = "handle"
      /\ recv' = AfterHandler(rtype)
      /\ handled' = Append(handled, [type |-> rtype, body |-> payload])
      /\ UNCHANGED <<call, mine, posts, completed>>
  BY DEF Handle, senderVars
<1>2. /\ h < Len(posts)
      /\ rtype = posts[h + 1].type
      /\ payload = BodyUpTo(h + 1, Size[rtype])
  BY <1>1 DEF IInv, Reading
<1>3. [type |-> rtype, body |-> payload] = RemoteCall!Meaning(h + 1)
  BY <1>2 DEF RemoteCall!Meaning, BodyUpTo
<1>4. (recv' = "async") = (AckOf[rtype] = "async")
  BY <1>1 DEF AfterHandler
<1>5. QED
  BY <1>1, <1>2, <1>3, <1>4 DEF RemoteCall!Serve

LEMMA AsyncDoneRefines ==
  ASSUME IInv, AsyncDone
  PROVE  RemoteCall!Complete
<1>1. handled[Len(handled)] = [type |-> rtype, body |-> payload]
  BY DEF AsyncDone, IInv, Reading
<1>2. QED
  BY <1>1 DEF AsyncDone, senderVars, RemoteCall!Complete

\* The dispatcher implements the remote call of dispatcher.h: messages are
\* served whole and in the order of the mutex, a caller of an acknowledged
\* type returns after its message was served, and an asynchronous completion
\* runs between its message and the next.
THEOREM DispatcherImplementsRpc == Spec => ImplementsRpc
<1>1. Init => RemoteCall!Init
  BY InitRefines
<1>2. IInv /\ [Next]_vars => [RemoteCall!Next]_(RemoteCall!vars)
  <2> SUFFICES ASSUME IInv, [Next]_vars
               PROVE  RemoteCall!Next \/ UNCHANGED RemoteCall!vars
    OBVIOUS
  <2>1. CASE \E s \in Senders, t \in Types : Ask(s, t)
    <3>1. PICK s \in Senders, t \in Types : Ask(s, t)
      BY <2>1
    <3>2. call[s] = None
      BY <3>1 DEF Ask, IInv, Holding
    <3>3. RemoteCall!Ask(s, t)
      BY <3>1, <3>2 DEF Ask, recvVars, RemoteCall!Ask
    <3>4. QED
      BY <3>3 DEF RemoteCall!Next
  <2>2. CASE \E s \in Senders : SenderStep(s)
    <3>1. PICK s \in Senders : SenderStep(s)
      BY <2>2
    <3>2. CASE Lock(s)
      BY <3>2, LockRefines DEF RemoteCall!Next
    <3>3. CASE Write(s)
      BY <3>3 DEF Write, recvVars, RemoteCall!vars
    <3>4. CASE ReadAck(s)
      BY <3>4 DEF ReadAck, recvVars, RemoteCall!vars
    <3>5. CASE Unlock(s)
      BY <3>5, UnlockRefines DEF RemoteCall!Next
    <3>6. QED
      BY <3>1, <3>2, <3>3, <3>4, <3>5 DEF SenderStep
  <2>3. CASE Receiver
    <3>1. CASE Wake
      BY <3>1 DEF Wake, senderVars, RemoteCall!vars
    <3>2. CASE NoMessage
      BY <3>2 DEF NoMessage, senderVars, RemoteCall!vars
    <3>3. CASE ReadType
      BY <3>3 DEF ReadType, senderVars, RemoteCall!vars
    <3>4. CASE ReadBody
      BY <3>4 DEF ReadBody, senderVars, RemoteCall!vars
    <3>5. CASE Handle
      BY <3>5, HandleRefines DEF RemoteCall!Next
    <3>6. CASE WriteAck
      BY <3>6 DEF WriteAck, senderVars, RemoteCall!vars
    <3>7. CASE AsyncDone
      BY <3>7, AsyncDoneRefines DEF RemoteCall!Next
    <3>8. QED
      BY <2>3, <3>1, <3>2, <3>3, <3>4, <3>5, <3>6, <3>7 DEF Receiver
  <2>4. CASE UNCHANGED vars
    BY <2>4 DEF vars, RemoteCall!vars
  <2>5. QED
    BY <2>1, <2>2, <2>3, <2>4 DEF Next
<1>3. QED
  BY <1>1, <1>2, DispatcherInvariant, PTL DEF Spec, ImplementsRpc, RemoteCall!Spec
=============================================================================

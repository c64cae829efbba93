-------------------------- MODULE PixmapCache_proofs --------------------------
(***************************************************************************)
(* Proofs about PixmapCache, for any channels, images, sizes and serials:  *)
(* a message never waits for its own channel, nor for a serial that the    *)
(* other channel has not yet given out (WaitsCorrect).  The invariant says *)
(* that every serial noted anywhere, in the cache, its items, the free     *)
(* list or the migrate data, is one its channel has used (SerialsGiven),   *)
(* and that a channel told to follow a reset did not make it itself, and   *)
(* knows that it has not yet followed it (ResetsFollowed).                 *)
(*                                                                         *)
(* The second part: an image is removed only after its last use            *)
(* (RemovalsWait), wherever the serial of that use has travelled (Noted).  *)
(*                                                                         *)
(* The third: the client keeps no image that the server has forgotten      *)
(* (ForgottenNever, by Followed); with one channel it has, once all has    *)
(* arrived, every image of the server's cache (MirrorAlways, by Present);  *)
(* what is left of the cache and its items make up its size                *)
(* (CacheAlwaysSound, by Counts).                                          *)
(***************************************************************************)
EXTENDS PixmapCache, TLAPS, SequenceTheorems, FiniteSetTheorems, WellFoundedInduction

Phases == {"idle", "build", "urgent", "main"}
Marshalling == [phase : Phases, op : Ops, evicted : SUBSET Entries,
                clear : SUBSET Entries, waits : SUBSET Waits, sync : [Channels -> Nat]]

\* The types of all that the serials depend on: not of available and size.
CacheTypes ==
  /\ lru \in [Hosts -> Seq(Images)]
  /\ used \in [Hosts -> [Images -> [Channels -> Nat]]]
  /\ sync \in [Hosts -> [Channels -> Nat]]
  /\ frozen \in [Hosts -> BOOLEAN]
  /\ generation \in [Hosts -> Nat]
  /\ initiator \in [Hosts -> [client : Channels \cup {Nobody}, message : Nat]]
  /\ era \in [Images -> Nat]
PipeTypes ==
  /\ host \in [Channels -> Hosts \cup {"moving", "closed"}]
  /\ gen \in [Channels -> Nat]
  /\ syncDue \in [Channels -> BOOLEAN]
  /\ resetDue \in [Channels -> BOOLEAN]
  /\ moved \in [Channels -> [freezer : BOOLEAN, sync : [Channels -> Nat]]]
SendTypes ==
  /\ last \in [Channels -> Nat]
  /\ msg \in [Channels -> Marshalling]
NetTypes == net \in [Channels -> Seq(Message)]
Typed == CacheTypes /\ PipeTypes /\ SendTypes /\ NetTypes

\* Every serial that is noted has been given to a message of its channel.
NotedInCache ==
  \A h \in Hosts, d \in Channels :
    /\ sync[h][d] <= Top(d)
    /\ \A x \in Images : used[h][x][d] <= Top(d)
    /\ initiator[h].client = d => initiator[h].message <= Top(d)
NotedInPipe ==
  \A c, d \in Channels :
    /\ moved[c].sync[d] <= Top(d)
    /\ msg[c].sync[d] <= Top(d)
NotedInWaits ==
  \A c \in Channels : \A w \in msg[c].waits : w[1] # c /\ w[2] <= Top(w[1])
SerialsGiven == NotedInCache /\ NotedInPipe /\ NotedInWaits /\ WaitsAreReal

\* A channel that will reset the cache of the target, once it is there.
WillReset(c) == resetDue[c] \/ (host[c] = "moving" /\ moved[c].freezer)

\* Resets happen on the target alone, there is one, and the channels that
\* have not followed it know.
ResetsFollowed ==
  /\ initiator["source"].client = Nobody /\ generation["source"] = 0
  /\ generation["target"] = 0 \/ (frozen["source"] /\ initiator["target"].client \in Channels)
  /\ \A c \in Channels :
       /\ resetDue[c] => host[c] = "target"
       /\ host[c] = "source" => gen[c] = 0
       /\ host[c] = "target" /\ generation["target"] = 0 => gen[c] = 0
       /\ initiator["target"].client = c =>
            host[c] = "target" /\ gen[c] = generation["target"] /\ ~syncDue[c]
       /\ syncDue[c] /\ host[c] \in Hosts => host[c] = "target" /\ generation["target"] # 0
       /\ WillReset(c) => /\ frozen["source"] /\ generation["target"] = 0
                          /\ \A d \in Channels : WillReset(d) => d = c

\* Who is marshalling is connected.
Connected == \A c \in Channels : msg[c].phase # "idle" => host[c] \in Hosts

Inv == Typed /\ SerialsGiven /\ ResetsFollowed /\ Connected

-----------------------------------------------------------------------------
(* Numbers, and the data of the cache.                                     *)

\* A set of bounded naturals has a least element: of its initial parts, one
\* has no smaller one inside.
LEMMA Least ==
  ASSUME NEW n \in Nat, NEW T, T \subseteq 0..n, T # {}
  PROVE  \E x \in T : \A y \in T : x <= y
<1> DEFINE Below(x) == {y \in T : y <= x}
           F == {Below(x) : x \in T}
<1>1. IsFiniteSet(T)
  <2>1. IsFiniteSet(0..n)
    BY FS_Interval
  <2> QED BY <2>1, FS_Subset
<1>2. IsWellFoundedOn(StrictSubsetOrdering(T), SUBSET T)
  BY <1>1, FS_FiniteSubsetsOfFinite, FS_StrictSubsetOrderingWellFounded
<1>3. F \subseteq SUBSET T /\ F # {}
  OBVIOUS
<1>4. PICK A \in F : \A C \in F : ~ (<<C, A>> \in StrictSubsetOrdering(T))
  <2> HIDE DEF F
  <2> QED BY <1>2, <1>3, WFMin
<1>5. PICK x \in T : A = Below(x)
  OBVIOUS
<1>6. ASSUME NEW y \in T, ~(x <= y)
      PROVE  FALSE
  <2>1. y \in Int /\ x \in Int /\ y < x
    BY <1>6
  <2>2. \A z \in T : z \in Int
    OBVIOUS
  <2>3. Below(y) \subseteq Below(x) /\ x \in Below(x) /\ x \notin Below(y)
    <3>1. \A z \in T : z <= y => z <= x
      BY <2>1, <2>2
    <3>2. x <= x /\ ~(x <= y)
      BY <2>1
    <3>3. x \in Below(x) /\ x \notin Below(y)
      BY <3>2
    <3>4. Below(y) \subseteq Below(x)
      BY <3>1
    <3> QED BY <3>3, <3>4
  <2>4. <<Below(y), Below(x)>> \in StrictSubsetOrdering(T)
    BY <2>3, <1>3 DEF StrictSubsetOrdering
  <2> QED BY <1>4, <1>5, <2>4
<1> QED BY <1>6

\* The maximum of a set of bounded naturals is within the bound.
LEMMA MaxBounded ==
  ASSUME NEW S, S \subseteq Nat, S # {}, NEW B \in Nat, \A y \in S : y <= B
  PROVE  Max(S) \in Nat /\ Max(S) <= B /\ \A y \in S : y <= Max(S)
<1> DEFINE T == {B - y : y \in S}
<1>1. T \subseteq 0..B /\ T # {}
  <2>1. \A y \in S : y \in Nat /\ B - y \in 0..B
    OBVIOUS
  <2> QED BY <2>1
<1>2. PICK t \in T : \A u \in T : t <= u
  <2> HIDE DEF T
  <2> QED BY <1>1, Least
<1>3. PICK x \in S : t = B - x
  OBVIOUS
<1>4. \A y \in S : x >= y
  <2>1. \A y \in S : y \in Nat /\ B - y \in T
    OBVIOUS
  <2>2. \A y \in S : B - x <= B - y
    BY <1>2, <1>3, <2>1
  <2> QED BY <2>1, <2>2
<1>5. Max(S) \in S /\ \A y \in S : Max(S) >= y
  BY <1>4 DEF Max
<1>6. \A y \in S : y \in Nat
  OBVIOUS
<1> QED BY <1>5, <1>6

\* What Evictions gives is a number of items there are.
LEMMA EvictionsBounded ==
  ASSUME Typed, NEW h \in Hosts, NEW c \in Channels, NEW x \in Images
  PROVE  Evictions(h, c, x) \in 0..Len(lru[h])
<1> DEFINE n == Len(lru[h])
           T == {k \in 0..n : StopsAt(h, c, x, k)}
<1>1. n \in Nat
  BY LenProperties DEF Typed, CacheTypes
<1>2. n \in T
  BY <1>1 DEF StopsAt
<1>3. PICK k \in T : \A j \in T : k <= j
  <2> HIDE DEF n
  <2>1. T \subseteq 0..n /\ T # {}
    BY <1>2
  <2> HIDE DEF T
  <2> QED BY <1>1, <2>1, Least
<1>4. \A j \in 0..(k - 1) : ~StopsAt(h, c, x, j)
  <2> SUFFICES ASSUME NEW j \in 0..(k - 1)
               PROVE  ~StopsAt(h, c, x, j)
    OBVIOUS
  <2>1. j \in 0..n /\ ~(k <= j)
    BY <1>1
  <2> QED BY <1>3, <2>1
<1> QED BY <1>3, <1>4 DEF Evictions

\* What SubSeq keeps of the items are items.
LEMMA ItemsKept ==
  ASSUME NEW q \in Seq(Images), NEW k \in 0..Len(q)
  PROVE  SubSeq(q, 1, Len(q) - k) \in Seq(Images)
<1>1. Len(q) \in Nat
  BY LenProperties
<1>2. \A i \in 1..(Len(q) - k) : q[i] \in Images
  BY <1>1, ElementOfSeq
<1> QED BY <1>1, <1>2, SubSeqProperties

\* A hit moves an item, if it is there.
LEMMA WithoutIsSeq ==
  ASSUME NEW q \in Seq(Images), NEW x \in Images, \E i \in DOMAIN q : q[i] = x
  PROVE  <<x>> \o Without(q, x) \in Seq(Images)
<1>1. PICK i \in DOMAIN q : i = CHOOSE j \in DOMAIN q : q[j] = x
  OBVIOUS
<1>2. i \in 1..Len(q) /\ Len(q) \in Nat
  BY LenProperties
<1>3. \A j \in 1..Len(q) : q[j] \in Images
  BY ElementOfSeq
<1>4. SubSeq(q, 1, i - 1) \in Seq(Images) /\ SubSeq(q, i + 1, Len(q)) \in Seq(Images)
  BY <1>2, <1>3, SubSeqProperties
<1>5. Without(q, x) \in Seq(Images)
  BY <1>1, <1>4, ConcatProperties DEF Without
<1>6. <<x>> \in Seq(Images)
  OBVIOUS
<1> QED BY <1>5, <1>6, ConcatProperties

\* Noting serial n for channel c changes that entry only.
LEMMA NoteInSync ==
  ASSUME NEW s \in [Hosts -> [Channels -> Nat]], NEW t, NEW h \in Hosts,
         NEW c \in Channels, NEW n \in Nat, t = [s EXCEPT ![h][c] = n]
  PROVE  /\ t \in [Hosts -> [Channels -> Nat]]
         /\ \A g \in Hosts, d \in Channels : t[g][d] = s[g][d] \/ (d = c /\ t[g][d] = n)
  OBVIOUS

LEMMA NoteInUsed ==
  ASSUME NEW s \in [Hosts -> [Images -> [Channels -> Nat]]], NEW t, NEW h \in Hosts,
         NEW x \in Images, NEW f \in [Channels -> Nat], t = [s EXCEPT ![h][x] = f]
  PROVE  /\ t \in [Hosts -> [Images -> [Channels -> Nat]]]
         /\ \A g \in Hosts, y \in Images : t[g][y] = s[g][y] \/ (g = h /\ y = x /\ t[g][y] = f)
  OBVIOUS

\* Serials are naturals.
LEMMA TopType ==
  ASSUME Typed
  PROVE  \A d \in Channels : /\ Top(d) \in Nat /\ last[d] \in Nat /\ last[d] <= Top(d)
                             /\ Serial(d) \in Nat
  BY DEF Typed, SendTypes, Marshalling, Top, Serial

\* A channel whose message does not change keeps its serials.
LEMMA TopKept ==
  ASSUME NEW d \in Channels, last'[d] = last[d], msg'[d].phase = msg[d].phase
  PROVE  Top(d)' = Top(d)
  BY DEF Top, Serial

\* What is noted stays below the serials given out when they grow.
LEMMA NotedStays ==
  ASSUME Typed, SerialsGiven, \A d \in Channels : Top(d)' \in Nat /\ Top(d) <= Top(d)'
  PROVE  /\ UNCHANGED <<sync, used, initiator>> => NotedInCache'
         /\ \A g \in Hosts, d \in Channels : sync[g][d] <= Top(d)'
         /\ \A g \in Hosts, y \in Images, d \in Channels : used[g][y][d] <= Top(d)'
         /\ \A g \in Hosts, d \in Channels :
              initiator[g].client = d => initiator[g].message <= Top(d)'
         /\ \A b, d \in Channels : moved[b].sync[d] <= Top(d)' /\ msg[b].sync[d] <= Top(d)'
         /\ \A b \in Channels : \A w \in msg[b].waits :
              w \in Waits /\ w[1] # b /\ w[2] <= Top(w[1])'
<1>1. \A d \in Channels : Top(d) \in Nat
  BY TopType
<1>2. \A g \in Hosts, d \in Channels : sync[g][d] \in Nat /\ sync[g][d] <= Top(d)'
  BY <1>1 DEF Typed, CacheTypes, SerialsGiven, NotedInCache
<1>3. \A g \in Hosts, y \in Images, d \in Channels :
        used[g][y][d] \in Nat /\ used[g][y][d] <= Top(d)'
  <2> SUFFICES ASSUME NEW g \in Hosts, NEW y \in Images, NEW d \in Channels
               PROVE  used[g][y][d] \in Nat /\ used[g][y][d] <= Top(d)'
    OBVIOUS
  <2>1. used[g][y][d] \in Nat
    BY DEF Typed, CacheTypes
  <2>2. used[g][y][d] <= Top(d)
    BY DEF SerialsGiven, NotedInCache
  <2> QED BY <1>1, <2>1, <2>2
<1>4. \A g \in Hosts, d \in Channels :
        initiator[g].client = d => initiator[g].message <= Top(d)'
  <2> SUFFICES ASSUME NEW g \in Hosts, NEW d \in Channels, initiator[g].client = d
               PROVE  initiator[g].message <= Top(d)'
    OBVIOUS
  <2>1. initiator[g].message \in Nat
    BY DEF Typed, CacheTypes
  <2>2. initiator[g].message <= Top(d)
    BY DEF SerialsGiven, NotedInCache
  <2> QED BY <1>1, <2>1, <2>2
<1>5. \A b, d \in Channels : moved[b].sync[d] <= Top(d)' /\ msg[b].sync[d] <= Top(d)'
  <2> SUFFICES ASSUME NEW b \in Channels, NEW d \in Channels
               PROVE  moved[b].sync[d] <= Top(d)' /\ msg[b].sync[d] <= Top(d)'
    OBVIOUS
  <2>1. moved[b].sync[d] \in Nat /\ msg[b].sync[d] \in Nat
    BY DEF Typed, PipeTypes, SendTypes, Marshalling
  <2>2. moved[b].sync[d] <= Top(d) /\ msg[b].sync[d] <= Top(d)
    BY DEF SerialsGiven, NotedInPipe
  <2> QED BY <1>1, <2>1, <2>2
<1>6. \A b \in Channels : \A w \in msg[b].waits :
        w \in Waits /\ w[1] # b /\ w[2] <= Top(w[1])'
  <2> SUFFICES ASSUME NEW b \in Channels, NEW w \in msg[b].waits
               PROVE  w \in Waits /\ w[1] # b /\ w[2] <= Top(w[1])'
    OBVIOUS
  <2>1. w \in Waits /\ w[1] \in Channels /\ w[2] \in Nat
    BY DEF Typed, SendTypes, Marshalling, Waits
  <2>2. w[1] # b /\ w[2] <= Top(w[1])
    BY DEF SerialsGiven, NotedInWaits
  <2> QED BY <1>1, <2>1, <2>2
<1>7. UNCHANGED <<sync, used, initiator>> => NotedInCache'
  BY <1>2, <1>3, <1>4 DEF NotedInCache
<1> QED BY <1>2, <1>3, <1>4, <1>5, <1>6, <1>7

\* The free list keeps its form and its bound.
LEMMA ReleasedBounded ==
  ASSUME Typed, SerialsGiven, NEW h \in Hosts, NEW m \in Marshalling,
         \A d \in Channels : m.sync[d] <= Top(d),
         NEW k \in 0..Len(lru[h])
  PROVE  /\ Released(h, m, k) \in Marshalling
         /\ Released(h, m, k).phase = m.phase
         /\ Released(h, m, k).waits = m.waits
         /\ \A d \in Channels : Released(h, m, k).sync[d] <= Top(d)
<1> DEFINE n == Len(lru[h])
           S(d) == {m.sync[d]} \cup {used[h][lru[h][i]][d] : i \in (n - k + 1)..n}
           gone == m.evicted \cup {<<lru[h][i], era[lru[h][i]]>> : i \in (n - k + 1)..n}
<1>1. n \in Nat /\ lru[h] \in Seq(Images) /\ \A i \in (n - k + 1)..n : lru[h][i] \in Images
  <2>1. n \in Nat /\ lru[h] \in Seq(Images)
    BY LenProperties DEF Typed, CacheTypes
  <2>2. \A i \in 1..n : lru[h][i] \in Images
    BY <2>1, ElementOfSeq
  <2> QED BY <2>1, <2>2
<1>2. \A d \in Channels : S(d) \subseteq Nat /\ S(d) # {} /\ \A y \in S(d) : y <= Top(d)
  <2>1. \A x \in Images, d \in Channels : used[h][x][d] \in Nat /\ used[h][x][d] <= Top(d)
    BY DEF Typed, CacheTypes, SerialsGiven, NotedInCache
  <2>2. \A d \in Channels : m.sync[d] \in Nat
    BY DEF Marshalling
  <2> QED BY <1>1, <2>1, <2>2
<1>3. \A d \in Channels : Max(S(d)) \in Nat /\ Max(S(d)) <= Top(d)
  <2> SUFFICES ASSUME NEW d \in Channels
               PROVE  Max(S(d)) \in Nat /\ Max(S(d)) <= Top(d)
    OBVIOUS
  <2>1. S(d) \subseteq Nat /\ S(d) # {} /\ \A y \in S(d) : y <= Top(d)
    BY <1>2
  <2>2. Top(d) \in Nat
    BY TopType
  <2> HIDE DEF S
  <2> QED BY <2>1, <2>2, MaxBounded
<1>4. Released(h, m, k) = [m EXCEPT !.evicted = gone, !.sync = [d \in Channels |-> Max(S(d))]]
  BY DEF Released
<1>5. gone \in SUBSET Entries
  BY <1>1 DEF Typed, CacheTypes, Marshalling, Entries
<1>6. [d \in Channels |-> Max(S(d))] \in [Channels -> Nat]
  BY <1>3
<1> DEFINE f == [d \in Channels |-> Max(S(d))]
<1>7. \A d \in Channels : f[d] <= Top(d)
  BY <1>3
<1> HIDE DEF S, gone, f
<1>8. Released(h, m, k) = [m EXCEPT !.evicted = gone, !.sync = f]
  BY <1>4 DEF f
<1>9. f \in [Channels -> Nat]
  BY <1>6 DEF f
<1> QED BY <1>5, <1>7, <1>8, <1>9 DEF Marshalling

-----------------------------------------------------------------------------
(* Steps.  What a step of c may do to the serials: give more of them out.  *)

\* A hit by a message of c with a serial that is not yet noted, and what the
\* cache keeps.
LEMMA TouchStep ==
  ASSUME Typed, SerialsGiven, NEW c \in Channels, NEW h \in Hosts, NEW x \in Images,
         InCache(h, x), NEW n \in Nat, Touch(h, c, x, n), n <= Top(c)',
         \A d \in Channels : Top(d)' \in Nat /\ Top(d) <= Top(d)',
         UNCHANGED <<frozen, generation, initiator, era>>
  PROVE  CacheTypes' /\ NotedInCache'
<1>1. lru' \in [Hosts -> Seq(Images)]
  <2>1. lru[h] \in Seq(Images) /\ \E i \in DOMAIN lru[h] : lru[h][i] = x
    BY DEF Typed, CacheTypes, InCache
  <2>2. <<x>> \o Without(lru[h], x) \in Seq(Images)
    BY <2>1, WithoutIsSeq
  <2> QED BY <2>2 DEF Touch, Typed, CacheTypes
<1>2. /\ sync \in [Hosts -> [Channels -> Nat]] /\ sync' = [sync EXCEPT ![h][c] = n]
      /\ used \in [Hosts -> [Images -> [Channels -> Nat]]]
      /\ used' = [used EXCEPT ![h][x] = [used[h][x] EXCEPT ![c] = n]]
  BY DEF Touch, Typed, CacheTypes
<1>3. /\ sync' \in [Hosts -> [Channels -> Nat]]
      /\ \A g \in Hosts, d \in Channels :
           sync'[g][d] = sync[g][d] \/ (d = c /\ sync'[g][d] = n)
  BY <1>2, NoteInSync
<1>4. /\ used' \in [Hosts -> [Images -> [Channels -> Nat]]]
      /\ \A g \in Hosts, y \in Images, d \in Channels :
           used'[g][y][d] = used[g][y][d] \/ (d = c /\ used'[g][y][d] = n)
  <2> DEFINE f == [used[h][x] EXCEPT ![c] = n]
  <2>1. f \in [Channels -> Nat] /\ \A d \in Channels : f[d] = used[h][x][d] \/ (d = c /\ f[d] = n)
    BY <1>2
  <2>2. used' = [used EXCEPT ![h][x] = f]
    BY <1>2
  <2> HIDE DEF f
  <2>3. /\ used' \in [Hosts -> [Images -> [Channels -> Nat]]]
        /\ \A g \in Hosts, y \in Images :
             used'[g][y] = used[g][y] \/ (g = h /\ y = x /\ used'[g][y] = f)
    BY <1>2, <2>1, <2>2, NoteInUsed
  <2> QED BY <2>1, <2>3
<1>5. CacheTypes'
  BY <1>1, <1>3, <1>4 DEF Typed, CacheTypes
<1>6. NotedInCache'
  <2>1. \A g \in Hosts, d \in Channels : sync'[g][d] <= Top(d)'
    BY <1>3, NotedStays
  <2>2. \A g \in Hosts, y \in Images, d \in Channels : used'[g][y][d] <= Top(d)'
    <3> SUFFICES ASSUME NEW g \in Hosts, NEW y \in Images, NEW d \in Channels
                 PROVE  used'[g][y][d] <= Top(d)'
      OBVIOUS
    <3>1. used[g][y][d] <= Top(d)'
      BY NotedStays
    <3> QED BY <1>4, <3>1
  <2>3. \A g \in Hosts, d \in Channels :
          initiator'[g].client = d => initiator'[g].message <= Top(d)'
    BY NotedStays
  <2> QED BY <2>1, <2>2, <2>3 DEF NotedInCache
<1> QED BY <1>5, <1>6

\* An image that is added, or finds no room.
LEMMA AddStep ==
  ASSUME Inv, NEW c \in Channels, NEW h \in Hosts, h = host[c], NEW x \in Images,
         msg[c].phase = "idle", Add(h, c, x), last' = last,
         UNCHANGED <<frozen, generation, initiator, gen, host>>
  PROVE  /\ CacheTypes' /\ NotedInCache'
         /\ syncDue' \in [Channels -> BOOLEAN]
         /\ \A d \in Channels : syncDue'[d] = syncDue[d]
                                \/ (d = c /\ generation[h] # gen[c])
         /\ msg' \in [Channels -> Marshalling]
         /\ \A d \in Channels \ {c} : msg'[d] = msg[d]
         /\ msg'[c].phase = "build" /\ msg'[c].waits = msg[c].waits
         /\ \A d \in Channels : msg'[c].sync[d] <= Top(d)
<1> DEFINE k == Evictions(h, c, x)
           fits == Room(h, x, k) >= 0
           kept == SubSeq(lru[h], 1, Len(lru[h]) - k)
           m == [msg[c] EXCEPT !.phase = "build", !.op = IF fits THEN Op("put", x) ELSE NoOp]
<1>1. msg[c] \in Marshalling /\ \A d \in Channels : msg[c].sync[d] <= Top(d)
  BY DEF Inv, Typed, SendTypes, SerialsGiven, NotedInPipe
<1>2. Op("put", x) \in Ops /\ NoOp \in Ops
  BY DEF Op, Ops, Inv, Typed, CacheTypes
<1>3. CASE generation[h] # gen[c]
  <2>1. /\ syncDue' = [syncDue EXCEPT ![c] = TRUE]
        /\ msg' = [msg EXCEPT ![c].phase = "build"]
        /\ UNCHANGED <<lru, used, sync, era>>
    BY <1>3 DEF Add
  <2>2. msg' \in [Channels -> Marshalling] /\ \A d \in Channels \ {c} : msg'[d] = msg[d]
    BY <1>1, <2>1 DEF Inv, Typed, SendTypes, Marshalling, Phases
  <2>3. /\ msg'[c].phase = "build" /\ msg'[c].waits = msg[c].waits
        /\ msg'[c].sync = msg[c].sync
    BY <1>1, <2>1 DEF Inv, Typed, SendTypes, Marshalling
  <2>4. \A d \in Channels : Top(d) <= Top(d)' /\ Top(d)' \in Nat
    <3>1. Top(c)' = last[c] + 1 /\ Top(c) = last[c]
      BY <2>3 DEF Top, Serial
    <3>2. \A d \in Channels \ {c} : Top(d)' = Top(d)
      BY <2>2, TopKept
    <3> QED BY <3>1, <3>2, TopType DEF Inv
  <2>5. CacheTypes' /\ NotedInCache'
    <3>1. UNCHANGED <<sync, used, initiator>>
      BY <2>1
    <3>2. NotedInCache'
      BY <2>4, <3>1, NotedStays DEF Inv
    <3> QED BY <2>1, <3>2 DEF CacheTypes, Inv, Typed
  <2> QED BY <1>1, <1>3, <2>1, <2>2, <2>3, <2>5 DEF Inv, Typed, PipeTypes
<1>4. CASE generation[h] = gen[c]
  <2>1. k \in 0..Len(lru[h]) /\ lru[h] \in Seq(Images)
    BY EvictionsBounded DEF Inv, Typed, CacheTypes
  <2>2. kept \in Seq(Images) /\ <<x>> \o kept \in Seq(Images)
    <3>1. kept \in Seq(Images)
      BY <2>1, ItemsKept
    <3>2. <<x>> \in Seq(Images)
      OBVIOUS
    <3> QED BY <3>1, <3>2, ConcatProperties
  <2>3. m \in Marshalling /\ m.sync = msg[c].sync /\ m.phase = "build" /\ m.waits = msg[c].waits
    BY <1>1, <1>2 DEF Marshalling, Phases
  <2>4. /\ Released(h, m, k) \in Marshalling /\ Released(h, m, k).phase = "build"
        /\ Released(h, m, k).waits = msg[c].waits
        /\ \A d \in Channels : Released(h, m, k).sync[d] <= Top(d)
    <3> HIDE DEF m, k
    <3> QED BY <1>1, <2>1, <2>3, ReleasedBounded DEF Inv
  <2>5. /\ lru' = [lru EXCEPT ![h] = IF fits THEN <<x>> \o kept ELSE kept]
        /\ used' = [used EXCEPT ![h][x] = IF fits THEN [NoSync EXCEPT ![c] = Serial(c)] ELSE @]
        /\ sync' = [sync EXCEPT ![h][c] = IF fits \/ k > 0 THEN Serial(c) ELSE @]
        /\ msg' = [msg EXCEPT ![c] = Released(h, m, k)]
        /\ era' = [y \in Images |->
                      era[y] + (IF InCache(h, y) /\ ~\E i \in DOMAIN kept : kept[i] = y
                                THEN 1 ELSE 0)]
        /\ UNCHANGED syncDue
    BY <1>4 DEF Add
  <2> HIDE DEF k, fits, kept, m
  <2>6. /\ msg' \in [Channels -> Marshalling] /\ msg'[c] = Released(h, m, k)
        /\ \A d \in Channels \ {c} : msg'[d] = msg[d]
    BY <2>4, <2>5 DEF Inv, Typed, SendTypes
  <2>7. Serial(c) = last[c] + 1 /\ Top(c)' = last[c] + 1 /\ Top(c) = last[c]
    BY <2>4, <2>6 DEF Serial, Top
  <2>8. Serial(c) \in Nat /\ \A d \in Channels : Top(d) <= Top(d)' /\ Top(d)' \in Nat
    <3>1. \A d \in Channels \ {c} : Top(d)' = Top(d)
      BY <2>6, TopKept
    <3> QED BY <2>7, <3>1, TopType DEF Inv
  <2>9. lru' \in [Hosts -> Seq(Images)] /\ era' \in [Images -> Nat]
    BY <2>2, <2>5 DEF Inv, Typed, CacheTypes
  <2>10. /\ sync' \in [Hosts -> [Channels -> Nat]]
         /\ \A g \in Hosts, d \in Channels :
              sync'[g][d] = sync[g][d] \/ (d = c /\ sync'[g][d] = Serial(c))
    <3>1. sync \in [Hosts -> [Channels -> Nat]]
      BY DEF Inv, Typed, CacheTypes
    <3>2. CASE fits \/ k > 0
      <4>1. sync' = [sync EXCEPT ![h][c] = Serial(c)]
        BY <2>5, <3>2
      <4> QED BY <2>8, <3>1, <4>1, NoteInSync
    <3>3. CASE ~(fits \/ k > 0)
      <4>1. sync' = [sync EXCEPT ![h][c] = sync[h][c]] /\ sync[h][c] \in Nat
        BY <2>5, <3>1, <3>3
      <4> QED BY <3>1, <4>1
    <3> QED BY <3>2, <3>3
  <2>11. /\ used' \in [Hosts -> [Images -> [Channels -> Nat]]]
         /\ \A g \in Hosts, y \in Images, d \in Channels :
              \/ used'[g][y][d] = used[g][y][d]
              \/ used'[g][y][d] = 0
              \/ d = c /\ used'[g][y][d] = Serial(c)
    <3> DEFINE f == IF fits THEN [NoSync EXCEPT ![c] = Serial(c)] ELSE used[h][x]
    <3>1. used \in [Hosts -> [Images -> [Channels -> Nat]]]
      BY DEF Inv, Typed, CacheTypes
    <3>2. f \in [Channels -> Nat]
      BY <2>8, <3>1 DEF NoSync
    <3>3. \A d \in Channels : f[d] = used[h][x][d] \/ f[d] = 0 \/ (d = c /\ f[d] = Serial(c))
      BY <2>8 DEF NoSync
    <3>4. used' = [used EXCEPT ![h][x] = f]
      BY <2>5, <3>1
    <3> HIDE DEF f
    <3>5. /\ used' \in [Hosts -> [Images -> [Channels -> Nat]]]
          /\ \A g \in Hosts, y \in Images :
               used'[g][y] = used[g][y] \/ (g = h /\ y = x /\ used'[g][y] = f)
      BY <3>1, <3>2, <3>4, NoteInUsed
    <3> QED BY <3>3, <3>5
  <2>12. \A g \in Hosts, d \in Channels : sync'[g][d] <= Top(d)'
    BY <2>7, <2>8, <2>10, NotedStays DEF Inv
  <2>13. \A g \in Hosts, y \in Images, d \in Channels : used'[g][y][d] <= Top(d)'
    <3> SUFFICES ASSUME NEW g \in Hosts, NEW y \in Images, NEW d \in Channels
                 PROVE  used'[g][y][d] <= Top(d)'
      OBVIOUS
    <3>1. used[g][y][d] <= Top(d)' /\ Top(d)' \in Nat
      BY <2>8, NotedStays DEF Inv
    <3>2. Serial(c) <= Top(c)'
      BY <2>7, <2>8
    <3>3. \/ used'[g][y][d] = used[g][y][d]
          \/ used'[g][y][d] = 0
          \/ d = c /\ used'[g][y][d] = Serial(c)
      BY <2>11
    <3>4. CASE used'[g][y][d] = used[g][y][d]
      BY <3>1, <3>4
    <3>5. CASE used'[g][y][d] = 0
      BY <3>1, <3>5
    <3>6. CASE d = c /\ used'[g][y][d] = Serial(c)
      BY <3>2, <3>6
    <3> QED BY <3>3, <3>4, <3>5, <3>6
  <2>14. \A g \in Hosts, d \in Channels :
           initiator'[g].client = d => initiator'[g].message <= Top(d)'
    BY <2>8, NotedStays DEF Inv
  <2>15. CacheTypes' /\ NotedInCache'
    BY <2>9, <2>10, <2>11, <2>12, <2>13, <2>14 DEF CacheTypes, NotedInCache, Inv, Typed
  <2> QED BY <2>4, <2>5, <2>6, <2>15 DEF Inv, Typed, PipeTypes
<1> QED BY <1>3, <1>4

-----------------------------------------------------------------------------
(* What the parts of the invariant need of a step.                         *)

\* A step of c changes no other channel's message.  What c has noted in its
\* own is given out.
LEMMA MsgStep ==
  ASSUME Inv, NEW c \in Channels, msg' \in [Channels -> Marshalling],
         \A d \in Channels \ {c} : msg'[d] = msg[d],
         \A d \in Channels : Top(d)' \in Nat /\ Top(d) <= Top(d)',
         \A d \in Channels : msg'[c].sync[d] <= Top(d)',
         \A w \in msg'[c].waits : w[1] # c /\ w[2] <= Top(w[1])'
  PROVE  /\ NotedInWaits'
         /\ moved' = moved => NotedInPipe'
         /\ net' = net => WaitsAreReal'
<1>1. NotedInWaits'
  <2> SUFFICES ASSUME NEW b \in Channels, NEW w \in msg'[b].waits
               PROVE  w[1] # b /\ w[2] <= Top(w[1])'
    BY DEF NotedInWaits
  <2>1. CASE b = c
    BY <2>1
  <2>2. CASE b # c
    <3>1. w \in msg[b].waits
      BY <2>2
    <3> QED BY <3>1, NotedStays DEF Inv
  <2> QED BY <2>1, <2>2
<1>2. moved' = moved => NotedInPipe'
  <2> SUFFICES ASSUME moved' = moved, NEW b \in Channels, NEW d \in Channels
               PROVE  moved'[b].sync[d] <= Top(d)' /\ msg'[b].sync[d] <= Top(d)'
    BY DEF NotedInPipe
  <2>1. moved'[b].sync[d] <= Top(d)'
    BY NotedStays DEF Inv
  <2>2. msg'[b].sync[d] <= Top(d)'
    <3>1. CASE b = c
      BY <3>1
    <3>2. CASE b # c
      <4>1. msg'[b] = msg[b]
        BY <3>2
      <4> QED BY <4>1, NotedStays DEF Inv
    <3> QED BY <3>1, <3>2
  <2> QED BY <2>1, <2>2
<1>3. net' = net => WaitsAreReal'
  <2> SUFFICES ASSUME net' = net, NEW b \in Channels, NEW i \in DOMAIN net[b],
                      NEW w \in net[b][i].waits
               PROVE  w[1] \in Channels \ {b} /\ w[2] <= Top(w[1])'
    BY DEF WaitsAreReal
  <2>1. w[1] \in Channels \ {b} /\ w[2] <= Top(w[1])
    BY DEF Inv, SerialsGiven, WaitsAreReal
  <2>2. net[b] \in Seq(Message)
    BY DEF Inv, Typed, NetTypes
  <2>3. net[b][i] \in Message
    BY <2>2, ElementOfSeq, LenProperties
  <2>4. w[2] \in Nat
    BY <2>3 DEF Message, Waits
  <2> QED BY <2>1, <2>4, TopType DEF Inv
<1> QED BY <1>1, <1>2, <1>3

\* A message of c whose waits are real goes out, or the first is handled.
LEMMA NetStep ==
  ASSUME Inv, NEW c \in Channels,
         \A d \in Channels : Top(d)' \in Nat /\ Top(d) <= Top(d)'
  PROVE  /\ (\E m \in Message : /\ net' = [net EXCEPT ![c] = Append(@, m)]
                                /\ \A w \in m.waits : w[1] # c /\ w[2] <= Top(w[1])')
               => NetTypes' /\ WaitsAreReal'
         /\ net[c] # <<>> /\ net' = [net EXCEPT ![c] = Tail(@)] => NetTypes' /\ WaitsAreReal'
<1>1. \A b \in Channels : /\ net[b] \in Seq(Message)
                          /\ DOMAIN net[b] = 1..Len(net[b]) /\ Len(net[b]) \in Nat
                          /\ \A i \in 1..Len(net[b]) : net[b][i] \in Message
  <2> SUFFICES ASSUME NEW b \in Channels
               PROVE  /\ net[b] \in Seq(Message)
                      /\ DOMAIN net[b] = 1..Len(net[b]) /\ Len(net[b]) \in Nat
                      /\ \A i \in 1..Len(net[b]) : net[b][i] \in Message
    OBVIOUS
  <2>1. net[b] \in Seq(Message)
    BY DEF Inv, Typed, NetTypes
  <2> QED BY <2>1, ElementOfSeq, LenProperties
<1>2. \A b \in Channels : \A i \in 1..Len(net[b]) : \A w \in net[b][i].waits :
        w[1] \in Channels \ {b} /\ w[2] <= Top(w[1])'
  <2> SUFFICES ASSUME NEW b \in Channels, NEW i \in 1..Len(net[b]), NEW w \in net[b][i].waits
               PROVE  w[1] \in Channels \ {b} /\ w[2] <= Top(w[1])'
    OBVIOUS
  <2>1. w[1] \in Channels \ {b} /\ w[2] <= Top(w[1])
    BY <1>1 DEF Inv, SerialsGiven, WaitsAreReal
  <2>2. w[2] \in Nat
    BY <1>1 DEF Message, Waits
  <2> QED BY <2>1, <2>2, TopType DEF Inv
<1>3. ASSUME NEW m \in Message, net' = [net EXCEPT ![c] = Append(@, m)],
             \A w \in m.waits : w[1] # c /\ w[2] <= Top(w[1])'
      PROVE  NetTypes' /\ WaitsAreReal'
  <2>1. net'[c] = Append(net[c], m) /\ \A b \in Channels \ {c} : net'[b] = net[b]
    BY <1>3 DEF Inv, Typed, NetTypes
  <2>2. /\ Append(net[c], m) \in Seq(Message)
        /\ DOMAIN Append(net[c], m) = 1..(Len(net[c]) + 1)
        /\ \A i \in 1..Len(net[c]) : Append(net[c], m)[i] = net[c][i]
        /\ Append(net[c], m)[Len(net[c]) + 1] = m
    BY <1>1, AppendProperties, LenProperties
  <2>3. NetTypes'
    BY <1>3, <2>2 DEF Inv, Typed, NetTypes
  <2>4. ASSUME NEW b \in Channels, NEW i \in DOMAIN net'[b], NEW w \in net'[b][i].waits
        PROVE  w[1] \in Channels \ {b} /\ w[2] <= Top(w[1])'
    <3>1. CASE b # c
      BY <1>1, <1>2, <2>1, <2>4, <3>1
    <3>2. CASE b = c /\ i \in 1..Len(net[c])
      BY <1>2, <2>1, <2>2, <2>4, <3>2
    <3>3. CASE b = c /\ i = Len(net[c]) + 1
      <4>1. w \in m.waits
        BY <2>1, <2>2, <2>4, <3>3
      <4>2. w[1] \in Channels
        BY <4>1 DEF Message, Waits
      <4> QED BY <1>3, <3>3, <4>1, <4>2
    <3>4. b = c => i \in 1..Len(net[c]) \/ i = Len(net[c]) + 1
      BY <1>1, <2>1, <2>2, <2>4
    <3> QED BY <3>1, <3>2, <3>3, <3>4
  <2> QED BY <2>3, <2>4 DEF WaitsAreReal
<1>4. ASSUME net[c] # <<>>, net' = [net EXCEPT ![c] = Tail(@)]
      PROVE  NetTypes' /\ WaitsAreReal'
  <2>1. net'[c] = Tail(net[c]) /\ \A b \in Channels \ {c} : net'[b] = net[b]
    BY <1>4 DEF Inv, Typed, NetTypes
  <2>2. /\ Tail(net[c]) \in Seq(Message)
        /\ DOMAIN Tail(net[c]) = 1..(Len(net[c]) - 1)
        /\ \A i \in 1..(Len(net[c]) - 1) : Tail(net[c])[i] = net[c][i + 1]
    BY <1>1, <1>4, HeadTailProperties, LenProperties
  <2>3. NetTypes'
    BY <1>4, <2>2 DEF Inv, Typed, NetTypes
  <2>4. ASSUME NEW b \in Channels, NEW i \in DOMAIN net'[b], NEW w \in net'[b][i].waits
        PROVE  w[1] \in Channels \ {b} /\ w[2] <= Top(w[1])'
    <3>1. CASE b # c
      BY <1>1, <1>2, <2>1, <2>4, <3>1
    <3>2. CASE b = c
      <4>1. i \in 1..(Len(net[c]) - 1) /\ net'[b][i] = net[c][i + 1]
        BY <2>1, <2>2, <2>4, <3>2
      <4>2. i + 1 \in 1..Len(net[c])
        BY <1>1, <4>1
      <4> QED BY <1>2, <2>4, <3>2, <4>1, <4>2
    <3> QED BY <3>1, <3>2
  <2> QED BY <2>3, <2>4 DEF WaitsAreReal
<1> QED BY <1>3, <1>4

-----------------------------------------------------------------------------
(* One lemma for each action.                                              *)

\* A step of c gives out serials of c alone: those from Top(c) on.
LEMMA TopGrows ==
  ASSUME Typed, NEW c \in Channels, Top(c)' \in Nat, Top(c) <= Top(c)',
         \A d \in Channels \ {c} : last'[d] = last[d] /\ msg'[d] = msg[d]
  PROVE  \A d \in Channels : Top(d)' \in Nat /\ Top(d) <= Top(d)'
<1>1. \A d \in Channels \ {c} : Top(d)' = Top(d)
  BY TopKept
<1> QED BY <1>1, TopType

\* The types of a message of c that changes.
LEMMA MsgTyped ==
  ASSUME Typed, NEW c \in Channels, NEW m \in Marshalling, msg' = [msg EXCEPT ![c] = m]
  PROVE  /\ msg' \in [Channels -> Marshalling] /\ msg'[c] = m
         /\ \A d \in Channels \ {c} : msg'[d] = msg[d]
  BY DEF Typed, SendTypes

LEMMA MarshallUpgradeStep ==
  ASSUME Inv, NEW c \in Channels, NEW x \in Images, MarshallUpgrade(c, x)
  PROVE  Inv'
<1> DEFINE h == host[c]
<1>1. /\ h \in Hosts /\ msg[c].phase = "idle" /\ msg[c] \in Marshalling
      /\ UNCHANGED <<frozen, generation, initiator, gen, resetDue, host, moved, last, net>>
  BY DEF MarshallUpgrade, Ready, clientVars, Inv, Typed, SendTypes
<1>2. CASE InCache(h, x)
  <2> DEFINE m == [msg[c] EXCEPT !.phase = "build", !.op = Op("get", x)]
  <2>1. /\ Touch(h, c, x, Serial(c)) /\ UNCHANGED <<available, syncDue, era>>
        /\ msg' = [msg EXCEPT ![c].phase = "build", ![c].op = Op("get", x)]
    BY <1>2 DEF MarshallUpgrade
  <2>2. Op("get", x) \in Ops
    BY DEF Op, Ops, Inv, Typed, CacheTypes
  <2>3. /\ m \in Marshalling /\ m.phase = "build" /\ m.sync = msg[c].sync
        /\ m.waits = msg[c].waits
    BY <1>1, <2>2 DEF Marshalling, Phases
  <2>4. msg' = [msg EXCEPT ![c] = m]
    BY <2>1 DEF Inv, Typed, SendTypes
  <2> HIDE DEF m
  <2>5. /\ msg' \in [Channels -> Marshalling] /\ msg'[c] = m
        /\ \A d \in Channels \ {c} : msg'[d] = msg[d]
    BY <2>3, <2>4, MsgTyped DEF Inv
  <2>6. Serial(c) = last[c] + 1 /\ Top(c)' = last[c] + 1 /\ Top(c) = last[c]
    BY <1>1, <2>3, <2>5 DEF Top, Serial
  <2>7. \A d \in Channels : Top(d)' \in Nat /\ Top(d) <= Top(d)'
    BY <1>1, <2>5, <2>6, TopType, TopGrows DEF Inv
  <2>8. CacheTypes' /\ NotedInCache'
    BY <1>1, <1>2, <2>1, <2>6, <2>7, TopType, TouchStep DEF Inv
  <2>9. NotedInWaits' /\ NotedInPipe' /\ WaitsAreReal'
    BY <1>1, <2>3, <2>5, <2>7, MsgStep, NotedStays DEF Inv
  <2>10. Typed'
    BY <1>1, <2>1, <2>5, <2>8 DEF Inv, Typed, PipeTypes, SendTypes, NetTypes
  <2>11. ResetsFollowed'
    BY <1>1, <2>1 DEF Inv, ResetsFollowed, WillReset
  <2>12. Connected'
    BY <1>1, <2>5 DEF Inv, Connected
  <2> QED BY <2>8, <2>9, <2>10, <2>11, <2>12 DEF Inv, SerialsGiven
<1>3. CASE ~InCache(h, x)
  <2>1. Add(h, c, x)
    BY <1>3 DEF MarshallUpgrade
  <2>2. /\ CacheTypes' /\ NotedInCache'
        /\ syncDue' \in [Channels -> BOOLEAN]
        /\ \A d \in Channels : syncDue'[d] = syncDue[d] \/ (d = c /\ generation[h] # gen[c])
        /\ msg' \in [Channels -> Marshalling]
        /\ \A d \in Channels \ {c} : msg'[d] = msg[d]
        /\ msg'[c].phase = "build" /\ msg'[c].waits = msg[c].waits
        /\ \A d \in Channels : msg'[c].sync[d] <= Top(d)
    BY <1>1, <2>1, AddStep
  <2>3. Top(c)' = last[c] + 1 /\ Top(c) = last[c]
    BY <1>1, <2>2 DEF Top, Serial
  <2>4. \A d \in Channels : Top(d)' \in Nat /\ Top(d) <= Top(d)'
    BY <1>1, <2>2, <2>3, TopType, TopGrows DEF Inv
  <2>5. \A d \in Channels : msg'[c].sync[d] <= Top(d)'
    <3> SUFFICES ASSUME NEW d \in Channels
                 PROVE  msg'[c].sync[d] <= Top(d)'
      OBVIOUS
    <3>1. msg'[c].sync[d] \in Nat
      BY <2>2 DEF Marshalling
    <3> QED BY <2>2, <2>4, <3>1, TopType DEF Inv
  <2>6. \A w \in msg'[c].waits : w[1] # c /\ w[2] <= Top(w[1])'
    BY <2>2, <2>4, NotedStays DEF Inv
  <2>7. NotedInWaits' /\ NotedInPipe' /\ WaitsAreReal'
    BY <1>1, <2>2, <2>4, <2>5, <2>6, MsgStep
  <2>8. Typed'
    BY <1>1, <2>2 DEF Inv, Typed, PipeTypes, SendTypes, NetTypes
  <2>9. ResetsFollowed'
    <3>1. generation[h] # gen[c] =>
            /\ h = "target" /\ generation["target"] # 0
            /\ initiator["target"].client # c
      BY <1>1 DEF Inv, ResetsFollowed, Hosts
    <3> QED BY <1>1, <2>2, <3>1 DEF Inv, ResetsFollowed, WillReset
  <2>10. Connected'
    BY <1>1, <2>2 DEF Inv, Connected
  <2> QED BY <2>2, <2>7, <2>8, <2>9, <2>10 DEF Inv, SerialsGiven
<1> QED BY <1>2, <1>3

LEMMA MarshallPixmapSyncStep ==
  ASSUME Inv, NEW c \in Channels, MarshallPixmapSync(c)
  PROVE  Inv'
<1> DEFINE h == host[c]
           w0 == <<initiator[h].client, initiator[h].message>>
           m == Control({w0}, {})
<1>1. /\ h \in Hosts /\ msg[c].phase = "idle" /\ syncDue[c]
      /\ syncDue' = [syncDue EXCEPT ![c] = FALSE]
      /\ gen' = [gen EXCEPT ![c] = generation[h]]
      /\ msg' = [msg EXCEPT ![c] = m]
      /\ UNCHANGED <<lru, used, sync, frozen, generation, initiator, era, resetDue, host,
                     moved, last, net>>
  BY DEF MarshallPixmapSync, Ready, cacheVars, clientVars
<1>2. /\ h = "target" /\ initiator[h].client \in Channels \ {c} /\ generation[h] # 0
      /\ initiator[h].message \in Nat
      /\ initiator[h].message <= Top(initiator[h].client)
  <2>1. h = "target" /\ generation[h] # 0 /\ initiator[h].client \in Channels
    BY <1>1 DEF Inv, ResetsFollowed
  <2>2. initiator[h].client # c
    BY <1>1, <2>1 DEF Inv, ResetsFollowed
  <2> QED BY <1>1, <2>1, <2>2 DEF Inv, Typed, CacheTypes, SerialsGiven, NotedInCache
<1>3. w0 \in Waits /\ w0[1] # c /\ w0[2] <= Top(w0[1])
  BY <1>2 DEF Waits
<1>4. /\ m \in Marshalling /\ m.phase = "build" /\ m.waits = {w0} /\ m.sync = NoSync
  <2> HIDE DEF w0
  <2> QED BY <1>3 DEF Control, Idle, Marshalling, Phases, NoSync, Ops, NoOp
<1> HIDE DEF m, w0
<1>5. /\ msg' \in [Channels -> Marshalling] /\ msg'[c] = m
      /\ \A d \in Channels \ {c} : msg'[d] = msg[d]
  BY <1>1, <1>4, MsgTyped DEF Inv
<1>6. Top(c)' = last[c] + 1 /\ Top(c) = last[c]
  BY <1>1, <1>4, <1>5 DEF Top, Serial
<1>7. \A d \in Channels : Top(d)' \in Nat /\ Top(d) <= Top(d)'
  BY <1>1, <1>5, <1>6, TopType, TopGrows DEF Inv
<1>8. /\ \A d \in Channels : msg'[c].sync[d] <= Top(d)'
      /\ \A w \in msg'[c].waits : w[1] # c /\ w[2] <= Top(w[1])'
  <2>1. ASSUME NEW w, w = w0
        PROVE  w[1] # c /\ w[2] <= Top(w[1])'
    <3>1. w[1] \in Channels /\ w[2] \in Nat /\ w[1] # c /\ w[2] <= Top(w[1])
      BY <1>3, <2>1 DEF Waits
    <3> QED BY <1>7, <3>1, TopType DEF Inv
  <2> QED BY <1>4, <1>5, <1>7, <2>1 DEF NoSync
<1>9. NotedInCache' /\ NotedInWaits' /\ NotedInPipe' /\ WaitsAreReal'
  BY <1>1, <1>5, <1>7, <1>8, MsgStep, NotedStays DEF Inv
<1>10. Typed'
  BY <1>1, <1>5 DEF Inv, Typed, CacheTypes, PipeTypes, SendTypes, NetTypes
<1>11. ResetsFollowed'
  BY <1>1, <1>2 DEF Inv, ResetsFollowed, WillReset, Typed, PipeTypes
<1>12. Connected'
  BY <1>1, <1>5 DEF Inv, Connected
<1> QED BY <1>9, <1>10, <1>11, <1>12 DEF Inv, SerialsGiven

LEMMA MarshallResetStep ==
  ASSUME Inv, NEW c \in Channels, MarshallReset(c)
  PROVE  Inv'
<1> DEFINE h == host[c]
           m == Control(WaitsOf(c, sync'[h]), UNION {{x} \X (0..(era[x] - 1)) : x \in Images})
<1>1. /\ h \in Hosts /\ msg[c].phase = "idle" /\ resetDue[c]
      /\ resetDue' = [resetDue EXCEPT ![c] = FALSE]
      /\ lru' = [lru EXCEPT ![h] = <<>>]
      /\ frozen' = [frozen EXCEPT ![h] = FALSE]
      /\ generation' = [generation EXCEPT ![h] = @ + 1]
      /\ gen' = [gen EXCEPT ![c] = generation'[h]]
      /\ initiator' = [initiator EXCEPT ![h] = [client |-> c, message |-> Serial(c)]]
      /\ sync' = [sync EXCEPT ![h][c] = Serial(c)]
      /\ msg' = [msg EXCEPT ![c] = m]
      /\ UNCHANGED <<used, era, syncDue, host, moved, last, net>>
  BY DEF MarshallReset, Ready, clientVars
<1>2. h = "target" /\ frozen["source"] /\ generation["target"] = 0
      /\ \A d \in Channels : WillReset(d) => d = c
  BY <1>1 DEF Inv, ResetsFollowed, WillReset
<1>3. /\ sync' \in [Hosts -> [Channels -> Nat]]
      /\ \A g \in Hosts, d \in Channels :
           sync'[g][d] = sync[g][d] \/ (d = c /\ sync'[g][d] = Serial(c))
  <2>1. sync \in [Hosts -> [Channels -> Nat]] /\ Serial(c) \in Nat
    BY TopType DEF Inv, Typed, CacheTypes
  <2> QED BY <1>1, <2>1, NoteInSync
<1>4. UNION {{x} \X (0..(era[x] - 1)) : x \in Images} \in SUBSET Entries
  BY DEF Entries, Inv, Typed, CacheTypes
<1>5. WaitsOf(c, sync'[h]) \in SUBSET Waits
  BY <1>1, <1>3 DEF WaitsOf, Waits
<1>6. /\ m \in Marshalling /\ m.phase = "build" /\ m.sync = NoSync
      /\ m.waits = WaitsOf(c, sync'[h])
  <2> DEFINE W == WaitsOf(c, sync'[h])
             C == UNION {{x} \X (0..(era[x] - 1)) : x \in Images}
  <2>1. W \in SUBSET Waits /\ C \in SUBSET Entries
    BY <1>4, <1>5
  <2>2. m = Control(W, C)
    OBVIOUS
  <2> HIDE DEF W, C, m
  <2>3. m \in Marshalling /\ m.phase = "build" /\ m.sync = NoSync /\ m.waits = W
    BY <2>1, <2>2 DEF Control, Idle, Marshalling, Phases, NoSync, Ops, NoOp
  <2> QED BY <2>3 DEF W
<1> HIDE DEF m
<1>7. /\ msg' \in [Channels -> Marshalling] /\ msg'[c] = m
      /\ \A d \in Channels \ {c} : msg'[d] = msg[d]
  BY <1>1, <1>6, MsgTyped DEF Inv
<1>8. Top(c)' = last[c] + 1 /\ Top(c) = last[c] /\ Serial(c) = last[c] + 1
  BY <1>1, <1>6, <1>7 DEF Top, Serial
<1>9. \A d \in Channels : Top(d)' \in Nat /\ Top(d) <= Top(d)'
  <2>1. Top(c)' \in Nat /\ Top(c) <= Top(c)'
    BY <1>8, TopType DEF Inv
  <2>2. \A d \in Channels \ {c} : last'[d] = last[d] /\ msg'[d] = msg[d]
    BY <1>1, <1>7
  <2> QED BY <2>1, <2>2, TopGrows DEF Inv
<1>10. \A g \in Hosts, d \in Channels : sync'[g][d] <= Top(d)'
  BY <1>3, <1>8, <1>9, NotedStays DEF Inv
<1>11. \A g \in Hosts, d \in Channels :
         initiator'[g].client = d => initiator'[g].message <= Top(d)'
  <2> SUFFICES ASSUME NEW g \in Hosts, NEW d \in Channels, initiator'[g].client = d
               PROVE  initiator'[g].message <= Top(d)'
    OBVIOUS
  <2>1. CASE g = h
    <3>1. initiator'[g] = [client |-> c, message |-> Serial(c)]
      BY <1>1, <2>1 DEF Inv, Typed, CacheTypes
    <3> QED BY <1>8, <1>9, <3>1
  <2>2. CASE g # h
    <3>1. initiator'[g] = initiator[g]
      BY <1>1, <2>2 DEF Inv, Typed, CacheTypes
    <3> QED BY <1>9, <3>1, NotedStays DEF Inv
  <2> QED BY <2>1, <2>2
<1>12. NotedInCache'
  BY <1>1, <1>9, <1>10, <1>11, NotedStays DEF Inv, NotedInCache
<1>13. /\ \A d \in Channels : msg'[c].sync[d] <= Top(d)'
       /\ \A w \in msg'[c].waits : w[1] # c /\ w[2] <= Top(w[1])'
  <2>1. \A d \in Channels : msg'[c].sync[d] = 0 /\ Top(d)' \in Nat
    BY <1>6, <1>7, <1>9 DEF NoSync
  <2>2. ASSUME NEW w \in msg'[c].waits
        PROVE  w[1] # c /\ w[2] <= Top(w[1])'
    <3>1. w \in {<<d, sync'[h][d]>> : d \in {d \in Channels \ {c} : sync'[h][d] # 0}}
      BY <1>6, <1>7, <2>2 DEF WaitsOf
    <3>2. PICK d \in Channels \ {c} : w = <<d, sync'[h][d]>>
      BY <3>1
    <3> QED BY <1>1, <1>10, <3>2
  <2> QED BY <2>1, <2>2
<1>14. NotedInWaits' /\ NotedInPipe' /\ WaitsAreReal'
  BY <1>1, <1>7, <1>9, <1>13, MsgStep
<1>15. /\ frozen' \in [Hosts -> BOOLEAN] /\ generation' \in [Hosts -> Nat]
       /\ initiator' \in [Hosts -> [client : Channels \cup {Nobody}, message : Nat]]
       /\ lru' \in [Hosts -> Seq(Images)]
       /\ gen' \in [Channels -> Nat] /\ resetDue' \in [Channels -> BOOLEAN]
  <2>1. <<>> \in Seq(Images) /\ Serial(c) \in Nat
    BY EmptySeq, TopType DEF Inv
  <2>2. frozen' \in [Hosts -> BOOLEAN] /\ generation' \in [Hosts -> Nat]
    BY <1>1 DEF Inv, Typed, CacheTypes
  <2>3. initiator' \in [Hosts -> [client : Channels \cup {Nobody}, message : Nat]]
    BY <1>1, <2>1 DEF Inv, Typed, CacheTypes
  <2>4. lru' \in [Hosts -> Seq(Images)]
    BY <1>1, <2>1 DEF Inv, Typed, CacheTypes
  <2>5. gen' \in [Channels -> Nat]
    BY <1>1, <2>2 DEF Inv, Typed, PipeTypes
  <2>6. resetDue' \in [Channels -> BOOLEAN]
    BY <1>1 DEF Inv, Typed, PipeTypes
  <2> QED BY <2>2, <2>3, <2>4, <2>5, <2>6
<1>16. Typed'
  BY <1>1, <1>3, <1>7, <1>15 DEF Inv, Typed, CacheTypes, PipeTypes, SendTypes, NetTypes
<1>17. ResetsFollowed'
  <2>1. /\ initiator'["source"] = initiator["source"] /\ generation'["source"] = generation["source"]
        /\ initiator'["target"].client = c /\ generation'["target"] = 1
        /\ gen'[c] = 1 /\ ~resetDue'[c] /\ frozen'["source"]
        /\ \A d \in Channels \ {c} : gen'[d] = gen[d] /\ resetDue'[d] = resetDue[d]
    <3>1. initiator'["source"] = initiator["source"] /\ initiator'["target"].client = c
      BY <1>1, <1>2 DEF Inv, Typed, CacheTypes, Hosts
    <3>2. generation'["source"] = generation["source"] /\ generation'["target"] = 1
      BY <1>1, <1>2 DEF Inv, Typed, CacheTypes, Hosts
    <3>3. frozen'["source"]
      BY <1>1, <1>2 DEF Inv, Typed, CacheTypes, Hosts
    <3>4. gen'[c] = 1 /\ ~resetDue'[c]
          /\ \A d \in Channels \ {c} : gen'[d] = gen[d] /\ resetDue'[d] = resetDue[d]
      BY <1>1, <1>2, <3>2 DEF Inv, Typed, PipeTypes
    <3> QED BY <3>1, <3>2, <3>3, <3>4
  <2>2. ~syncDue[c]
    BY <1>1, <1>2 DEF Inv, ResetsFollowed, Hosts
  <2>3. \A d \in Channels : ~WillReset(d)'
    BY <1>1, <1>2, <2>1 DEF WillReset
  <2> QED BY <1>1, <1>2, <2>1, <2>2, <2>3 DEF Inv, ResetsFollowed, WillReset
<1>18. Connected'
  BY <1>1, <1>7 DEF Inv, Connected
<1> QED BY <1>12, <1>14, <1>16, <1>17, <1>18 DEF Inv, SerialsGiven

\* What Send puts on the connection, for a message whose waits are real.
LEMMA SendStep ==
  ASSUME Inv, NEW c \in Channels, NEW op \in Ops, Send(c, op),
         \A d \in Channels : Top(d)' \in Nat /\ Top(d) <= Top(d)'
  PROVE  NetTypes' /\ WaitsAreReal'
<1> DEFINE W == msg[c].waits \cup (IF msg[c].evicted = {} THEN {} ELSE WaitsOf(c, msg[c].sync))
           m == [serial |-> last[c] + 1, waits |-> W, inval |-> msg[c].evicted,
                 clear |-> msg[c].clear, op |-> op]
<1>1. net' = [net EXCEPT ![c] = Append(@, m)]
  BY DEF Send
<1>2. /\ msg[c].waits \in SUBSET Waits /\ msg[c].evicted \in SUBSET Entries
      /\ msg[c].clear \in SUBSET Entries /\ msg[c].sync \in [Channels -> Nat]
      /\ last[c] + 1 \in Nat
  BY DEF Inv, Typed, SendTypes, Marshalling
<1>3. W \in SUBSET Waits
  BY <1>2 DEF WaitsOf, Waits
<1>4. \A w \in W : w[1] # c /\ w[2] <= Top(w[1])'
  <2> SUFFICES ASSUME NEW w \in W
               PROVE  w[1] # c /\ w[2] <= Top(w[1])'
    OBVIOUS
  <2>1. CASE w \in msg[c].waits
    BY <2>1, NotedStays DEF Inv
  <2>2. CASE w \in WaitsOf(c, msg[c].sync)
    BY <2>2, NotedStays DEF Inv, WaitsOf
  <2> QED BY <2>1, <2>2
<1>5. m \in Message
  <2> HIDE DEF W
  <2> QED BY <1>2, <1>3 DEF Message
<1>6. m.waits = W
  OBVIOUS
<1> HIDE DEF m, W
<1> QED BY <1>1, <1>4, <1>5, <1>6, NetStep

\* A step that sends: nothing of the cache changes, and the message's phase
\* says what is left of it.
LEMMA SendingStep ==
  ASSUME Inv, NEW c \in Channels, NEW op \in Ops, NEW m \in Marshalling,
         Send(c, op), msg' = [msg EXCEPT ![c] = m], UNCHANGED <<cacheVars, pipeVars>>,
         m.sync \in {NoSync, msg[c].sync}, m.waits \in {{}, msg[c].waits},
         \/ m.phase = "idle" /\ msg[c].phase \in {"idle", "build", "main"}
         \/ m.phase = "main" /\ msg[c].phase = "urgent"
  PROVE  Inv'
<1>1. /\ msg' \in [Channels -> Marshalling] /\ msg'[c] = m
      /\ \A d \in Channels \ {c} : msg'[d] = msg[d]
  BY MsgTyped DEF Inv
<1>2. last' = [last EXCEPT ![c] = @ + 1] /\ last \in [Channels -> Nat]
  BY DEF Send, Inv, Typed, SendTypes
<1>3. \A d \in Channels : Top(d)' \in Nat /\ Top(d) <= Top(d)'
  <2>1. /\ last'[c] = last[c] + 1 /\ last[c] \in Nat
        /\ \A d \in Channels \ {c} : last'[d] = last[d]
    BY <1>2
  <2>2. Top(c)' \in Nat /\ Top(c) <= Top(c)'
    BY <1>1, <2>1 DEF Top, Serial
  <2> QED BY <1>1, <2>1, <2>2, TopGrows DEF Inv
<1>4. NetTypes' /\ WaitsAreReal'
  BY <1>3, SendStep
<1>5. /\ \A d \in Channels : msg'[c].sync[d] <= Top(d)'
      /\ \A w \in msg'[c].waits : w[1] # c /\ w[2] <= Top(w[1])'
  BY <1>1, <1>3, NotedStays DEF Inv, NoSync
<1>6. NotedInCache' /\ NotedInPipe' /\ NotedInWaits'
  BY <1>1, <1>3, <1>5, MsgStep, NotedStays DEF cacheVars, pipeVars, Inv
<1>7. CacheTypes' /\ PipeTypes' /\ SendTypes'
  BY <1>1, <1>2 DEF cacheVars, pipeVars, CacheTypes, PipeTypes, SendTypes, Inv, Typed
<1>8. ResetsFollowed'
  BY DEF cacheVars, pipeVars, Inv, ResetsFollowed, WillReset
<1>9. Connected'
  BY <1>1 DEF Inv, Connected, pipeVars
<1> QED BY <1>4, <1>6, <1>7, <1>8, <1>9 DEF Inv, Typed, SerialsGiven

\* What a worker is left with when a message is out.
LEMMA IdleTyped ==
  /\ Idle \in Marshalling /\ Idle.phase = "idle" /\ Idle.sync = NoSync /\ Idle.waits = {}
  /\ NoOp \in Ops
  BY DEF Idle, Marshalling, Phases, NoSync, NoOp, Ops

LEMMA BeginSendStep ==
  ASSUME Inv, NEW c \in Channels, BeginSend(c)
  PROVE  Inv'
<1>1. /\ Send(c, msg[c].op) /\ msg' = [msg EXCEPT ![c] = Idle]
      /\ UNCHANGED <<cacheVars, pipeVars>> /\ msg[c].phase \in {"idle", "build"}
  BY DEF BeginSend, Ready
<1>2. msg[c].op \in Ops
  BY DEF Inv, Typed, SendTypes, Marshalling
<1> QED BY <1>1, <1>2, IdleTyped, SendingStep

LEMMA SendMainStep ==
  ASSUME Inv, NEW c \in Channels, SendMain(c)
  PROVE  Inv'
<1>1. /\ Send(c, msg[c].op) /\ msg' = [msg EXCEPT ![c] = Idle]
      /\ UNCHANGED <<cacheVars, pipeVars>> /\ msg[c].phase = "main"
  BY DEF SendMain
<1>2. msg[c].op \in Ops
  BY DEF Inv, Typed, SendTypes, Marshalling
<1> QED BY <1>1, <1>2, IdleTyped, SendingStep

LEMMA SendUrgentStep ==
  ASSUME Inv, NEW c \in Channels, SendUrgent(c)
  PROVE  Inv'
<1> DEFINE m == [msg[c] EXCEPT !.phase = "main", !.evicted = {}]
<1>1. msg[c] \in Marshalling /\ msg[c].phase = "urgent" /\ Send(c, NoOp)
      /\ UNCHANGED <<cacheVars, pipeVars>>
      /\ msg' = [msg EXCEPT ![c].phase = "main", ![c].evicted = {}]
  BY DEF SendUrgent, Inv, Typed, SendTypes
<1>2. msg' = [msg EXCEPT ![c] = m]
  BY <1>1 DEF Inv, Typed, SendTypes
<1>3. m \in Marshalling /\ m.phase = "main" /\ m.sync = msg[c].sync /\ m.waits = msg[c].waits
  BY <1>1 DEF Marshalling, Phases
<1> HIDE DEF m
<1> QED BY <1>1, <1>2, <1>3, IdleTyped, SendingStep

LEMMA SwitchToUrgentStep ==
  ASSUME Inv, NEW c \in Channels, SwitchToUrgent(c)
  PROVE  Inv'
<1> DEFINE m == [msg[c] EXCEPT !.phase = "urgent"]
<1>1. /\ msg[c] \in Marshalling /\ msg[c].phase = "build"
      /\ msg' = [msg EXCEPT ![c] = m]
      /\ UNCHANGED <<available, size, frozen, generation, initiator, era, pipeVars, last,
                     clientVars>>
  BY DEF SwitchToUrgent, Inv, Typed, SendTypes
<1>2. m \in Marshalling /\ m.phase = "urgent" /\ m.sync = msg[c].sync /\ m.waits = msg[c].waits
  BY <1>1 DEF Marshalling, Phases
<1> HIDE DEF m
<1>3. /\ msg' \in [Channels -> Marshalling] /\ msg'[c] = m
      /\ \A d \in Channels \ {c} : msg'[d] = msg[d]
  BY <1>1, <1>2, MsgTyped DEF Inv
<1>4. Top(c)' = last[c] + 2 /\ Top(c) = last[c] + 1 /\ last[c] \in Nat
  BY <1>1, <1>2, <1>3, TopType DEF Top, Serial, Inv
<1>5. \A d \in Channels : Top(d)' \in Nat /\ Top(d) <= Top(d)'
  BY <1>1, <1>3, <1>4, TopGrows DEF Inv
<1>6. CacheTypes' /\ NotedInCache'
  <2> DEFINE x == msg[c].op.id
  <2>1. CASE msg[c].op # NoOp /\ InCache(host[c], x)
    <3>1. Touch(host[c], c, x, last[c] + 2)
      BY <2>1 DEF SwitchToUrgent
    <3>2. x \in Images /\ host[c] \in Hosts
      <4>1. x \in Images
        BY <1>1, <2>1 DEF Marshalling, Ops
      <4>2. host[c] \in Hosts
        BY <1>1 DEF Inv, Connected
      <4> QED BY <4>1, <4>2
    <3> QED BY <1>1, <1>4, <1>5, <2>1, <3>1, <3>2, TouchStep DEF Inv
  <2>2. CASE ~(msg[c].op # NoOp /\ InCache(host[c], x))
    <3>1. UNCHANGED <<lru, used, sync>>
      BY <2>2 DEF SwitchToUrgent
    <3> QED BY <1>1, <1>5, <3>1, NotedStays DEF Inv, Typed, CacheTypes
  <2> QED BY <2>1, <2>2
<1>7. NotedInWaits' /\ NotedInPipe' /\ WaitsAreReal'
  BY <1>1, <1>2, <1>3, <1>5, MsgStep, NotedStays DEF Inv, pipeVars, clientVars
<1>8. Typed'
  BY <1>1, <1>3, <1>6 DEF Inv, Typed, PipeTypes, SendTypes, NetTypes, pipeVars, clientVars
<1>9. ResetsFollowed'
  BY <1>1 DEF Inv, ResetsFollowed, WillReset, pipeVars
<1>10. Connected'
  BY <1>1, <1>3 DEF Inv, Connected, pipeVars
<1> QED BY <1>6, <1>7, <1>8, <1>9, <1>10 DEF Inv, SerialsGiven

LEMMA MarshallMigrateDataStep ==
  ASSUME Inv, NEW c \in Channels, MarshallMigrateData(c)
  PROVE  Inv'
<1> DEFINE mv == [freezer |-> ~frozen["source"], sync |-> sync["source"]]
<1>1. /\ host[c] = "source" /\ msg[c].phase = "idle"
      /\ host' = [host EXCEPT ![c] = "moving"]
      /\ moved' = [moved EXCEPT ![c] = mv]
      /\ frozen' = [frozen EXCEPT !["source"] = TRUE]
      /\ lru' = [lru EXCEPT !["source"] = <<>>]
      /\ era' = IF frozen["source"] THEN era ELSE [x \in Images |-> era[x] + 1]
      /\ Send(c, NoOp)
      /\ UNCHANGED <<used, sync, generation, initiator, gen, syncDue, resetDue, msg>>
  BY DEF MarshallMigrateData, Ready
<1>2. "source" \in Hosts /\ mv \in [freezer : BOOLEAN, sync : [Channels -> Nat]]
  BY DEF Hosts, Inv, Typed, CacheTypes
<1>3. last' = [last EXCEPT ![c] = @ + 1] /\ last \in [Channels -> Nat]
  BY <1>1 DEF Send, Inv, Typed, SendTypes
<1>4. \A d \in Channels : Top(d)' \in Nat /\ Top(d) <= Top(d)'
  <2>1. /\ last'[c] = last[c] + 1 /\ last[c] \in Nat
        /\ \A d \in Channels \ {c} : last'[d] = last[d]
    BY <1>3
  <2>2. Top(c)' \in Nat /\ Top(c) <= Top(c)'
    BY <1>1, <2>1 DEF Top, Serial
  <2> QED BY <1>1, <2>1, <2>2, TopGrows DEF Inv
<1>5. NetTypes' /\ WaitsAreReal'
  BY <1>1, <1>4, IdleTyped, SendStep
<1>6. CacheTypes'
  <2>1. <<>> \in Seq(Images)
    BY EmptySeq
  <2> QED BY <1>1, <1>2, <2>1 DEF Inv, Typed, CacheTypes
<1>7. PipeTypes' /\ SendTypes'
  <2> HIDE DEF mv
  <2> QED BY <1>1, <1>2, <1>3 DEF Inv, Typed, PipeTypes, SendTypes
<1>8. NotedInCache' /\ NotedInWaits'
  BY <1>1, <1>4, NotedStays DEF Inv, NotedInWaits
<1>9. NotedInPipe'
  <2> SUFFICES ASSUME NEW b \in Channels, NEW d \in Channels
               PROVE  moved'[b].sync[d] <= Top(d)' /\ msg'[b].sync[d] <= Top(d)'
    BY DEF NotedInPipe
  <2>1. msg'[b].sync[d] <= Top(d)'
    BY <1>1, <1>4, NotedStays DEF Inv
  <2>2. moved'[b].sync[d] <= Top(d)'
    <3>1. CASE b = c
      <4>1. moved'[b].sync = sync["source"]
        BY <1>1, <3>1 DEF Inv, Typed, PipeTypes
      <4> QED BY <1>2, <1>4, <4>1, NotedStays DEF Inv
    <3>2. CASE b # c
      <4>1. moved'[b] = moved[b]
        BY <1>1, <3>2 DEF Inv, Typed, PipeTypes
      <4> QED BY <1>4, <4>1, NotedStays DEF Inv
    <3> QED BY <3>1, <3>2
  <2> QED BY <2>1, <2>2
<1>10. ResetsFollowed'
  <2>1. /\ host'[c] = "moving" /\ moved'[c].freezer = ~frozen["source"] /\ frozen'["source"]
        /\ \A d \in Channels \ {c} : host'[d] = host[d] /\ moved'[d] = moved[d]
    BY <1>1, <1>2 DEF Inv, Typed, PipeTypes, CacheTypes
  <2>2. ~resetDue[c] /\ initiator["target"].client # c
    BY <1>1 DEF Inv, ResetsFollowed
  <2>3. \A d \in Channels \ {c} : WillReset(d)' = WillReset(d)
    BY <1>1, <2>1 DEF WillReset
  <2>4. WillReset(c)' => ~frozen["source"]
    BY <1>1, <2>1, <2>2 DEF WillReset
  <2>5. ~frozen["source"] => generation["target"] = 0 /\ \A d \in Channels : ~WillReset(d)
    BY DEF Inv, ResetsFollowed
  <2> QED BY <1>1, <2>1, <2>2, <2>3, <2>4, <2>5 DEF Inv, ResetsFollowed, Hosts
<1>11. Connected'
  BY <1>1 DEF Inv, Connected, Typed, PipeTypes
<1> QED BY <1>5, <1>6, <1>7, <1>8, <1>9, <1>10, <1>11 DEF Inv, Typed, SerialsGiven

LEMMA HandleMigrateDataStep ==
  ASSUME Inv, NEW c \in Channels, HandleMigrateData(c)
  PROVE  Inv'
<1>1. /\ host[c] = "moving"
      /\ host' = [host EXCEPT ![c] = "target"]
      /\ sync' = [sync EXCEPT !["target"] = Later(sync["target"], moved[c].sync)]
      /\ resetDue' = [resetDue EXCEPT ![c] = moved[c].freezer]
      /\ gen' = [gen EXCEPT ![c] = 0]
      /\ syncDue' = [syncDue EXCEPT ![c] = FALSE]
      /\ UNCHANGED <<lru, used, frozen, generation, initiator, era, moved, last, msg, net>>
  BY DEF HandleMigrateData, clientVars
<1>2. "target" \in Hosts /\ "source" \in Hosts
  BY DEF Hosts
<1>3. \A d \in Channels : Top(d)' = Top(d)
  BY <1>1, TopKept
<1>4. \A d \in Channels : Top(d)' \in Nat /\ Top(d) <= Top(d)'
  BY <1>3, TopType DEF Inv
<1>5. /\ sync'["target"] \in [Channels -> Nat]
      /\ \A d \in Channels : sync'["target"][d] \in {sync["target"][d], moved[c].sync[d]}
      /\ \A g \in Hosts : g # "target" => sync'[g] = sync[g]
  <2>1. sync["target"] \in [Channels -> Nat] /\ moved[c].sync \in [Channels -> Nat]
    BY <1>2 DEF Inv, Typed, CacheTypes, PipeTypes
  <2>2. sync'["target"] = [d \in Channels |-> MaxOf(sync["target"][d], moved[c].sync[d])]
    BY <1>1, <1>2 DEF Inv, Typed, CacheTypes, Later
  <2>3. \A g \in Hosts : g # "target" => sync'[g] = sync[g]
    BY <1>1 DEF Inv, Typed, CacheTypes
  <2> QED BY <2>1, <2>2, <2>3 DEF MaxOf
<1>6. Typed'
  <2>1. sync' \in [Hosts -> [Channels -> Nat]]
    BY <1>1, <1>2, <1>5 DEF Inv, Typed, CacheTypes
  <2>2. moved[c].freezer \in BOOLEAN
    BY DEF Inv, Typed, PipeTypes
  <2> QED BY <1>1, <1>2, <2>1, <2>2 DEF Inv, Typed, CacheTypes, PipeTypes, SendTypes, NetTypes
<1>7. NotedInCache'
  <2>1. \A g \in Hosts, d \in Channels : sync'[g][d] <= Top(d)'
    BY <1>2, <1>4, <1>5, NotedStays DEF Inv
  <2> QED BY <1>1, <1>4, <2>1, NotedStays DEF Inv, NotedInCache
<1>8. NotedInPipe' /\ NotedInWaits' /\ WaitsAreReal'
  <2>1. \A w \in msg'[c].waits : w[1] # c /\ w[2] <= Top(w[1])'
    BY <1>1, <1>4, NotedStays DEF Inv
  <2>2. \A d \in Channels : msg'[c].sync[d] <= Top(d)'
    BY <1>1, <1>4, NotedStays DEF Inv
  <2> QED BY <1>1, <1>4, <2>1, <2>2, MsgStep DEF Inv, Typed, SendTypes
<1>9. ResetsFollowed'
  <2>1. /\ host'[c] = "target" /\ gen'[c] = 0 /\ ~syncDue'[c] /\ resetDue'[c] = moved[c].freezer
        /\ \A d \in Channels \ {c} : /\ host'[d] = host[d] /\ gen'[d] = gen[d]
                                     /\ syncDue'[d] = syncDue[d] /\ resetDue'[d] = resetDue[d]
    BY <1>1 DEF Inv, Typed, PipeTypes
  <2>2. initiator["target"].client # c /\ ~resetDue[c]
    BY <1>1 DEF Inv, ResetsFollowed
  <2>3. \A d \in Channels : WillReset(d)' = WillReset(d)
    BY <1>1, <2>1, <2>2 DEF WillReset
  <2> QED BY <1>1, <2>1, <2>2, <2>3 DEF Inv, ResetsFollowed, WillReset
<1>10. Connected'
  BY <1>1, <1>2 DEF Inv, Connected, Typed, PipeTypes
<1> QED BY <1>6, <1>7, <1>8, <1>9, <1>10 DEF Inv, SerialsGiven

LEMMA ClientStep ==
  ASSUME Inv, NEW c \in Channels, Client(c)
  PROVE  Inv'
<1>1. /\ UNCHANGED <<cacheVars, pipeVars, last, msg>> /\ net[c] # <<>>
      /\ net' = net \/ net' = [net EXCEPT ![c] = Tail(@)]
  BY DEF Client, Invalidate, DrawImage, Finish
<1>2. \A d \in Channels : Top(d)' \in Nat /\ Top(d) <= Top(d)'
  <2>1. \A d \in Channels : Top(d)' = Top(d)
    BY <1>1, TopKept
  <2> QED BY <2>1, TopType DEF Inv
<1>3. NetTypes' /\ WaitsAreReal'
  <2>1. CASE net' = net
    <3>1. WaitsAreReal'
      BY <1>1, <1>2, <2>1, MsgStep, NotedStays DEF Inv, Typed, SendTypes
    <3> QED BY <2>1, <3>1 DEF Inv, Typed, NetTypes
  <2>2. CASE net' = [net EXCEPT ![c] = Tail(@)]
    BY <1>1, <1>2, <2>2, NetStep
  <2> QED BY <1>1, <2>1, <2>2
<1>4. NotedInCache' /\ NotedInPipe' /\ NotedInWaits'
  BY <1>1, <1>2, NotedStays DEF Inv, cacheVars, pipeVars, NotedInPipe, NotedInWaits
<1>5. CacheTypes' /\ PipeTypes' /\ SendTypes'
  BY <1>1 DEF cacheVars, pipeVars, CacheTypes, PipeTypes, SendTypes, Inv, Typed
<1>6. ResetsFollowed'
  BY <1>1 DEF cacheVars, pipeVars, Inv, ResetsFollowed, WillReset
<1>7. Connected'
  BY <1>1 DEF Inv, Connected, pipeVars
<1> QED BY <1>3, <1>4, <1>5, <1>6, <1>7 DEF Inv, Typed, SerialsGiven

-----------------------------------------------------------------------------
(* The theorem.                                                            *)

LEMMA InitInv ==
  ASSUME Init
  PROVE  Inv
<1> USE DEF Init
<1>1. <<>> \in Seq(Images) /\ <<>> \in Seq(Message)
  BY EmptySeq
<1>2. \A c \in Channels : msg[c] = Idle /\ net[c] = <<>>
  OBVIOUS
<1>3. CacheTypes
  BY <1>1 DEF CacheTypes, NoSync
<1>4. PipeTypes /\ SendTypes
  BY IdleTyped DEF PipeTypes, SendTypes, NoSync, Hosts
<1>5. NetTypes
  BY <1>1 DEF NetTypes
<1>6. \A c \in Channels : Top(c) = 0
  BY <1>2, IdleTyped DEF Top
<1>7. SerialsGiven
  <2>1. NotedInCache
    BY <1>6, ChannelsAssumption DEF NotedInCache, NoSync
  <2>2. NotedInPipe /\ NotedInWaits
    BY <1>2, <1>6, IdleTyped DEF NotedInPipe, NotedInWaits, NoSync
  <2>3. WaitsAreReal
    BY <1>2, EmptySeq DEF WaitsAreReal
  <2> QED BY <2>1, <2>2, <2>3 DEF SerialsGiven
<1>8. ResetsFollowed
  BY ChannelsAssumption DEF ResetsFollowed, WillReset, Hosts
<1>9. Connected
  BY <1>2, IdleTyped DEF Connected
<1> QED BY <1>3, <1>4, <1>5, <1>7, <1>8, <1>9 DEF Inv, Typed

LEMMA NextInv ==
  ASSUME Inv, [Next]_vars
  PROVE  Inv'
<1>1. CASE UNCHANGED vars
  <2>1. \A d \in Channels : Top(d)' = Top(d)
    BY <1>1, TopKept DEF vars
  <2>2. \A d \in Channels : Top(d)' \in Nat /\ Top(d) <= Top(d)'
    BY <2>1, TopType DEF Inv
  <2>3. NotedInCache' /\ NotedInPipe' /\ NotedInWaits'
    BY <1>1, <2>2, NotedStays DEF vars, Inv, NotedInPipe, NotedInWaits
  <2>4. WaitsAreReal'
    BY <1>1 DEF vars, Inv, SerialsGiven, WaitsAreReal, Top, Serial
  <2>5. Typed'
    BY <1>1 DEF vars, Inv, Typed, CacheTypes, PipeTypes, SendTypes, NetTypes
  <2>6. ResetsFollowed' /\ Connected'
    BY <1>1 DEF vars, Inv, ResetsFollowed, WillReset, Connected
  <2> QED BY <2>3, <2>4, <2>5, <2>6 DEF Inv, SerialsGiven
<1>2. ASSUME NEW c \in Channels, NEW x \in Images, MarshallUpgrade(c, x)
      PROVE  Inv'
  BY <1>2, MarshallUpgradeStep
<1>3. ASSUME NEW c \in Channels,
             \/ MarshallPixmapSync(c) \/ MarshallReset(c)
             \/ BeginSend(c) \/ SwitchToUrgent(c) \/ SendUrgent(c) \/ SendMain(c)
             \/ MarshallMigrateData(c) \/ HandleMigrateData(c)
             \/ Client(c)
      PROVE  Inv'
  BY <1>3, MarshallPixmapSyncStep, MarshallResetStep, BeginSendStep, SwitchToUrgentStep,
     SendUrgentStep, SendMainStep, MarshallMigrateDataStep, HandleMigrateDataStep, ClientStep
<1> QED BY <1>1, <1>2, <1>3 DEF Next, Worker

\* A message never waits for its own channel, nor for a serial that no message
\* of the other channel has: what display_channel_push_release, the resets and
\* the migrate data note down has been given out when it is noted.
THEOREM WaitsCorrect == Spec => []WaitsAreReal
<1>1. Init => Inv
  BY InitInv
<1>2. Inv /\ [Next]_vars => Inv'
  BY NextInv
<1>3. Inv => WaitsAreReal
  BY DEF Inv, SerialsGiven
<1> QED BY <1>1, <1>2, <1>3, PTL DEF Spec

-----------------------------------------------------------------------------
(***************************************************************************)
(* A removal waits for the uses of what it removes (RemovalsWait), for any *)
(* channels, images, sizes and serials, with or without a migration.       *)
(*                                                                         *)
(* A use is a message that the client has still to draw.  While its entry  *)
(* is in the server's cache, the serial of the use is noted with the item; *)
(* when the entry leaves, the serial goes into the free list of the        *)
(* message that removes it, and from there into the message's waits; when  *)
(* the cache is frozen, it goes into the migrate data and, on the target,  *)
(* into the waits of the reset.  Noted follows the serial on this way.     *)
(* That the entry of a use is the one the removal means, and not a later   *)
(* one of the same image, is the business of the eras: an entry that is    *)
(* removed is older than all that will be used (Dated), and a channel      *)
(* never removes what it draws itself, then or later (InOrder).            *)
(***************************************************************************)

\* The operation draws the image with this entry of the server's cache.
Draws(op, x, e) == op # NoOp /\ op.id = x /\ op.era = e

\* Message s of channel d, which the client has still to draw, does.
Uses(d, x, e, s) ==
  \/ \E i \in DOMAIN net[d] : Draws(net[d][i].op, x, e) /\ s = net[d][i].serial
  \/ Draws(msg[d].op, x, e) /\ s = Serial(d)

\* The message waits for serial s of channel d.
WaitsFor(waits, d, s) == \E w \in waits : w[1] = d /\ s <= w[2]

\* Where the serials of the uses are noted while the entry is in the cache,
NotedInItem(d, x, e, s) ==
  /\ e <= era[x]
  /\ e = era[x] => \E h \in Hosts : InCache(h, x) /\ s <= used[h][x][d]
\* by a removal of another channel that is being marshalled or on its way,
NotedInRemovals(d, x, e, s) ==
  \A c \in Channels \ {d} :
    /\ <<x, e>> \in msg[c].evicted => s <= msg[c].sync[d]
    /\ <<x, e>> \in msg[c].clear => WaitsFor(msg[c].waits, d, s)
    /\ \A i \in DOMAIN net[c] :
         <<x, e>> \in Removes(net[c][i]) => WaitsFor(net[c][i].waits, d, s)
\* and for the reset that follows a migration.
NotedForReset(d, s) ==
  /\ ~frozen["source"] => s <= sync["source"][d]
  /\ \A c \in Channels :
       /\ host[c] = "moving" /\ moved[c].freezer => s <= moved[c].sync[d]
       /\ resetDue[c] => s <= sync["target"][d]

Noted ==
  \A d \in Channels, x \in Images, e, s \in Nat :
    Uses(d, x, e, s) =>
      NotedInItem(d, x, e, s) /\ NotedInRemovals(d, x, e, s) /\ NotedForReset(d, s)

\* The entries of removals have left the server's cache.
Past(entries) == \A x \in Images, e \in Nat : <<x, e>> \in entries => e < era[x]
Dated ==
  \A c \in Channels :
    /\ Past(msg[c].evicted) /\ Past(msg[c].clear)
    /\ \A i \in DOMAIN net[c] : Past(Removes(net[c][i]))

\* No message removes what it, or a later one of the channel, draws.
Apart(op, entries) == \A x \in Images, e \in Nat : Draws(op, x, e) => <<x, e>> \notin entries
InOrder ==
  \A c \in Channels :
    /\ Apart(msg[c].op, msg[c].evicted) /\ Apart(msg[c].op, msg[c].clear)
    /\ \A i \in DOMAIN net[c] :
         /\ Apart(msg[c].op, Removes(net[c][i]))
         /\ \A j \in DOMAIN net[c] : i <= j => Apart(net[c][j].op, Removes(net[c][i]))

\* An image is in the cache once; a frozen cache is empty, and so is the
\* target's before it is reset.
OnceIn(q) == \A i, j \in DOMAIN q : q[i] = q[j] => i = j
Filled ==
  /\ DOMAIN available = Hosts
  /\ \A h \in Hosts : OnceIn(lru[h])
  /\ frozen["source"] => lru["source"] = <<>> /\ available["source"] = -1
  /\ generation["target"] = 0 => lru["target"] = <<>> /\ available["target"] = -1

\* Messages are numbered, and a channel without a message has nothing to send.
Numbered ==
  /\ done \in [Channels -> Nat]
  /\ \A c \in Channels :
       /\ done[c] = last[c] - Len(net[c])
       /\ \A i \in DOMAIN net[c] : net[c][i].serial = done[c] + i
Resting ==
  \A c \in Channels :
    /\ msg[c].phase = "idle" => msg[c] = Idle
    /\ host[c] = "closed" => msg[c] = Idle /\ net[c] = <<>>
    /\ mini = {} => msg[c].phase \in {"idle", "build"}

Kept ==
  /\ Filled /\ Numbered /\ Resting
  /\ Dated /\ InOrder
  /\ mini = {} => Noted

-----------------------------------------------------------------------------
(* The connections, and what is to be drawn.                               *)

LEMMA NetSeq ==
  ASSUME Inv, NEW c \in Channels
  PROVE  /\ net[c] \in Seq(Message) /\ Len(net[c]) \in Nat /\ DOMAIN net[c] = 1..Len(net[c])
         /\ \A i \in DOMAIN net[c] : net[c][i] \in Message
         /\ last[c] \in Nat
<1>1. net[c] \in Seq(Message) /\ last[c] \in Nat
  BY DEF Inv, Typed, NetTypes, SendTypes
<1> QED BY <1>1, ElementOfSeq, LenProperties

LEMMA Shorter ==
  ASSUME Inv, NEW c \in Channels, net[c] # <<>>, net' = [net EXCEPT ![c] = Tail(@)]
  PROVE  /\ \A d \in Channels \ {c} : net'[d] = net[d]
         /\ Len(net[c]) >= 1 /\ Len(net'[c]) = Len(net[c]) - 1
         /\ DOMAIN net'[c] = 1..(Len(net[c]) - 1)
         /\ \A i \in DOMAIN net'[c] : i + 1 \in DOMAIN net[c] /\ net'[c][i] = net[c][i + 1]
<1>1. net'[c] = Tail(net[c]) /\ \A d \in Channels \ {c} : net'[d] = net[d]
  BY DEF Inv, Typed, NetTypes
<1>2. net[c] \in Seq(Message) /\ Len(net[c]) \in Nat /\ DOMAIN net[c] = 1..Len(net[c])
  BY NetSeq
<1>3. /\ Tail(net[c]) \in Seq(Message) /\ Len(Tail(net[c])) = Len(net[c]) - 1
      /\ \A i \in 1..Len(Tail(net[c])) : Tail(net[c])[i] = net[c][i + 1]
  BY <1>2, HeadTailProperties
<1>4. Len(Tail(net[c])) \in Nat /\ DOMAIN Tail(net[c]) = 1..Len(Tail(net[c]))
  BY <1>3, LenProperties
<1>5. Len(net[c]) >= 1
  BY <1>2, <1>3, <1>4
<1>6. \A i \in 1..(Len(net[c]) - 1) :
        i + 1 \in 1..Len(net[c]) /\ Tail(net[c])[i] = net[c][i + 1]
  BY <1>2, <1>3
<1>7. DOMAIN net'[c] = 1..(Len(net[c]) - 1) /\ Len(net'[c]) = Len(net[c]) - 1
  BY <1>1, <1>3, <1>4
<1> QED BY <1>1, <1>2, <1>5, <1>6, <1>7

LEMMA Longer ==
  ASSUME Inv, NEW c \in Channels, NEW m, net' = [net EXCEPT ![c] = Append(@, m)],
         Inv'
  PROVE  /\ \A d \in Channels \ {c} : net'[d] = net[d]
         /\ Len(net'[c]) = Len(net[c]) + 1
         /\ DOMAIN net'[c] = 1..(Len(net[c]) + 1)
         /\ \A i \in DOMAIN net[c] : i \in DOMAIN net'[c] /\ net'[c][i] = net[c][i]
         /\ net'[c][Len(net[c]) + 1] = m
<1>1. net'[c] = Append(net[c], m) /\ \A d \in Channels \ {c} : net'[d] = net[d]
  BY DEF Inv, Typed, NetTypes
<1>2. net[c] \in Seq(Message) /\ Len(net[c]) \in Nat /\ DOMAIN net[c] = 1..Len(net[c])
  BY NetSeq
<1> QED BY <1>1, <1>2

\* The messages still to be drawn are numbered from the last handled one on.
LEMMA UseNumber ==
  ASSUME Inv, Kept, NEW d \in Channels, NEW x, NEW e, NEW s, Uses(d, x, e, s)
  PROVE  /\ done[d] \in Nat /\ s \in Nat /\ s > done[d] /\ s >= 1
         /\ mini = {} => s <= Top(d)
<1>1. /\ net[d] \in Seq(Message) /\ Len(net[d]) \in Nat /\ DOMAIN net[d] = 1..Len(net[d])
      /\ last[d] \in Nat /\ done[d] \in Nat /\ done[d] = last[d] - Len(net[d])
  BY NetSeq DEF Kept, Numbered
<1>2. CASE \E i \in DOMAIN net[d] : s = net[d][i].serial
  <2>1. PICK i \in 1..Len(net[d]) : s = done[d] + i
    BY <1>1, <1>2 DEF Kept, Numbered
  <2>2. s <= last[d] /\ s \in Nat /\ s > done[d]
    BY <1>1, <2>1
  <2>3. last[d] <= Top(d) /\ Top(d) \in Nat
    BY TopType DEF Inv
  <2> QED BY <1>1, <2>2, <2>3
<1>3. CASE Draws(msg[d].op, x, e) /\ s = Serial(d)
  <2>1. msg[d].phase # "idle"
    BY <1>3 DEF Draws, Kept, Resting, Idle
  <2>2. Serial(d) = Top(d)
    BY <2>1 DEF Top
  <2>3. Serial(d) = last[d] + 1 \/ Serial(d) = last[d] + 2
    BY <1>1 DEF Serial
  <2>4. Serial(d) \in Nat /\ Serial(d) >= 1 /\ Serial(d) > done[d]
    BY <1>1, <2>3
  <2> QED BY <1>1, <1>3, <2>2, <2>4
<1> QED BY <1>2, <1>3 DEF Uses

\* What a step with the same or fewer uses and the same removals, or fewer,
\* has to show.
LEMMA UsesStay ==
  ASSUME NEW d \in Channels, NEW x, NEW e, NEW s,
         net' = net, msg'[d].op = msg[d].op, Serial(d)' = Serial(d)
  PROVE  Uses(d, x, e, s)' <=> Uses(d, x, e, s)
BY DEF Uses

-----------------------------------------------------------------------------
(* The client.                                                             *)

\* What the client has handled it need not draw any more.
LEMMA ClientNet ==
  ASSUME Inv, Kept, NEW c \in Channels, Client(c)
  PROVE  /\ UNCHANGED <<cacheVars, pipeVars, last, msg>>
         /\ \A d \in Channels : \A i \in DOMAIN net'[d] :
              \E j \in DOMAIN net[d] : net'[d][i] = net[d][j]
         /\ \A d \in Channels : \A i, j \in DOMAIN net'[d] : i <= j =>
              \E k, l \in DOMAIN net[d] : net'[d][i] = net[d][k] /\ net'[d][j] = net[d][l] /\ k <= l
         /\ \A d \in Channels : host[d] = "closed" => net'[d] = net[d]
         /\ Numbered'
<1>1. /\ UNCHANGED <<cacheVars, pipeVars, last, msg>> /\ net[c] # <<>>
      /\ \/ net' = net /\ done' = done
         \/ net' = [net EXCEPT ![c] = Tail(@)] /\ done' = [done EXCEPT ![c] = First(c).serial]
  <2>1. CASE Invalidate(c)
    <3>1. CASE First(c).op = NoOp
      BY <2>1, <3>1 DEF Invalidate, Finish
    <3>2. CASE First(c).op # NoOp
      BY <2>1, <3>2 DEF Invalidate
    <3> QED BY <3>1, <3>2
  <2>2. CASE DrawImage(c)
    BY <2>2 DEF DrawImage, Finish
  <2> QED BY <2>1, <2>2 DEF Client
<1>2. \A d \in Channels : /\ Len(net[d]) \in Nat /\ DOMAIN net[d] = 1..Len(net[d])
                          /\ last[d] \in Nat /\ done[d] \in Nat
                          /\ done[d] = last[d] - Len(net[d])
                          /\ \A i \in DOMAIN net[d] : net[d][i].serial = done[d] + i
  BY NetSeq DEF Kept, Numbered
<1>3. CASE net' = net /\ done' = done
  <2>1. Numbered'
    BY <1>1, <1>3 DEF Kept, Numbered
  <2> QED BY <1>1, <1>3, <2>1
<1>4. CASE net' = [net EXCEPT ![c] = Tail(@)] /\ done' = [done EXCEPT ![c] = First(c).serial]
  <2>1. /\ \A d \in Channels \ {c} : net'[d] = net[d]
        /\ Len(net[c]) >= 1 /\ Len(net'[c]) = Len(net[c]) - 1
        /\ DOMAIN net'[c] = 1..(Len(net[c]) - 1)
        /\ \A i \in DOMAIN net'[c] : i + 1 \in DOMAIN net[c] /\ net'[c][i] = net[c][i + 1]
    BY <1>1, <1>4, Shorter
  <2>2. /\ done' \in [Channels -> Nat] /\ done'[c] = done[c] + 1
        /\ \A d \in Channels \ {c} : done'[d] = done[d]
    <3>1. 1 \in DOMAIN net[c]
      BY <1>2, <2>1
    <3>2. First(c).serial = done[c] + 1 /\ done[c] + 1 \in Nat
      BY <1>2, <3>1 DEF First
    <3> QED BY <1>4, <3>2 DEF Kept, Numbered
  <2>3. ASSUME NEW d \in Channels
        PROVE  /\ done'[d] = last[d] - Len(net'[d])
               /\ \A i \in DOMAIN net'[d] : net'[d][i].serial = done'[d] + i
    <3>1. CASE d # c
      <4>1. net'[d] = net[d] /\ done'[d] = done[d]
        BY <2>1, <2>2, <3>1
      <4>2. /\ done[d] = last[d] - Len(net[d])
            /\ \A i \in DOMAIN net[d] : net[d][i].serial = done[d] + i
        BY <1>2
      <4> QED BY <4>1, <4>2
    <3>2. CASE d = c
      <4>1. done'[c] = last[c] - Len(net'[c])
        BY <1>2, <2>1, <2>2
      <4>2. ASSUME NEW i \in DOMAIN net'[c]
            PROVE  net'[c][i].serial = done'[c] + i
        <5>1. i + 1 \in DOMAIN net[c] /\ net'[c][i] = net[c][i + 1] /\ i \in Int
          BY <1>2, <2>1
        <5>2. net[c][i + 1].serial = done[c] + (i + 1) /\ done[c] \in Int
          BY <1>2, <5>1
        <5> QED BY <2>2, <5>1, <5>2
      <4> QED BY <3>2, <4>1, <4>2
    <3> QED BY <3>1, <3>2
  <2>4. Numbered'
    BY <1>1, <2>2, <2>3 DEF Numbered
  <2>5. host[c] # "closed"
    BY <1>1 DEF Kept, Resting
  <2>6. ASSUME NEW d \in Channels, NEW i \in DOMAIN net'[d]
        PROVE  \E j \in DOMAIN net[d] : net'[d][i] = net[d][j]
    BY <2>1
  <2>7. ASSUME NEW d \in Channels, NEW i \in DOMAIN net'[d], NEW j \in DOMAIN net'[d], i <= j
        PROVE  \E k, l \in DOMAIN net[d] : net'[d][i] = net[d][k] /\ net'[d][j] = net[d][l] /\ k <= l
    <3>1. CASE d # c
      BY <2>1, <2>7, <3>1
    <3>2. CASE d = c
      <4>1. i + 1 \in DOMAIN net[c] /\ j + 1 \in DOMAIN net[c] /\ i + 1 <= j + 1
        BY <1>2, <2>1, <2>7, <3>2
      <4> QED BY <2>1, <3>2, <4>1
    <3> QED BY <3>1, <3>2
  <2> QED BY <1>1, <2>1, <2>4, <2>5, <2>6, <2>7
<1> QED BY <1>1, <1>3, <1>4

LEMMA ClientKept ==
  ASSUME Inv, Kept, NEW c \in Channels, Client(c)
  PROVE  Kept'
<1>1. /\ UNCHANGED <<cacheVars, pipeVars, last, msg>>
      /\ \A d \in Channels : \A i \in DOMAIN net'[d] :
           \E j \in DOMAIN net[d] : net'[d][i] = net[d][j]
      /\ \A d \in Channels : \A i, j \in DOMAIN net'[d] : i <= j =>
           \E k, l \in DOMAIN net[d] : net'[d][i] = net[d][k] /\ net'[d][j] = net[d][l] /\ k <= l
      /\ \A d \in Channels : host[d] = "closed" => net'[d] = net[d]
      /\ Numbered'
  BY ClientNet
<1>2. Filled'
  BY <1>1 DEF cacheVars, Kept, Filled
<1>3. Resting'
  BY <1>1 DEF pipeVars, Kept, Resting
<1>4. Dated'
  <2> SUFFICES ASSUME NEW d \in Channels
               PROVE  /\ Past(msg[d].evicted)' /\ Past(msg[d].clear)'
                      /\ \A i \in DOMAIN net'[d] : Past(Removes(net[d][i]))'
    BY DEF Dated
  <2>1. Past(msg[d].evicted)' /\ Past(msg[d].clear)'
    BY <1>1 DEF cacheVars, Kept, Dated, Past
  <2>2. ASSUME NEW i \in DOMAIN net'[d]
        PROVE  Past(Removes(net[d][i]))'
    <3>1. PICK j \in DOMAIN net[d] : net'[d][i] = net[d][j]
      BY <1>1
    <3>2. Past(Removes(net[d][j]))
      BY DEF Kept, Dated
    <3> QED BY <1>1, <3>1, <3>2 DEF cacheVars, Past, Removes
  <2> QED BY <2>1, <2>2
<1>5. InOrder'
  <2> SUFFICES ASSUME NEW d \in Channels
               PROVE  /\ Apart(msg[d].op, msg[d].evicted)' /\ Apart(msg[d].op, msg[d].clear)'
                      /\ \A i \in DOMAIN net'[d] :
                           /\ Apart(msg[d].op, Removes(net[d][i]))'
                           /\ \A j \in DOMAIN net'[d] : i <= j =>
                                Apart(net[d][j].op, Removes(net[d][i]))'
    BY DEF InOrder
  <2>1. Apart(msg[d].op, msg[d].evicted)' /\ Apart(msg[d].op, msg[d].clear)'
    BY <1>1 DEF Kept, InOrder, Apart, Draws
  <2>2. ASSUME NEW i \in DOMAIN net'[d]
        PROVE  Apart(msg[d].op, Removes(net[d][i]))'
    <3>1. PICK j \in DOMAIN net[d] : net'[d][i] = net[d][j]
      BY <1>1
    <3>2. Apart(msg[d].op, Removes(net[d][j]))
      BY DEF Kept, InOrder
    <3> QED BY <1>1, <3>1, <3>2 DEF Apart, Removes, Draws
  <2>3. ASSUME NEW i \in DOMAIN net'[d], NEW j \in DOMAIN net'[d], i <= j
        PROVE  Apart(net[d][j].op, Removes(net[d][i]))'
    <3>1. PICK k \in DOMAIN net[d], l \in DOMAIN net[d] :
            net'[d][i] = net[d][k] /\ net'[d][j] = net[d][l] /\ k <= l
      BY <1>1, <2>3
    <3>2. Apart(net[d][l].op, Removes(net[d][k]))
      BY <3>1 DEF Kept, InOrder
    <3> QED BY <3>1, <3>2 DEF Apart, Removes, Draws
  <2> QED BY <2>1, <2>2, <2>3
<1>6. ASSUME mini = {}
      PROVE  Noted'
  <2> SUFFICES ASSUME NEW d \in Channels, NEW x \in Images, NEW e \in Nat, NEW s \in Nat,
                      Uses(d, x, e, s)'
               PROVE  /\ NotedInItem(d, x, e, s)' /\ NotedInRemovals(d, x, e, s)'
                      /\ NotedForReset(d, s)'
    BY DEF Noted
  <2>1. Uses(d, x, e, s)
    <3>1. Serial(d)' = Serial(d)
      BY <1>1 DEF Serial
    <3>2. CASE \E i \in DOMAIN net'[d] : Draws(net'[d][i].op, x, e) /\ s = net'[d][i].serial
      <4>1. PICK i \in DOMAIN net'[d] : Draws(net'[d][i].op, x, e) /\ s = net'[d][i].serial
        BY <3>2
      <4>2. PICK j \in DOMAIN net[d] : net'[d][i] = net[d][j]
        BY <1>1
      <4> QED BY <4>1, <4>2 DEF Uses
    <3>3. CASE Draws(msg'[d].op, x, e) /\ s = Serial(d)'
      BY <1>1, <3>1, <3>3 DEF Uses
    <3> QED BY <3>2, <3>3 DEF Uses
  <2>2. NotedInItem(d, x, e, s) /\ NotedInRemovals(d, x, e, s) /\ NotedForReset(d, s)
    BY <1>6, <2>1 DEF Kept, Noted
  <2>3. NotedInItem(d, x, e, s)' /\ NotedForReset(d, s)'
    BY <1>1, <2>2 DEF cacheVars, pipeVars, NotedInItem, NotedForReset, InCache
  <2>4. NotedInRemovals(d, x, e, s)'
    <3> SUFFICES ASSUME NEW b \in Channels \ {d}
                 PROVE  /\ <<x, e>> \in msg'[b].evicted => s <= msg'[b].sync[d]
                        /\ <<x, e>> \in msg'[b].clear => WaitsFor(msg'[b].waits, d, s)
                        /\ \A i \in DOMAIN net'[b] : <<x, e>> \in Removes(net'[b][i]) =>
                             WaitsFor(net'[b][i].waits, d, s)
      BY DEF NotedInRemovals, WaitsFor, Removes
    <3>1. /\ <<x, e>> \in msg[b].evicted => s <= msg[b].sync[d]
          /\ <<x, e>> \in msg[b].clear => WaitsFor(msg[b].waits, d, s)
          /\ \A i \in DOMAIN net[b] : <<x, e>> \in Removes(net[b][i]) =>
               WaitsFor(net[b][i].waits, d, s)
      BY <2>2 DEF NotedInRemovals
    <3>2. \A i \in DOMAIN net'[b] : \E j \in DOMAIN net[b] : net'[b][i] = net[b][j]
      BY <1>1
    <3> QED BY <1>1, <3>1, <3>2
  <2> QED BY <2>3, <2>4
<1>7. mini' = mini
  BY <1>1 DEF pipeVars
<1> QED BY <1>1, <1>2, <1>3, <1>4, <1>5, <1>6, <1>7 DEF Kept

-----------------------------------------------------------------------------
(* Sending.                                                                *)

\* What goes over the connection, and what it removes.
LEMMA Sent ==
  ASSUME Inv, Inv', Kept, NEW c \in Channels, NEW op, Send(c, op)
  PROVE  \E m : /\ net' = [net EXCEPT ![c] = Append(@, m)]
                /\ m.serial = last[c] + 1 /\ m.op = op
                /\ Removes(m) = msg[c].evicted \cup msg[c].clear
                /\ m.waits = msg[c].waits \cup
                     (IF msg[c].evicted = {} THEN {} ELSE WaitsOf(c, msg[c].sync))
                /\ \A d \in Channels \ {c} : net'[d] = net[d]
                /\ DOMAIN net[c] = 1..Len(net[c]) /\ Len(net[c]) \in Nat
                /\ DOMAIN net'[c] = 1..(Len(net[c]) + 1)
                /\ \A i \in DOMAIN net[c] : net'[c][i] = net[c][i]
                /\ net'[c][Len(net[c]) + 1] = m
<1> DEFINE m == [serial |-> last[c] + 1,
                 waits |-> msg[c].waits \cup
                   (IF msg[c].evicted = {} THEN {} ELSE WaitsOf(c, msg[c].sync)),
                 inval |-> msg[c].evicted, clear |-> msg[c].clear, op |-> op]
<1>1. net' = [net EXCEPT ![c] = Append(@, m)]
  BY DEF Send
<1>2. /\ m.serial = last[c] + 1 /\ m.op = op
      /\ Removes(m) = msg[c].evicted \cup msg[c].clear
      /\ m.waits = msg[c].waits \cup
           (IF msg[c].evicted = {} THEN {} ELSE WaitsOf(c, msg[c].sync))
  BY DEF Removes
<1> HIDE DEF m
<1>3. /\ \A d \in Channels \ {c} : net'[d] = net[d]
      /\ DOMAIN net'[c] = 1..(Len(net[c]) + 1)
      /\ \A i \in DOMAIN net[c] : net'[c][i] = net[c][i]
      /\ net'[c][Len(net[c]) + 1] = m
  BY <1>1, Longer
<1>4. DOMAIN net[c] = 1..Len(net[c]) /\ Len(net[c]) \in Nat
  BY NetSeq
<1> QED BY <1>1, <1>2, <1>3, <1>4

\* A message is an old one, or the new one at the end.
LEMMA SentWhere ==
  ASSUME NEW n \in Nat, NEW i \in 1..(n + 1)
  PROVE  i \in 1..n \/ i = n + 1
OBVIOUS

LEMMA SendNumbered ==
  ASSUME Inv, Inv', Kept, NEW c \in Channels, NEW op, Send(c, op)
  PROVE  Numbered'
<1>1. PICK m : /\ m.serial = last[c] + 1
               /\ net' = [net EXCEPT ![c] = Append(@, m)]
               /\ \A d \in Channels \ {c} : net'[d] = net[d]
               /\ DOMAIN net[c] = 1..Len(net[c]) /\ Len(net[c]) \in Nat
               /\ DOMAIN net'[c] = 1..(Len(net[c]) + 1)
               /\ \A i \in DOMAIN net[c] : net'[c][i] = net[c][i]
               /\ net'[c][Len(net[c]) + 1] = m
  BY Sent
<1>2. /\ done' = done /\ last'[c] = last[c] + 1 /\ last[c] \in Nat
      /\ \A d \in Channels \ {c} : last'[d] = last[d]
  BY DEF Send, Inv, Typed, SendTypes
<1>3. Len(net'[c]) = Len(net[c]) + 1
  BY <1>1, Longer
<1>4. /\ done \in [Channels -> Nat]
      /\ \A d \in Channels :
           /\ done[d] = last[d] - Len(net[d])
           /\ \A i \in DOMAIN net[d] : net[d][i].serial = done[d] + i
  BY DEF Kept, Numbered
<1>5. ASSUME NEW d \in Channels
      PROVE  /\ done[d] = last'[d] - Len(net'[d])
             /\ \A i \in DOMAIN net'[d] : net'[d][i].serial = done[d] + i
  <2>1. CASE d # c
    <3>1. net'[d] = net[d] /\ last'[d] = last[d]
      BY <1>1, <1>2, <2>1
    <3> QED BY <1>4, <3>1
  <2>2. CASE d = c
    <3>1. done[c] = last'[c] - Len(net'[c])
      BY <1>1, <1>2, <1>3, <1>4
    <3>2. ASSUME NEW i \in DOMAIN net'[c]
          PROVE  net'[c][i].serial = done[c] + i
      <4>1. CASE i \in 1..Len(net[c])
        BY <1>1, <1>4, <4>1
      <4>2. CASE i = Len(net[c]) + 1
        <5>1. net'[c][i].serial = last[c] + 1
          BY <1>1, <4>2
        <5>2. done[c] = last[c] - Len(net[c])
          BY <1>4
        <5> QED BY <1>1, <1>2, <4>2, <5>1, <5>2
      <4> QED BY <1>1, <4>1, <4>2, SentWhere
    <3> QED BY <2>2, <3>1, <3>2
  <2> QED BY <2>1, <2>2
<1> QED BY <1>2, <1>4, <1>5 DEF Numbered

\* The message that is sent, or the main one of two, takes the removals along.
LEMMA SendKept ==
  ASSUME Inv, Inv', Kept, NEW c \in Channels, NEW op, Send(c, op), host[c] # "closed",
         op \in {NoOp, msg[c].op},
         \A d \in Channels \ {c} : msg'[d] = msg[d],
         msg'[c].op \in {NoOp, msg[c].op},
         msg'[c].evicted \subseteq msg[c].evicted, msg'[c].clear \subseteq msg[c].clear,
         msg'[c].phase = "idle" => msg'[c] = Idle,
         mini = {} => msg'[c] = Idle /\ Serial(c) = last[c] + 1,
         UNCHANGED <<cacheVars, pipeVars>>
  PROVE  Kept'
<1>1. PICK m : /\ m.serial = last[c] + 1 /\ m.op = op
               /\ Removes(m) = msg[c].evicted \cup msg[c].clear
               /\ m.waits = msg[c].waits \cup
                    (IF msg[c].evicted = {} THEN {} ELSE WaitsOf(c, msg[c].sync))
               /\ \A d \in Channels \ {c} : net'[d] = net[d]
               /\ DOMAIN net[c] = 1..Len(net[c]) /\ Len(net[c]) \in Nat
               /\ DOMAIN net'[c] = 1..(Len(net[c]) + 1)
               /\ \A i \in DOMAIN net[c] : net'[c][i] = net[c][i]
               /\ net'[c][Len(net[c]) + 1] = m
  BY Sent, SMTT(20)
<1>2. Numbered'
  BY SendNumbered
<1>3. Filled'
  BY DEF cacheVars, Kept, Filled
<1>4. Resting'
  <2> SUFFICES ASSUME NEW d \in Channels
               PROVE  /\ msg'[d].phase = "idle" => msg'[d] = Idle
                      /\ host'[d] = "closed" => msg'[d] = Idle /\ net'[d] = <<>>
                      /\ mini' = {} => msg'[d].phase \in {"idle", "build"}
    BY DEF Resting
  <2>1. host' = host /\ mini' = mini
    BY DEF pipeVars
  <2>2. CASE d # c
    BY <1>1, <2>1, <2>2 DEF Kept, Resting
  <2>3. CASE d = c
    BY <2>1, <2>3 DEF Idle
  <2> QED BY <2>2, <2>3
<1>5. Dated'
  <2> SUFFICES ASSUME NEW d \in Channels
               PROVE  /\ Past(msg[d].evicted)' /\ Past(msg[d].clear)'
                      /\ \A i \in DOMAIN net'[d] : Past(Removes(net[d][i]))'
    BY DEF Dated
  <2>1. era' = era
    BY DEF cacheVars
  <2>2. /\ Past(msg[d].evicted) /\ Past(msg[d].clear)
        /\ \A i \in DOMAIN net[d] : Past(Removes(net[d][i]))
    BY DEF Kept, Dated
  <2>3. Past(msg[d].evicted)' /\ Past(msg[d].clear)'
    <3>1. msg'[d].evicted \subseteq msg[d].evicted /\ msg'[d].clear \subseteq msg[d].clear
      OBVIOUS
    <3> QED BY <2>1, <2>2, <3>1 DEF Past
  <2>4. ASSUME NEW i \in DOMAIN net'[d]
        PROVE  Past(Removes(net[d][i]))'
    <3>1. CASE d # c \/ i \in DOMAIN net[d]
      <4>1. i \in DOMAIN net[d] /\ net'[d][i] = net[d][i]
        BY <1>1, <3>1
      <4>2. Past(Removes(net[d][i]))
        BY <2>2, <4>1
      <4> QED BY <2>1, <4>1, <4>2 DEF Past, Removes
    <3>2. CASE d = c /\ i = Len(net[c]) + 1
      <4>1. net'[d][i] = m
        BY <1>1, <3>2
      <4>2. Past(Removes(m))
        BY <1>1, <2>2, <3>2 DEF Past
      <4> QED BY <2>1, <4>1, <4>2 DEF Past, Removes
    <3> QED BY <1>1, <3>1, <3>2, SentWhere
  <2> QED BY <2>3, <2>4
<1>6. InOrder'
  <2> SUFFICES ASSUME NEW d \in Channels
               PROVE  /\ Apart(msg[d].op, msg[d].evicted)' /\ Apart(msg[d].op, msg[d].clear)'
                      /\ \A i \in DOMAIN net'[d] :
                           /\ Apart(msg[d].op, Removes(net[d][i]))'
                           /\ \A j \in DOMAIN net'[d] : i <= j =>
                                Apart(net[d][j].op, Removes(net[d][i]))'
    BY DEF InOrder
  <2>1. /\ Apart(msg[d].op, msg[d].evicted) /\ Apart(msg[d].op, msg[d].clear)
        /\ \A i \in DOMAIN net[d] :
             /\ Apart(msg[d].op, Removes(net[d][i]))
             /\ \A j \in DOMAIN net[d] : i <= j => Apart(net[d][j].op, Removes(net[d][i]))
    BY DEF Kept, InOrder
  <2>2. CASE d # c
    <3>1. msg'[d] = msg[d] /\ net'[d] = net[d]
      BY <1>1, <2>2
    <3> QED BY <2>1, <3>1 DEF Apart, Draws, Removes
  <2>3. CASE d = c
    <3>1. \A o \in {NoOp, msg[c].op} :
            /\ Apart(o, Removes(m)) /\ Apart(o, msg[c].evicted) /\ Apart(o, msg[c].clear)
            /\ \A i \in DOMAIN net[c] : Apart(o, Removes(net[c][i]))
      BY <1>1, <2>1, <2>3 DEF Apart, Draws
    <3>2. Apart(msg[d].op, msg[d].evicted)' /\ Apart(msg[d].op, msg[d].clear)'
      <4>1. Apart(msg'[c].op, msg[c].evicted) /\ Apart(msg'[c].op, msg[c].clear)
        BY <3>1
      <4> QED BY <2>3, <4>1 DEF Apart, Draws
    <3>3. ASSUME NEW i \in DOMAIN net'[c]
          PROVE  Apart(msg[c].op, Removes(net[c][i]))'
      <4>1. Apart(msg'[c].op, Removes(net'[c][i]))
        <5>1. CASE i \in 1..Len(net[c])
          BY <1>1, <3>1, <5>1
        <5>2. CASE i = Len(net[c]) + 1
          BY <1>1, <3>1, <5>2
        <5> QED BY <1>1, <5>1, <5>2, SentWhere
      <4> QED BY <4>1 DEF Apart, Draws, Removes
    <3>4. ASSUME NEW i \in DOMAIN net'[c], NEW j \in DOMAIN net'[c], i <= j
          PROVE  Apart(net[c][j].op, Removes(net[c][i]))'
      <4>1. Apart(net'[c][j].op, Removes(net'[c][i]))
        <5>1. CASE i \in 1..Len(net[c]) /\ j \in 1..Len(net[c])
          BY <1>1, <2>1, <2>3, <3>4, <5>1
        <5>2. CASE i \in 1..Len(net[c]) /\ j = Len(net[c]) + 1
          BY <1>1, <3>1, <5>2
        <5>3. CASE i = Len(net[c]) + 1 /\ j = Len(net[c]) + 1
          BY <1>1, <3>1, <5>3
        <5>4. ~(i = Len(net[c]) + 1 /\ j \in 1..Len(net[c]))
          BY <1>1, <3>4
        <5> QED BY <1>1, <5>1, <5>2, <5>3, <5>4, SentWhere
      <4> QED BY <4>1 DEF Apart, Draws, Removes
    <3> QED BY <2>3, <3>2, <3>3, <3>4
  <2> QED BY <2>2, <2>3
<1>7. ASSUME mini = {}
      PROVE  Noted'
  <2>1. msg'[c] = Idle /\ Serial(c) = last[c] + 1
    BY <1>7
  <2>2. \A d \in Channels \ {c} : Serial(d)' = Serial(d)
    BY DEF Send, Serial, Inv, Typed, SendTypes
  <2> SUFFICES ASSUME NEW d \in Channels, NEW x \in Images, NEW e \in Nat, NEW s \in Nat,
                      Uses(d, x, e, s)'
               PROVE  /\ NotedInItem(d, x, e, s)' /\ NotedInRemovals(d, x, e, s)'
                      /\ NotedForReset(d, s)'
    BY DEF Noted
  <2>3. Uses(d, x, e, s)
    <3>1. CASE d # c
      BY <1>1, <2>2, <3>1 DEF Uses
    <3>2. CASE d = c
      <4>1. ~Draws(msg'[c].op, x, e)
        BY <2>1 DEF Idle, Draws
      <4>2. PICK i \in DOMAIN net'[c] : Draws(net'[c][i].op, x, e) /\ s = net'[c][i].serial
        BY <3>2, <4>1 DEF Uses
      <4>3. CASE i \in 1..Len(net[c])
        BY <1>1, <3>2, <4>2, <4>3 DEF Uses
      <4>4. CASE i = Len(net[c]) + 1
        <5>1. Draws(op, x, e) /\ s = Serial(c)
          BY <1>1, <2>1, <4>2, <4>4
        <5> QED BY <3>2, <5>1 DEF Uses, Draws
      <4> QED BY <1>1, <4>3, <4>4, SentWhere
    <3> QED BY <3>1, <3>2
  <2>4. NotedInItem(d, x, e, s) /\ NotedInRemovals(d, x, e, s) /\ NotedForReset(d, s)
    BY <1>7, <2>3 DEF Kept, Noted
  <2>5. NotedInItem(d, x, e, s)' /\ NotedForReset(d, s)'
    BY <2>4 DEF cacheVars, pipeVars, NotedInItem, NotedForReset, InCache
  <2>6. NotedInRemovals(d, x, e, s)'
    <3> SUFFICES ASSUME NEW b \in Channels \ {d}
                 PROVE  /\ <<x, e>> \in msg'[b].evicted => s <= msg'[b].sync[d]
                        /\ <<x, e>> \in msg'[b].clear => WaitsFor(msg'[b].waits, d, s)
                        /\ \A i \in DOMAIN net'[b] : <<x, e>> \in Removes(net'[b][i]) =>
                             WaitsFor(net'[b][i].waits, d, s)
      BY DEF NotedInRemovals, WaitsFor, Removes
    <3>1. /\ <<x, e>> \in msg[b].evicted => s <= msg[b].sync[d]
          /\ <<x, e>> \in msg[b].clear => WaitsFor(msg[b].waits, d, s)
          /\ \A i \in DOMAIN net[b] : <<x, e>> \in Removes(net[b][i]) =>
               WaitsFor(net[b][i].waits, d, s)
      BY <2>4 DEF NotedInRemovals
    <3>2. CASE b # c
      BY <1>1, <3>1, <3>2
    <3>3. CASE b = c
      <4>1. <<x, e>> \notin msg'[b].evicted /\ <<x, e>> \notin msg'[b].clear
        BY <2>1, <3>3 DEF Idle
      <4>2. <<x, e>> \in Removes(m) => WaitsFor(m.waits, d, s)
        <5>1. CASE <<x, e>> \in msg[c].evicted
          <6>1. s >= 1 /\ s <= msg[c].sync[d]
            BY <2>3, <3>1, <3>3, <5>1, UseNumber
          <6>2. <<d, msg[c].sync[d]>> \in WaitsOf(c, msg[c].sync)
            BY <3>3, <6>1 DEF WaitsOf
          <6> QED BY <1>1, <5>1, <6>1, <6>2 DEF WaitsFor
        <5>2. CASE <<x, e>> \in msg[c].clear
          BY <1>1, <3>1, <3>3, <5>2 DEF WaitsFor
        <5> QED BY <1>1, <5>1, <5>2
      <4>3. ASSUME NEW i \in DOMAIN net'[c], <<x, e>> \in Removes(net'[c][i])
            PROVE  WaitsFor(net'[c][i].waits, d, s)
        <5>1. CASE i \in 1..Len(net[c])
          BY <1>1, <3>1, <3>3, <4>3, <5>1
        <5>2. CASE i = Len(net[c]) + 1
          BY <1>1, <4>2, <4>3, <5>2
        <5> QED BY <1>1, <5>1, <5>2, SentWhere
      <4> QED BY <3>3, <4>1, <4>3
    <3> QED BY <3>2, <3>3
  <2> QED BY <2>5, <2>6
<1>8. mini' = mini
  BY DEF pipeVars
<1> QED BY <1>2, <1>3, <1>4, <1>5, <1>6, <1>7, <1>8 DEF Kept

LEMMA SendingKept ==
  ASSUME Inv, Inv', Kept, NEW c \in Channels, BeginSend(c) \/ SendUrgent(c) \/ SendMain(c)
  PROVE  Kept'
<1>1. /\ msg \in [Channels -> Marshalling] /\ host[c] # "closed"
      /\ msg[c].phase = "idle" => msg[c] = Idle
      /\ mini = {} => msg[c].phase \in {"idle", "build"}
  <2>1. msg \in [Channels -> Marshalling]
    BY DEF Inv, Typed, SendTypes
  <2>2. host[c] # "closed"
    BY DEF BeginSend, Ready, Hosts, SendUrgent, SendMain, Kept, Resting, Idle
  <2> QED BY <2>1, <2>2 DEF Kept, Resting
<1>2. mini = {} => Serial(c) = last[c] + 1
  BY <1>1 DEF Serial
<1>3. CASE BeginSend(c) \/ SendMain(c)
  <2>1. /\ Send(c, msg[c].op) /\ msg' = [msg EXCEPT ![c] = Idle]
        /\ UNCHANGED <<cacheVars, pipeVars>>
    BY <1>3 DEF BeginSend, SendMain
  <2>2. msg'[c] = Idle /\ \A d \in Channels \ {c} : msg'[d] = msg[d]
    BY <1>1, <2>1
  <2>3. Idle.op = NoOp /\ Idle.evicted = {} /\ Idle.clear = {}
    BY DEF Idle
  <2> QED BY <1>1, <1>2, <2>1, <2>2, <2>3, SendKept
<1>4. CASE SendUrgent(c)
  <2>1. /\ msg[c].phase = "urgent" /\ Send(c, NoOp)
        /\ msg' = [msg EXCEPT ![c].phase = "main", ![c].evicted = {}]
        /\ UNCHANGED <<cacheVars, pipeVars>>
    BY <1>4 DEF SendUrgent
  <2>2. /\ msg'[c].phase = "main" /\ msg'[c].evicted = {} /\ msg'[c].op = msg[c].op
        /\ msg'[c].clear = msg[c].clear
        /\ \A d \in Channels \ {c} : msg'[d] = msg[d]
    BY <1>1, <2>1 DEF Marshalling
  <2> QED BY <1>1, <2>1, <2>2, SendKept
<1> QED BY <1>3, <1>4

-----------------------------------------------------------------------------
(* A channel marshals a message.                                           *)

LEMMA Marshalled ==
  ASSUME Inv, Kept, NEW c \in Channels, host[c] # "closed",
         UNCHANGED <<net, last, done, host, mini>>,
         \A d \in Channels \ {c} : msg'[d] = msg[d],
         msg'[c].phase # "idle", mini = {} => msg'[c].phase = "build",
         \A x \in Images : era[x] \in Nat /\ era'[x] \in Nat /\ era[x] <= era'[x],
         Past(msg[c].evicted)', Past(msg[c].clear)',
         Apart(msg[c].op, msg[c].evicted)', Apart(msg[c].op, msg[c].clear)',
         \A x \in Images, e \in Nat :
           Draws(msg'[c].op, x, e) => Draws(msg[c].op, x, e) \/ e = era[x]
  PROVE  Numbered' /\ Resting' /\ Dated' /\ InOrder'
<1>1. Numbered'
  BY DEF Kept, Numbered
<1>2. Resting'
  <2> SUFFICES ASSUME NEW d \in Channels
               PROVE  /\ msg'[d].phase = "idle" => msg'[d] = Idle
                      /\ host'[d] = "closed" => msg'[d] = Idle /\ net'[d] = <<>>
                      /\ mini' = {} => msg'[d].phase \in {"idle", "build"}
    BY DEF Resting
  <2>1. CASE d # c
    BY <2>1 DEF Kept, Resting
  <2>2. CASE d = c
    BY <2>2
  <2> QED BY <2>1, <2>2
<1>3. \A b \in Channels :
        /\ \A i \in DOMAIN net[b] : Past(Removes(net[b][i]))
        /\ Past(msg[b].evicted) /\ Past(msg[b].clear)
  BY DEF Kept, Dated
<1>4. Dated'
  <2> SUFFICES ASSUME NEW d \in Channels
               PROVE  /\ Past(msg[d].evicted)' /\ Past(msg[d].clear)'
                      /\ \A i \in DOMAIN net'[d] : Past(Removes(net[d][i]))'
    BY DEF Dated
  <2>1. Past(msg[d].evicted)' /\ Past(msg[d].clear)'
    <3>1. CASE d = c
      BY <3>1
    <3>2. CASE d # c
      <4>1. msg'[d] = msg[d] /\ Past(msg[d].evicted) /\ Past(msg[d].clear)
        BY <1>3, <3>2
      <4> QED BY <4>1 DEF Past
    <3> QED BY <3>1, <3>2
  <2>2. ASSUME NEW i \in DOMAIN net'[d]
        PROVE  Past(Removes(net[d][i]))'
    <3>1. Past(Removes(net[d][i])) /\ net'[d][i] = net[d][i]
      BY <1>3
    <3> QED BY <3>1 DEF Past, Removes
  <2> QED BY <2>1, <2>2
<1>5. InOrder'
  <2> SUFFICES ASSUME NEW d \in Channels
               PROVE  /\ Apart(msg[d].op, msg[d].evicted)' /\ Apart(msg[d].op, msg[d].clear)'
                      /\ \A i \in DOMAIN net'[d] :
                           /\ Apart(msg[d].op, Removes(net[d][i]))'
                           /\ \A j \in DOMAIN net'[d] : i <= j =>
                                Apart(net[d][j].op, Removes(net[d][i]))'
    BY DEF InOrder
  <2>1. /\ Apart(msg[d].op, msg[d].evicted) /\ Apart(msg[d].op, msg[d].clear)
        /\ \A i \in DOMAIN net[d] :
             /\ Apart(msg[d].op, Removes(net[d][i]))
             /\ \A j \in DOMAIN net[d] : i <= j => Apart(net[d][j].op, Removes(net[d][i]))
    BY DEF Kept, InOrder
  <2>2. CASE d # c
    <3>1. msg'[d] = msg[d] /\ net'[d] = net[d]
      BY <2>2
    <3> QED BY <2>1, <3>1 DEF Apart, Draws, Removes
  <2>3. CASE d = c
    <3>1. ASSUME NEW i \in DOMAIN net[c]
          PROVE  Apart(msg'[c].op, Removes(net[c][i]))
      <4> SUFFICES ASSUME NEW x \in Images, NEW e \in Nat, Draws(msg'[c].op, x, e)
                   PROVE  <<x, e>> \notin Removes(net[c][i])
        BY DEF Apart
      <4>1. CASE Draws(msg[c].op, x, e)
        BY <2>1, <2>3, <4>1 DEF Apart
      <4>2. CASE e = era[x]
        <5>1. ~(e < era[x])
          BY <4>2
        <5>2. Past(Removes(net[c][i]))
          BY <1>3
        <5> QED BY <5>1, <5>2 DEF Past
      <4> QED BY <4>1, <4>2
    <3> QED BY <2>1, <2>3, <3>1 DEF Apart, Draws, Removes
  <2> QED BY <2>2, <2>3
<1> QED BY <1>1, <1>2, <1>4, <1>5

\* The uses are the old ones and, maybe, the one of the new message.
LEMMA MarshalledNoted ==
  ASSUME Inv, Kept, Dated', mini = {}, NEW c \in Channels, msg[c] = Idle,
         UNCHANGED <<net, last>>,
         \A d \in Channels \ {c} : msg'[d] = msg[d], msg'[c].phase = "build",
         NEW n \in Nat, n = last[c] + 1,
         \A d \in Channels, x \in Images, e, s \in Nat : Uses(d, x, e, s) =>
           /\ NotedInItem(d, x, e, s)' /\ NotedForReset(d, s)'
           /\ d # c => /\ <<x, e>> \in msg'[c].evicted => s <= msg'[c].sync[d]
                       /\ <<x, e>> \in msg'[c].clear => WaitsFor(msg'[c].waits, d, s),
         \A x \in Images, e \in Nat : Draws(msg'[c].op, x, e) =>
           ~(e < era'[x]) /\ NotedInItem(c, x, e, n)' /\ NotedForReset(c, n)'
  PROVE  Noted'
<1> SUFFICES ASSUME NEW d \in Channels, NEW x \in Images, NEW e \in Nat, NEW s \in Nat,
                    Uses(d, x, e, s)'
             PROVE  /\ NotedInItem(d, x, e, s)' /\ NotedInRemovals(d, x, e, s)'
                    /\ NotedForReset(d, s)'
  BY DEF Noted
<1>1. Serial(c)' = n /\ \A b \in Channels \ {c} : Serial(b)' = Serial(b)
  BY DEF Serial
<1>2. CASE Uses(d, x, e, s)
  <2>1. NotedInItem(d, x, e, s)' /\ NotedForReset(d, s)'
    BY <1>2
  <2>2. NotedInRemovals(d, x, e, s)
    BY <1>2 DEF Kept, Noted
  <2>3. NotedInRemovals(d, x, e, s)'
    <3> SUFFICES ASSUME NEW b \in Channels \ {d}
                 PROVE  /\ <<x, e>> \in msg'[b].evicted => s <= msg'[b].sync[d]
                        /\ <<x, e>> \in msg'[b].clear => WaitsFor(msg'[b].waits, d, s)
                        /\ \A i \in DOMAIN net'[b] : <<x, e>> \in Removes(net'[b][i]) =>
                             WaitsFor(net'[b][i].waits, d, s)
      BY DEF NotedInRemovals, WaitsFor, Removes
    <3>1. \A i \in DOMAIN net'[b] : <<x, e>> \in Removes(net'[b][i]) =>
                             WaitsFor(net'[b][i].waits, d, s)
      BY <2>2 DEF NotedInRemovals
    <3>2. CASE b = c
      BY <1>2, <3>1, <3>2
    <3>3. CASE b # c
      BY <2>2, <3>1, <3>3 DEF NotedInRemovals
    <3> QED BY <3>2, <3>3
  <2> QED BY <2>1, <2>3
<1>3. CASE ~Uses(d, x, e, s)
  <2>1. d = c /\ Draws(msg'[c].op, x, e) /\ s = n
    BY <1>1, <1>3 DEF Uses
  <2>2. ~(e < era'[x]) /\ NotedInItem(d, x, e, s)' /\ NotedForReset(d, s)'
    BY <2>1
  <2>3. NotedInRemovals(d, x, e, s)'
    <3> SUFFICES ASSUME NEW b \in Channels \ {d}
                 PROVE  /\ <<x, e>> \notin msg'[b].evicted
                        /\ <<x, e>> \notin msg'[b].clear
                        /\ \A i \in DOMAIN net'[b] : <<x, e>> \notin Removes(net'[b][i])
      BY DEF NotedInRemovals, Removes
    <3>1. /\ Past(msg[b].evicted)' /\ Past(msg[b].clear)'
          /\ \A i \in DOMAIN net'[b] : Past(Removes(net[b][i]))'
      BY DEF Dated
    <3> QED BY <2>2, <3>1 DEF Past, Removes
  <2> QED BY <2>2, <2>3
<1> QED BY <1>2, <1>3

\* A message that draws nothing and removes nothing.
LEMMA PixmapSyncKept ==
  ASSUME Inv, Inv', Kept, NEW c \in Channels, MarshallPixmapSync(c)
  PROVE  Kept'
<1> DEFINE waits == {<<initiator[host[c]].client, initiator[host[c]].message>>}
<1>1. /\ Ready(c) /\ UNCHANGED <<cacheVars, mini, resetDue, host, moved, last, clientVars>>
      /\ msg' = [msg EXCEPT ![c] = Control(waits, {})]
  BY DEF MarshallPixmapSync
<1>2. /\ UNCHANGED <<net, last, done, host, mini, era>> /\ host[c] # "closed"
      /\ msg[c].phase = "idle" /\ msg[c] = Idle
  BY <1>1 DEF clientVars, cacheVars, Ready, Hosts, Kept, Resting
<1>3. /\ msg'[c] = Control(waits, {}) /\ \A d \in Channels \ {c} : msg'[d] = msg[d]
  BY <1>1 DEF Inv, Typed, SendTypes
<1>4. /\ msg'[c].phase = "build" /\ msg'[c].evicted = {} /\ msg'[c].clear = {}
      /\ msg'[c].op = NoOp
  BY <1>3 DEF Control, Idle
<1>5. \A x \in Images : era[x] \in Nat /\ era'[x] \in Nat /\ era[x] <= era'[x]
  BY <1>2 DEF Inv, Typed, CacheTypes
<1>6. Numbered' /\ Resting' /\ Dated' /\ InOrder'
  <2>1. Past(msg[c].evicted)' /\ Past(msg[c].clear)'
    BY <1>4 DEF Past
  <2>2. /\ Apart(msg[c].op, msg[c].evicted)' /\ Apart(msg[c].op, msg[c].clear)'
        /\ \A x \in Images, e \in Nat : ~Draws(msg'[c].op, x, e)
    BY <1>4 DEF Apart, Draws
  <2> QED BY <1>2, <1>3, <1>4, <1>5, <2>1, <2>2, Marshalled
<1>7. Filled'
  BY <1>1 DEF cacheVars, Kept, Filled
<1>8. ASSUME mini = {}
      PROVE  Noted'
  <2>1. last[c] + 1 \in Nat
    BY DEF Inv, Typed, SendTypes
  <2>2. ASSUME NEW d \in Channels, NEW x \in Images, NEW e \in Nat, NEW s \in Nat,
               Uses(d, x, e, s)
        PROVE  NotedInItem(d, x, e, s)' /\ NotedForReset(d, s)'
    <3>1. NotedInItem(d, x, e, s) /\ NotedForReset(d, s)
      BY <1>8, <2>2 DEF Kept, Noted
    <3> QED BY <1>1, <3>1 DEF cacheVars, NotedInItem, NotedForReset, InCache
  <2>3. \A x \in Images, e \in Nat : ~Draws(msg'[c].op, x, e)
    BY <1>4 DEF Draws
  <2> QED BY <1>2, <1>3, <1>4, <1>6, <1>8, <2>1, <2>2, <2>3, MarshalledNoted
<1> QED BY <1>2, <1>6, <1>7, <1>8 DEF Kept

\* Of two caches, one is empty.
LEMMA OneCache ==
  ASSUME Inv, Kept, NEW h \in Hosts, NEW x, InCache(h, x)
  PROVE  /\ \A g \in Hosts : \A y : InCache(g, y) => g = h
         /\ h = "source" => ~frozen["source"]
         /\ h = "target" => frozen["source"] /\ generation["target"] # 0
         /\ \A b \in Channels : WillReset(b) => FALSE
<1>1. \A g \in Hosts : \A y : lru[g] = <<>> => ~InCache(g, y)
  BY DEF InCache
<1>2. generation["target"] = 0 \/ frozen["source"]
  BY DEF Inv, ResetsFollowed
<1>3. \A b \in Channels : WillReset(b) => frozen["source"] /\ generation["target"] = 0
  BY DEF Inv, ResetsFollowed
<1>4. /\ frozen["source"] => lru["source"] = <<>>
      /\ generation["target"] = 0 => lru["target"] = <<>>
  BY DEF Kept, Filled
<1> QED BY <1>1, <1>2, <1>3, <1>4 DEF Hosts

\* The reset of the target: all entries there have been are removed.
LEMMA ResetKept ==
  ASSUME Inv, Inv', Kept, NEW c \in Channels, MarshallReset(c)
  PROVE  Kept'
<1> DEFINE clear == UNION {{x} \X (0..(era[x] - 1)) : x \in Images}
           waits == WaitsOf(c, sync'[host[c]])
<1>1. /\ Ready(c) /\ resetDue[c] /\ host[c] = "target"
      /\ WillReset(c)
  BY DEF MarshallReset, Inv, ResetsFollowed, WillReset
<1>2. /\ UNCHANGED <<net, last, done, host, mini, era, moved, used>> /\ host[c] # "closed"
      /\ msg[c].phase = "idle" /\ msg[c] = Idle
  BY <1>1 DEF MarshallReset, clientVars, Ready, Kept, Resting
<1>3. /\ msg'[c] = Control(waits, clear) /\ \A d \in Channels \ {c} : msg'[d] = msg[d]
  BY DEF MarshallReset, Inv, Typed, SendTypes
<1>4. /\ msg'[c].phase = "build" /\ msg'[c].evicted = {} /\ msg'[c].clear = clear
      /\ msg'[c].op = NoOp /\ msg'[c].waits = waits
  BY <1>3 DEF Control, Idle
<1>5. \A x \in Images : era[x] \in Nat /\ era'[x] \in Nat /\ era[x] <= era'[x]
  BY <1>2 DEF Inv, Typed, CacheTypes
<1>6. frozen["source"] /\ generation["target"] = 0
      /\ \A d \in Channels : WillReset(d) => d = c
  BY <1>1 DEF Inv, ResetsFollowed
<1>7. /\ frozen'["source"] /\ generation'["target"] # 0
      /\ lru' = [lru EXCEPT !["target"] = <<>>]
      /\ available' = [available EXCEPT !["target"] = size["target"]]
      /\ resetDue' = [resetDue EXCEPT ![c] = FALSE]
      /\ \A d \in Channels \ {c} : sync'["target"][d] = sync["target"][d]
  BY <1>1, <1>6 DEF MarshallReset, Inv, Typed, CacheTypes, Hosts
<1>8. \A g \in Hosts : \A y : ~InCache(g, y) /\ ~InCache(g, y)'
  <2>1. lru["source"] = <<>> /\ lru["target"] = <<>>
    BY <1>6 DEF Kept, Filled
  <2>2. lru'["source"] = <<>> /\ lru'["target"] = <<>>
    BY <1>7, <2>1 DEF Inv, Typed, CacheTypes, Hosts
  <2> QED BY <2>1, <2>2 DEF InCache, Hosts
<1>9. Numbered' /\ Resting' /\ Dated' /\ InOrder'
  <2>1. Past(msg[c].evicted)'
    BY <1>4 DEF Past
  <2>2. Past(msg[c].clear)'
    <3> SUFFICES ASSUME NEW x \in Images, NEW e \in Nat, <<x, e>> \in clear
                 PROVE  e < era[x]
      BY <1>2, <1>4 DEF Past
    <3>1. e \in 0..(era[x] - 1)
      OBVIOUS
    <3> QED BY <1>5, <3>1
  <2>3. /\ Apart(msg[c].op, msg[c].evicted)' /\ Apart(msg[c].op, msg[c].clear)'
        /\ \A x \in Images, e \in Nat : ~Draws(msg'[c].op, x, e)
    BY <1>4 DEF Apart, Draws
  <2> QED BY <1>2, <1>3, <1>4, <1>5, <2>1, <2>2, <2>3, Marshalled
<1>10. Filled'
  <2>1. \A h \in Hosts : OnceIn(lru[h])'
    BY <1>8 DEF InCache, OnceIn
  <2>2. DOMAIN available' = Hosts /\ available'["source"] = available["source"]
    BY <1>7 DEF Kept, Filled, Hosts
  <2>3. lru'["source"] = lru["source"]
    BY <1>7 DEF Inv, Typed, CacheTypes, Hosts
  <2> QED BY <1>6, <1>7, <2>1, <2>2, <2>3 DEF Kept, Filled
<1>11. ASSUME mini = {}
       PROVE  Noted'
  <2>1. last[c] + 1 \in Nat
    BY DEF Inv, Typed, SendTypes
  <2>2. ASSUME NEW d \in Channels, NEW x \in Images, NEW e \in Nat, NEW s \in Nat,
               Uses(d, x, e, s)
        PROVE  /\ NotedInItem(d, x, e, s)' /\ NotedForReset(d, s)'
               /\ d # c => /\ <<x, e>> \in msg'[c].evicted => s <= msg'[c].sync[d]
                           /\ <<x, e>> \in msg'[c].clear => WaitsFor(msg'[c].waits, d, s)
    <3>1. NotedInItem(d, x, e, s) /\ NotedForReset(d, s)
      BY <1>11, <2>2 DEF Kept, Noted
    <3>2. NotedInItem(d, x, e, s)'
      BY <1>2, <1>8, <3>1 DEF NotedInItem
    <3>3. NotedForReset(d, s)'
      <4>1. \A b \in Channels : ~resetDue'[b]
        BY <1>6, <1>7 DEF WillReset, Inv, Typed, PipeTypes
      <4>2. \A b \in Channels : ~(host[b] = "moving" /\ moved[b].freezer)
        BY <1>1, <1>6 DEF WillReset
      <4> QED BY <1>2, <1>7, <4>1, <4>2 DEF NotedForReset
    <3>4. ASSUME d # c
          PROVE  WaitsFor(msg'[c].waits, d, s)
      <4>1. s >= 1 /\ s <= sync'["target"][d]
        BY <1>1, <1>7, <2>2, <3>1, <3>4, UseNumber DEF NotedForReset
      <4>2. <<d, sync'["target"][d]>> \in WaitsOf(c, sync'["target"])
        BY <3>4, <4>1 DEF WaitsOf
      <4> QED BY <1>1, <1>4, <4>1, <4>2 DEF WaitsFor
    <3> QED BY <1>4, <3>2, <3>3, <3>4
  <2>3. \A x \in Images, e \in Nat : ~Draws(msg'[c].op, x, e)
    BY <1>4 DEF Draws
  <2> QED BY <1>2, <1>3, <1>4, <1>9, <1>11, <2>1, <2>2, <2>3, MarshalledNoted
<1> QED BY <1>2, <1>9, <1>10, <1>11 DEF Kept

-----------------------------------------------------------------------------
(* A hit.                                                                  *)

\* A hit changes the order of the items, and not which there are.
LEMMA Reordered ==
  ASSUME NEW q \in Seq(Images), NEW x \in Images, OnceIn(q), \E i \in DOMAIN q : q[i] = x
  PROVE  /\ OnceIn(<<x>> \o Without(q, x))
         /\ \A y : (\E i \in DOMAIN (<<x>> \o Without(q, x)) : (<<x>> \o Without(q, x))[i] = y)
                     <=> (\E i \in DOMAIN q : q[i] = y)
<1> DEFINE n == Len(q)
           r == <<x>> \o Without(q, x)
<1>1. PICK k \in DOMAIN q : k = (CHOOSE j \in DOMAIN q : q[j] = x) /\ q[k] = x
  OBVIOUS
<1>2. n \in Nat /\ DOMAIN q = 1..n /\ k \in 1..n
  BY LenProperties
<1>3. \A j \in 1..n : q[j] \in Images
  BY <1>2, ElementOfSeq
<1>4. /\ SubSeq(q, 1, k - 1) \in Seq(Images) /\ Len(SubSeq(q, 1, k - 1)) = k - 1
      /\ \A i \in 1..(k - 1) : SubSeq(q, 1, k - 1)[i] = q[i]
  <2>1. k - 1 \in Int /\ 1 \in Int /\ \A i \in 1..(k - 1) : q[i] \in Images
    BY <1>2, <1>3
  <2>2. /\ SubSeq(q, 1, k - 1) \in Seq(Images)
        /\ Len(SubSeq(q, 1, k - 1)) = IF 1 <= k - 1 THEN (k - 1) - 1 + 1 ELSE 0
        /\ \A i \in 1..((k - 1) - 1 + 1) : SubSeq(q, 1, k - 1)[i] = q[1 + i - 1]
    BY <2>1, SubSeqProperties
  <2> QED BY <1>2, <2>2
<1>5. /\ SubSeq(q, k + 1, n) \in Seq(Images) /\ Len(SubSeq(q, k + 1, n)) = n - k
      /\ \A i \in 1..(n - k) : SubSeq(q, k + 1, n)[i] = q[k + i]
  <2>1. k + 1 \in Int /\ n \in Int /\ \A i \in (k + 1)..n : q[i] \in Images
    BY <1>2, <1>3
  <2>2. /\ SubSeq(q, k + 1, n) \in Seq(Images)
        /\ Len(SubSeq(q, k + 1, n)) = IF k + 1 <= n THEN n - (k + 1) + 1 ELSE 0
        /\ \A i \in 1..(n - (k + 1) + 1) : SubSeq(q, k + 1, n)[i] = q[(k + 1) + i - 1]
    BY <2>1, SubSeqProperties
  <2> QED BY <1>2, <2>2, SMTT(20)
<1>6. /\ Without(q, x) \in Seq(Images) /\ Len(Without(q, x)) = n - 1
      /\ \A i \in 1..(n - 1) : Without(q, x)[i] = IF i < k THEN q[i] ELSE q[i + 1]
  <2>1. Without(q, x) = SubSeq(q, 1, k - 1) \o SubSeq(q, k + 1, n)
    BY <1>1 DEF Without
  <2>2. /\ Without(q, x) \in Seq(Images) /\ Len(Without(q, x)) = (k - 1) + (n - k)
        /\ \A i \in 1..((k - 1) + (n - k)) : Without(q, x)[i] =
             IF i <= k - 1 THEN SubSeq(q, 1, k - 1)[i] ELSE SubSeq(q, k + 1, n)[i - (k - 1)]
    <3> DEFINE front == SubSeq(q, 1, k - 1)
               rear == SubSeq(q, k + 1, n)
    <3>1. front \in Seq(Images) /\ rear \in Seq(Images)
      BY <1>4, <1>5
    <3>2. Len(front) = k - 1 /\ Len(rear) = n - k /\ Without(q, x) = front \o rear
      BY <1>4, <1>5, <2>1
    <3> HIDE DEF front, rear
    <3>3. /\ front \o rear \in Seq(Images) /\ Len(front \o rear) = Len(front) + Len(rear)
          /\ \A i \in 1..(Len(front) + Len(rear)) : (front \o rear)[i] =
               IF i <= Len(front) THEN front[i] ELSE rear[i - Len(front)]
      BY <3>1, ConcatProperties
    <3>4. /\ Without(q, x) \in Seq(Images) /\ Len(Without(q, x)) = (k - 1) + (n - k)
          /\ \A i \in 1..((k - 1) + (n - k)) : Without(q, x)[i] =
               IF i <= k - 1 THEN front[i] ELSE rear[i - (k - 1)]
      BY <3>2, <3>3
    <3> QED BY <3>4 DEF front, rear
  <2>3. ASSUME NEW i \in 1..(n - 1)
        PROVE  Without(q, x)[i] = IF i < k THEN q[i] ELSE q[i + 1]
    <3>1. i \in 1..((k - 1) + (n - k))
      BY <1>2
    <3>2. CASE i < k
      <4>1. i <= k - 1 /\ i \in 1..(k - 1)
        BY <1>2, <3>2
      <4> QED BY <1>4, <2>2, <3>1, <3>2, <4>1
    <3>3. CASE ~(i < k)
      <4>1. ~(i <= k - 1) /\ i - (k - 1) \in 1..(n - k) /\ k + (i - (k - 1)) = i + 1
        BY <1>2, <3>3
      <4> QED BY <1>5, <2>2, <3>1, <3>3, <4>1
    <3> QED BY <3>2, <3>3
  <2>4. (k - 1) + (n - k) = n - 1
    BY <1>2
  <2> QED BY <2>2, <2>3, <2>4
<1>7. /\ Len(r) = n /\ DOMAIN r = 1..n
      /\ \A i \in 1..n : r[i] = IF i = 1 THEN x ELSE IF i - 1 < k THEN q[i - 1] ELSE q[i]
  <2>1. <<x>> \in Seq(Images) /\ Len(<<x>>) = 1 /\ <<x>>[1] = x
    OBVIOUS
  <2>2. /\ r \in Seq(Images) /\ Len(r) = 1 + (n - 1)
        /\ \A i \in 1..(1 + (n - 1)) :
             r[i] = IF i <= 1 THEN <<x>>[i] ELSE Without(q, x)[i - 1]
    <3> HIDE DEF n
    <3> QED BY <1>6, <2>1, ConcatProperties
  <2>3. 1 + (n - 1) = n
    BY <1>2
  <2>4. DOMAIN r = 1..n /\ Len(r) = n
    BY <2>2, <2>3, LenProperties
  <2>5. ASSUME NEW i \in 1..n
        PROVE  r[i] = IF i = 1 THEN x ELSE IF i - 1 < k THEN q[i - 1] ELSE q[i]
    <3>1. CASE i = 1
      BY <1>2, <2>1, <2>2, <2>3, <3>1
    <3>2. CASE i # 1
      <4>1. ~(i <= 1) /\ i - 1 \in 1..(n - 1) /\ (i - 1) + 1 = i
        BY <1>2, <3>2
      <4> QED BY <1>6, <2>2, <2>3, <3>2, <4>1
    <3> QED BY <3>1, <3>2
  <2> QED BY <2>4, <2>5
<1> DEFINE at(i) == IF i = 1 THEN k ELSE IF i - 1 < k THEN i - 1 ELSE i
           back(i) == IF i = k THEN 1 ELSE IF i < k THEN i + 1 ELSE i
<1>8. ASSUME NEW i \in 1..n
      PROVE  at(i) \in 1..n /\ r[i] = q[at(i)]
  <2> HIDE DEF r, n
  <2>1. CASE i = 1
    BY <1>1, <1>2, <1>7, <2>1
  <2>2. CASE i # 1 /\ i - 1 < k
    <3>1. i - 1 \in 1..n
      BY <1>2, <2>2
    <3> QED BY <1>7, <2>2, <3>1
  <2>3. CASE i # 1 /\ ~(i - 1 < k)
    BY <1>7, <2>3
  <2> QED BY <2>1, <2>2, <2>3
<1>9. \A i, j \in 1..n : at(i) = at(j) => i = j
  BY <1>2
<1>10. \A i \in 1..n : back(i) \in 1..n /\ at(back(i)) = i
  BY <1>2
<1> HIDE DEF at, back, r, n
<1>11. OnceIn(r)
  BY <1>2, <1>7, <1>8, <1>9 DEF OnceIn
<1>12. \A y : (\E i \in DOMAIN r : r[i] = y) <=> (\E i \in DOMAIN q : q[i] = y)
  <2> SUFFICES ASSUME NEW y
               PROVE  (\E i \in DOMAIN r : r[i] = y) <=> (\E i \in DOMAIN q : q[i] = y)
    OBVIOUS
  <2>1. ASSUME NEW i \in DOMAIN r, r[i] = y
        PROVE  \E j \in DOMAIN q : q[j] = y
    BY <1>2, <1>7, <1>8, <2>1
  <2>2. ASSUME NEW i \in DOMAIN q, q[i] = y
        PROVE  \E j \in DOMAIN r : r[j] = y
    <3>1. back(i) \in 1..n /\ at(back(i)) = i
      BY <1>2, <1>10
    <3>2. r[back(i)] = q[at(back(i))]
      BY <1>8, <3>1
    <3> QED BY <1>7, <2>2, <3>1, <3>2
  <2> QED BY <2>1, <2>2
<1> QED BY <1>11, <1>12 DEF r

LEMMA TouchKept ==
  ASSUME Inv, Kept, NEW h \in Hosts, NEW c \in Channels, NEW x \in Images, NEW n \in Nat,
         InCache(h, x), Touch(h, c, x, n),
         UNCHANGED <<available, frozen, generation>>
  PROVE  /\ Filled'
         /\ \A g \in Hosts : \A y : InCache(g, y)' <=> InCache(g, y)
<1>1. lru[h] \in Seq(Images) /\ OnceIn(lru[h]) /\ \E i \in DOMAIN lru[h] : lru[h][i] = x
  BY DEF Inv, Typed, CacheTypes, Kept, Filled, InCache
<1>2. /\ lru'[h] = <<x>> \o Without(lru[h], x)
      /\ \A g \in Hosts \ {h} : lru'[g] = lru[g]
  BY DEF Touch, Inv, Typed, CacheTypes
<1>3. /\ OnceIn(lru'[h])
      /\ \A y : (\E i \in DOMAIN lru'[h] : lru'[h][i] = y) <=>
                  (\E i \in DOMAIN lru[h] : lru[h][i] = y)
  <2> DEFINE q == lru[h]
  <2>1. q \in Seq(Images) /\ OnceIn(q) /\ \E i \in DOMAIN q : q[i] = x
    BY <1>1
  <2> HIDE DEF q
  <2>2. /\ OnceIn(<<x>> \o Without(q, x))
        /\ \A y : (\E i \in DOMAIN (<<x>> \o Without(q, x)) : (<<x>> \o Without(q, x))[i] = y)
                    <=> (\E i \in DOMAIN q : q[i] = y)
    BY <2>1, Reordered
  <2>3. lru'[h] = <<x>> \o Without(q, x)
    BY <1>2 DEF q
  <2> QED BY <2>2, <2>3 DEF q
<1>4. \A g \in Hosts : \A y : InCache(g, y)' <=> InCache(g, y)
  <2> SUFFICES ASSUME NEW g \in Hosts, NEW y
               PROVE  InCache(g, y)' <=> InCache(g, y)
    OBVIOUS
  <2>1. CASE g = h
    BY <1>3, <2>1 DEF InCache
  <2>2. CASE g # h
    BY <1>2, <2>2 DEF InCache
  <2> QED BY <2>1, <2>2
<1>5. \A g \in Hosts : OnceIn(lru[g])'
  <2> SUFFICES ASSUME NEW g \in Hosts
               PROVE  OnceIn(lru'[g])
    BY DEF OnceIn
  <2>1. OnceIn(lru[g])
    BY DEF Kept, Filled
  <2> QED BY <1>2, <1>3, <2>1
<1>6. h = "source" => ~frozen["source"]
  BY OneCache
<1>7. h = "target" => generation["target"] # 0
  BY OneCache
<1> QED BY <1>2, <1>4, <1>5, <1>6, <1>7 DEF Kept, Filled, Hosts

\* An image that is there.
LEMMA HitKept ==
  ASSUME Inv, Inv', Kept, NEW c \in Channels, NEW x \in Images, MarshallUpgrade(c, x),
         InCache(host[c], x)
  PROVE  Kept'
<1> DEFINE h == host[c]
<1>0. PICK n \in Nat : n = last[c] + 1
  BY DEF Inv, Typed, SendTypes
<1>1. /\ h \in Hosts /\ msg[c].phase = "idle" /\ msg[c] = Idle
      /\ UNCHANGED <<net, last, done, host, mini, era, available, frozen, generation,
                     moved, resetDue>>
  BY DEF MarshallUpgrade, Ready, clientVars, Kept, Resting
<1>2. n \in Nat /\ Serial(c) = n
  BY <1>0, <1>1 DEF Serial
<1>3. Touch(h, c, x, n)
  BY <1>2 DEF MarshallUpgrade
<1>4. /\ msg'[c] = [Idle EXCEPT !.phase = "build", !.op = Op("get", x)]
      /\ \A d \in Channels \ {c} : msg'[d] = msg[d]
  BY <1>1 DEF MarshallUpgrade, Inv, Typed, SendTypes
<1>5. /\ msg'[c].phase = "build" /\ msg'[c].evicted = {} /\ msg'[c].clear = {}
      /\ \A y, e : Draws(msg'[c].op, y, e) => y = x /\ e = era[x]
  BY <1>4 DEF Idle, Op, Draws
<1>6. \A y \in Images : era[y] \in Nat /\ era'[y] \in Nat /\ era[y] <= era'[y]
  BY <1>1 DEF Inv, Typed, CacheTypes
<1>7. Numbered' /\ Resting' /\ Dated' /\ InOrder'
  <2>1. Past(msg[c].evicted)' /\ Past(msg[c].clear)'
        /\ Apart(msg[c].op, msg[c].evicted)' /\ Apart(msg[c].op, msg[c].clear)'
    BY <1>5 DEF Past, Apart
  <2>2. host[c] # "closed"
    BY <1>1 DEF Hosts
  <2>3. \A y \in Images, e \in Nat : Draws(msg'[c].op, y, e) => e = era[y]
    BY <1>5
  <2>4. msg'[c].phase # "idle" /\ msg'[c].phase = "build"
    BY <1>5
  <2> QED BY <1>1, <1>4, <1>6, <2>1, <2>2, <2>3, <2>4, Marshalled
<1>8. Filled' /\ \A g \in Hosts : \A y : InCache(g, y)' <=> InCache(g, y)
  BY <1>1, <1>2, <1>3, TouchKept
<1>9. /\ sync'[h][c] = n /\ used'[h][x][c] = n
      /\ \A g \in Hosts, d \in Channels :
           sync'[g][d] = sync[g][d] \/ (g = h /\ d = c /\ sync'[g][d] = n)
      /\ \A g \in Hosts, y \in Images, d \in Channels :
           used'[g][y][d] = used[g][y][d] \/ (d = c /\ used'[g][y][d] = n)
  <2>1. /\ sync \in [Hosts -> [Channels -> Nat]] /\ sync' = [sync EXCEPT ![h][c] = n]
        /\ used \in [Hosts -> [Images -> [Channels -> Nat]]]
        /\ used' = [used EXCEPT ![h][x] = [used[h][x] EXCEPT ![c] = n]]
    BY <1>1, <1>3 DEF Touch, Inv, Typed, CacheTypes
  <2>2. /\ sync'[h][c] = n
        /\ \A g \in Hosts, d \in Channels :
             sync'[g][d] = sync[g][d] \/ (g = h /\ d = c /\ sync'[g][d] = n)
    BY <1>1, <2>1
  <2> DEFINE f == [used[h][x] EXCEPT ![c] = n]
  <2>3. f[c] = n /\ \A d \in Channels : f[d] = used[h][x][d] \/ (d = c /\ f[d] = n)
    BY <1>1, <2>1
  <2>4. used' = [used EXCEPT ![h][x] = f]
    BY <2>1
  <2>5. f \in [Channels -> Nat] /\ h \in Hosts
    BY <1>1, <2>1
  <2> HIDE DEF f, h
  <2>6. /\ used' \in [Hosts -> [Images -> [Channels -> Nat]]]
        /\ \A g \in Hosts, y \in Images :
             used'[g][y] = used[g][y] \/ (g = h /\ y = x /\ used'[g][y] = f)
    BY <2>1, <2>4, <2>5, NoteInUsed
  <2>7. used'[h] = [used[h] EXCEPT ![x] = f] /\ used[h] \in [Images -> [Channels -> Nat]]
    BY <2>1, <2>4, <2>5
  <2>8. used'[h][x][c] = n
    BY <2>3, <2>7
  <2>9. \A g \in Hosts, y \in Images, d \in Channels :
          used'[g][y][d] = used[g][y][d] \/ (d = c /\ used'[g][y][d] = n)
    BY <2>3, <2>6
  <2> QED BY <2>2, <2>8, <2>9
<1>10. ASSUME mini = {}
       PROVE  Noted'
  <2>1. ASSUME NEW d \in Channels, NEW y \in Images, NEW e \in Nat, NEW s \in Nat,
               Uses(d, y, e, s)
        PROVE  NotedInItem(d, y, e, s)' /\ NotedForReset(d, s)'
    <3>1. NotedInItem(d, y, e, s) /\ NotedForReset(d, s)
      BY <1>10, <2>1 DEF Kept, Noted
    <3>2. d = c => s <= n
      <4>1. mini = {} => s <= Top(d)
        BY <2>1, UseNumber
      <4>2. Top(c) = last[c]
        BY <1>1 DEF Top
      <4> QED BY <1>0, <1>10, <4>1, <4>2 DEF Inv, Typed, SendTypes
    <3>3. NotedInItem(d, y, e, s)'
      <4>1. ASSUME e = era[y]
            PROVE  \E g \in Hosts : InCache(g, y)' /\ s <= used'[g][y][d]
        <5>1. PICK g \in Hosts : InCache(g, y) /\ s <= used[g][y][d]
          BY <3>1, <4>1 DEF NotedInItem
        <5>2. s <= used'[g][y][d]
          BY <1>9, <3>2, <5>1
        <5> QED BY <1>8, <5>1, <5>2
      <4> QED BY <1>1, <3>1, <4>1 DEF NotedInItem
    <3>4. NotedForReset(d, s)'
      <4>1. \A g \in Hosts : s <= sync[g][d] => s <= sync'[g][d]
        BY <1>9, <3>2
      <4> QED BY <1>1, <3>1, <4>1 DEF NotedForReset, Hosts
    <3> QED BY <3>3, <3>4
  <2>2. NotedInItem(c, x, era[x], n)' /\ NotedForReset(c, n)'
    <3>1. n <= used'[h][x][c] /\ n <= sync'[h][c]
      BY <1>2, <1>9
    <3>2. NotedInItem(c, x, era[x], n)'
      BY <1>1, <1>6, <1>8, <3>1 DEF NotedInItem
    <3>3. NotedForReset(c, n)'
      <4>1. ~frozen["source"] => h = "source"
        BY <1>1, OneCache DEF Hosts
      <4>2. \A b \in Channels : ~WillReset(b)
        BY <1>1, OneCache
      <4> QED BY <1>1, <3>1, <4>1, <4>2 DEF NotedForReset, WillReset
    <3> QED BY <3>2, <3>3
  <2>3. ASSUME NEW y \in Images, NEW e \in Nat, Draws(msg'[c].op, y, e)
        PROVE  ~(e < era'[y]) /\ NotedInItem(c, y, e, n)' /\ NotedForReset(c, n)'
    <3>1. y = x /\ e = era[x]
      BY <1>5, <2>3
    <3>2. ~(e < era'[y])
      BY <1>1, <1>6, <3>1
    <3> QED BY <1>1, <2>2, <3>1, <3>2 DEF NotedInItem
  <2>5. msg'[c].phase = "build" /\ msg'[c].evicted = {} /\ msg'[c].clear = {}
    BY <1>5
  <2>6. Dated' /\ n \in Nat
    BY <1>2, <1>7
  <2>7. ASSUME NEW d \in Channels, NEW y \in Images, NEW e \in Nat, NEW s \in Nat,
               Uses(d, y, e, s)
        PROVE  /\ NotedInItem(d, y, e, s)' /\ NotedForReset(d, s)'
               /\ d # c => /\ <<y, e>> \in msg'[c].evicted => s <= msg'[c].sync[d]
                           /\ <<y, e>> \in msg'[c].clear => WaitsFor(msg'[c].waits, d, s)
    BY <2>1, <2>5, <2>7
  <2> QED BY <1>0, <1>1, <1>4, <1>10, <2>3, <2>5, <2>6, <2>7, MarshalledNoted
<1> QED BY <1>1, <1>7, <1>8, <1>10 DEF Kept

\* With the mini header, the second hit.
LEMMA SwitchToUrgentKept ==
  ASSUME Inv, Inv', Kept, NEW c \in Channels, SwitchToUrgent(c)
  PROVE  Kept'
<1>1. /\ msg[c].phase = "build" /\ mini # {} /\ host[c] \in Hosts
      /\ UNCHANGED <<net, last, done, host, mini, era, available, frozen, generation>>
      /\ msg' = [msg EXCEPT ![c].phase = "urgent"]
  BY DEF SwitchToUrgent, clientVars, pipeVars, Inv, Connected
<1>2. /\ msg'[c].phase = "urgent" /\ msg'[c].evicted = msg[c].evicted
      /\ msg'[c].clear = msg[c].clear /\ msg'[c].op = msg[c].op
      /\ \A d \in Channels \ {c} : msg'[d] = msg[d]
  BY <1>1 DEF Inv, Typed, SendTypes, Marshalling
<1>3. \A y \in Images : era[y] \in Nat /\ era'[y] \in Nat /\ era[y] <= era'[y]
  BY <1>1 DEF Inv, Typed, CacheTypes
<1>4. Numbered' /\ Resting' /\ Dated' /\ InOrder'
  <2>1. Past(msg[c].evicted)' /\ Past(msg[c].clear)'
    BY <1>1, <1>2 DEF Kept, Dated, Past
  <2>2. Apart(msg[c].op, msg[c].evicted)' /\ Apart(msg[c].op, msg[c].clear)'
    BY <1>2 DEF Kept, InOrder, Apart, Draws
  <2>3. \A x \in Images, e \in Nat : Draws(msg'[c].op, x, e) => Draws(msg[c].op, x, e)
    BY <1>2 DEF Draws
  <2>4. host[c] # "closed"
    BY <1>1 DEF Hosts
  <2> QED BY <1>1, <1>2, <1>3, <2>1, <2>2, <2>3, <2>4, Marshalled
<1>5. Filled'
  <2>1. CASE msg[c].op # NoOp /\ InCache(host[c], msg[c].op.id)
    <3>1. msg[c].op.id \in Images /\ last[c] + 2 \in Nat
      BY <2>1 DEF Inv, Typed, SendTypes, Marshalling, Ops
    <3>2. Touch(host[c], c, msg[c].op.id, last[c] + 2)
      BY <2>1 DEF SwitchToUrgent
    <3> QED BY <1>1, <2>1, <3>1, <3>2, TouchKept
  <2>2. CASE ~(msg[c].op # NoOp /\ InCache(host[c], msg[c].op.id))
    BY <1>1, <2>2 DEF SwitchToUrgent, Kept, Filled, OnceIn
  <2> QED BY <2>1, <2>2
<1> QED BY <1>1, <1>4, <1>5 DEF Kept

-----------------------------------------------------------------------------
(* An image that is added.                                                 *)

LEMMA EmptySum ==
  ASSUME NEW f
  PROVE  SumFunctionOnSet(f, {}) = 0
<1> DEFINE P(g) == g = [s \in SUBSET {} |->
                          IF s = {} THEN 0
                          ELSE LET i == CHOOSE i \in s : TRUE IN f[i] + g[s \ {i}]]
           zero == [s \in SUBSET {} |-> 0]
<1>1. SUBSET {} = {{}}
  OBVIOUS
<1>2. P(zero)
  BY <1>1
<1>3. P(CHOOSE g : P(g))
  <2> HIDE DEF P
  <2> QED BY <1>2
<1>4. (CHOOSE g : P(g))[{}] = 0
  BY <1>1, <1>3
<1>5. SumFunctionOnSet(f, {}) = (CHOOSE g : P(g))[{}]
  BY Zenon DEF SumFunctionOnSet, FoldFunctionOnSet, MapThenFoldSet
<1> QED BY <1>4, <1>5

\* There is no room in a cache that is not set up.
LEMMA NoRoom ==
  ASSUME Inv, NEW h \in Hosts, NEW c \in Channels, NEW x \in Images,
         lru[h] = <<>>, available[h] = -1
  PROVE  /\ Evictions(h, c, x) = 0 /\ ~(Room(h, x, 0) >= 0)
         /\ Room(h, x, 0) + SizeOf[x] = -1
<1>1. Evictions(h, c, x) = 0
  BY EvictionsBounded DEF Inv
<1>2. SizeOf[x] \in Nat \ {0}
  BY ImagesAssumption
<1>3. (Len(lru[h]) - 0 + 1)..Len(lru[h]) = {}
  OBVIOUS
<1>4. Room(h, x, 0) = -1 - SizeOf[x] + 0
  BY <1>3, EmptySum DEF Room
<1> QED BY <1>1, <1>2, <1>4

\* What an addition does to the cache and the message: items leave it, with
\* their serials, and the image is there afterwards if the message puts it.
LEMMA Added ==
  ASSUME Inv, Kept, NEW h \in Hosts, NEW c \in Channels, NEW x \in Images,
         msg[c] = Idle, ~InCache(h, x), generation[h] = gen[c], Add(h, c, x)
  PROVE  /\ OnceIn(lru'[h]) /\ \A g \in Hosts \ {h} : lru'[g] = lru[g]
         /\ DOMAIN available' = DOMAIN available
         /\ \A g \in Hosts \ {h} : available'[g] = available[g]
         /\ lru[h] = <<>> /\ available[h] = -1 =>
              lru'[h] = <<>> /\ available'[h] = -1
         /\ \A y \in Images : era'[y] = era[y] +
              (IF InCache(h, y) /\ ~InCache(h, y)' THEN 1 ELSE 0)
         /\ \A d \in Channels \ {c} : msg'[d] = msg[d]
         /\ msg'[c].phase = "build" /\ msg'[c].clear = {}
         /\ \A y, e : Draws(msg'[c].op, y, e) =>
              y = x /\ e = era[x] /\ InCache(h, x)' /\ used'[h][x][c] = Serial(c)
              /\ sync'[h][c] = Serial(c)
         /\ \A y, e : <<y, e>> \in msg'[c].evicted =>
              InCache(h, y) /\ ~InCache(h, y)' /\ e = era[y]
              /\ \A d \in Channels : used[h][y][d] <= msg'[c].sync[d]
         /\ \A g \in Hosts, y \in Images : g # h \/ y # x => used'[g][y] = used[g][y]
         /\ \A g \in Hosts, d \in Channels :
              sync'[g][d] = sync[g][d] \/ (d = c /\ sync'[g][d] = Serial(c))
         /\ \A y : InCache(h, y) /\ ~InCache(h, y)' => <<y, era[y]>> \in msg'[c].evicted
         /\ \A y : InCache(h, y)' =>
              InCache(h, y) \/ (y = x /\ Draws(msg'[c].op, x, era[x]))
         /\ LET k == Evictions(h, c, x)
            IN  \A y : InCache(h, y)' <=> (Room(h, x, k) >= 0 /\ y = x) \/
                          \E i \in 1..(Len(lru[h]) - k) : lru[h][i] = y
<1> DEFINE k == Evictions(h, c, x)
           n == Len(lru[h])
           fits == Room(h, x, k) >= 0
           kept == SubSeq(lru[h], 1, n - k)
           m == [msg[c] EXCEPT !.phase = "build", !.op = IF fits THEN Op("put", x) ELSE NoOp]
           new == Released(h, m, k)
<1>1. /\ k \in 0..n /\ n \in Nat /\ lru[h] \in Seq(Images) /\ DOMAIN lru[h] = 1..n
      /\ \A i \in 1..n : lru[h][i] \in Images
      /\ OnceIn(lru[h])
  <2>1. k \in 0..n /\ lru[h] \in Seq(Images)
    BY EvictionsBounded DEF Inv, Typed, CacheTypes
  <2> QED BY <2>1, ElementOfSeq, LenProperties DEF Kept, Filled
<1>2. /\ lru' = [lru EXCEPT ![h] = IF fits THEN <<x>> \o kept ELSE kept]
      /\ available' = [available EXCEPT ![h] = Room(h, x, k) + (IF fits THEN 0 ELSE SizeOf[x])]
      /\ used' = [used EXCEPT ![h][x] = IF fits THEN [NoSync EXCEPT ![c] = Serial(c)] ELSE @]
      /\ sync' = [sync EXCEPT ![h][c] = IF fits \/ k > 0 THEN Serial(c) ELSE @]
      /\ msg' = [msg EXCEPT ![c] = new]
      /\ era' = [y \in Images |->
                   era[y] + (IF InCache(h, y) /\ ~\E i \in DOMAIN kept : kept[i] = y
                             THEN 1 ELSE 0)]
  BY DEF Add
<1>3. /\ kept \in Seq(Images) /\ Len(kept) = n - k /\ DOMAIN kept = 1..(n - k)
      /\ \A i \in 1..(n - k) : kept[i] = lru[h][i]
  <2>1. kept \in Seq(Images)
    BY <1>1, ItemsKept
  <2>2. /\ Len(kept) = IF 1 <= n - k THEN (n - k) - 1 + 1 ELSE 0
        /\ \A i \in 1..((n - k) - 1 + 1) : kept[i] = lru[h][1 + i - 1]
    <3>1. 1 \in Int /\ n - k \in Int /\ \A i \in 1..(n - k) : lru[h][i] \in Images
      BY <1>1
    <3> HIDE DEF k, n
    <3> QED BY <3>1, SubSeqProperties
  <2>3. Len(kept) = n - k /\ \A i \in 1..(n - k) : kept[i] = lru[h][i]
    <3> HIDE DEF k, n, kept
    <3> QED BY <1>1, <2>2
  <2> QED BY <2>1, <2>3, LenProperties
<1>4. \A y : (\E i \in DOMAIN kept : kept[i] = y) <=> (\E i \in 1..(n - k) : lru[h][i] = y)
  <2> HIDE DEF k, n, kept
  <2> QED BY <1>3
<1>5. /\ \A i \in 1..(n - k) : i \in 1..n
      /\ \A i \in (n - k + 1)..n : i \in 1..n /\ i \notin 1..(n - k)
      /\ \A i \in 1..n : i \in 1..(n - k) \/ i \in (n - k + 1)..n
  <2> HIDE DEF k, n
  <2> QED BY <1>1
<1>6. /\ OnceIn(lru'[h]) /\ \A g \in Hosts \ {h} : lru'[g] = lru[g]
      /\ \A y : InCache(h, y)' <=> (fits /\ y = x) \/ \E i \in 1..(n - k) : lru[h][i] = y
  <2>1. /\ lru'[h] = (IF fits THEN <<x>> \o kept ELSE kept)
        /\ \A g \in Hosts \ {h} : lru'[g] = lru[g]
    BY <1>2 DEF Inv, Typed, CacheTypes
  <2> HIDE DEF fits, kept, n, k
  <2>2. OnceIn(kept)
    BY <1>1, <1>3, <1>5 DEF OnceIn
  <2>3. CASE ~fits
    BY <1>4, <2>1, <2>2, <2>3 DEF InCache
  <2>4. CASE fits
    <3> DEFINE r == <<x>> \o kept
    <3>1. /\ DOMAIN r = 1..(1 + (n - k))
          /\ \A i \in 1..(1 + (n - k)) : r[i] = IF i <= 1 THEN x ELSE kept[i - 1]
      <4>1. <<x>> \in Seq(Images) /\ Len(<<x>>) = 1 /\ <<x>>[1] = x
        OBVIOUS
      <4>2. /\ r \in Seq(Images) /\ Len(r) = Len(<<x>>) + Len(kept)
            /\ \A i \in 1..(Len(<<x>>) + Len(kept)) :
                 r[i] = IF i <= Len(<<x>>) THEN <<x>>[i] ELSE kept[i - Len(<<x>>)]
        BY <1>3, <4>1, ConcatProperties
      <4>3. ASSUME NEW i \in 1..(1 + (n - k))
            PROVE  r[i] = IF i <= 1 THEN x ELSE kept[i - 1]
        <5>1. CASE i = 1
          BY <1>3, <4>1, <4>2, <5>1
        <5>2. CASE i # 1
          <6>1. ~(i <= 1)
            BY <1>1, <5>2
          <6> QED BY <1>3, <4>1, <4>2, <6>1
        <5> QED BY <5>1, <5>2
      <4> QED BY <1>3, <4>1, <4>2, <4>3, LenProperties
    <3> HIDE DEF r
    <3>2. \A i \in 1..(1 + (n - k)) : i = 1 \/ (i - 1 \in 1..(n - k) /\ ~(i <= 1))
      BY <1>1
    <3>3. \A i \in 1..(n - k) : i + 1 \in 1..(1 + (n - k)) /\ r[i + 1] = kept[i]
      <4> SUFFICES ASSUME NEW i \in 1..(n - k)
                   PROVE  i + 1 \in 1..(1 + (n - k)) /\ r[i + 1] = kept[i]
        OBVIOUS
      <4>1. i + 1 \in 1..(1 + (n - k)) /\ ~(i + 1 <= 1) /\ (i + 1) - 1 = i
        BY <1>1
      <4> QED BY <3>1, <4>1
    <3>4. r[1] = x /\ 1 \in 1..(1 + (n - k))
      BY <1>1, <3>1
    <3>5. \A i \in 1..(n - k) : kept[i] # x
      BY <1>1, <1>3, <1>5 DEF InCache
    <3>6. OnceIn(r)
      <4> SUFFICES ASSUME NEW i \in 1..(1 + (n - k)), NEW j \in 1..(1 + (n - k)), r[i] = r[j]
                   PROVE  i = j
        BY <3>1 DEF OnceIn
      <4>1. CASE i = 1 \/ j = 1
        BY <3>1, <3>2, <3>4, <3>5, <4>1
      <4>2. CASE i # 1 /\ j # 1
        <5>1. kept[i - 1] = kept[j - 1] /\ i - 1 \in DOMAIN kept /\ j - 1 \in DOMAIN kept
          BY <1>3, <3>1, <3>2, <4>2
        <5>2. i - 1 = j - 1
          BY <2>2, <5>1 DEF OnceIn
        <5> QED BY <5>2
      <4> QED BY <4>1, <4>2
    <3>7. \A y : (\E i \in DOMAIN r : r[i] = y) <=> y = x \/ \E i \in 1..(n - k) : kept[i] = y
      <4> SUFFICES ASSUME NEW y
                   PROVE  (\E i \in 1..(1 + (n - k)) : r[i] = y) <=>
                            y = x \/ \E i \in 1..(n - k) : kept[i] = y
        BY <3>1
      <4>1. ASSUME NEW i \in 1..(1 + (n - k)), r[i] = y
            PROVE  y = x \/ \E j \in 1..(n - k) : kept[j] = y
        BY <3>1, <3>2, <4>1
      <4>2. ASSUME y = x \/ \E j \in 1..(n - k) : kept[j] = y
            PROVE  \E i \in 1..(1 + (n - k)) : r[i] = y
        BY <3>3, <3>4, <4>2
      <4> QED BY <4>1, <4>2
    <3>8. lru'[h] = r
      BY <2>1, <2>4 DEF r
    <3>9. OnceIn(lru'[h])
      BY <3>6, <3>8
    <3>10. ASSUME NEW y
           PROVE  InCache(h, y)' <=> (fits /\ y = x) \/ \E i \in 1..(n - k) : lru[h][i] = y
      <4>1. InCache(h, y)' <=> \E i \in DOMAIN r : r[i] = y
        BY <3>8 DEF InCache
      <4>2. (\E i \in 1..(n - k) : kept[i] = y) <=> \E i \in 1..(n - k) : lru[h][i] = y
        BY <1>3
      <4> QED BY <2>4, <3>7, <4>1, <4>2
    <3> QED BY <2>1, <3>9, <3>10
  <2> QED BY <2>3, <2>4
<1>7. /\ \A y \in Images : era'[y] = era[y] +
           (IF InCache(h, y) /\ ~InCache(h, y)' THEN 1 ELSE 0)
  <2> SUFFICES ASSUME NEW y \in Images
               PROVE  era'[y] = era[y] + (IF InCache(h, y) /\ ~InCache(h, y)' THEN 1 ELSE 0)
    OBVIOUS
  <2>1. era'[y] = era[y] + (IF InCache(h, y) /\ ~\E i \in DOMAIN kept : kept[i] = y
                            THEN 1 ELSE 0)
    BY <1>2
  <2>2. InCache(h, y) =>
          (InCache(h, y)' <=> \E i \in DOMAIN kept : kept[i] = y)
    BY <1>4, <1>6
  <2> QED BY <2>1, <2>2
<1>8. msg'[c] = new /\ \A d \in Channels \ {c} : msg'[d] = msg[d]
  BY <1>2 DEF Inv, Typed, SendTypes
<1>9. /\ new.phase = "build" /\ new.clear = {}
      /\ new.op = (IF fits THEN Op("put", x) ELSE NoOp)
      /\ new.evicted = {<<lru[h][i], era[lru[h][i]]>> : i \in (n - k + 1)..n}
      /\ new.sync = [d \in Channels |->
                       Max({0} \cup {used[h][lru[h][i]][d] : i \in (n - k + 1)..n})]
  <2> HIDE DEF k, n, fits
  <2>1. /\ m.evicted = {} /\ m.clear = {} /\ m.phase = "build"
        /\ m.op = (IF fits THEN Op("put", x) ELSE NoOp) /\ m.sync = NoSync
    BY DEF Idle
  <2>2. m \in Marshalling
    <3>1. msg[c] \in Marshalling /\ Op("put", x) \in Ops /\ NoOp \in Ops
      BY DEF Inv, Typed, SendTypes, CacheTypes, Op, Ops
    <3> QED BY <3>1 DEF Marshalling, Phases
  <2> HIDE DEF m
  <2>3. new = [m EXCEPT !.evicted = @ \cup {<<lru[h][i], era[lru[h][i]]>> : i \in (n - k + 1)..n},
                        !.sync = [d \in Channels |->
                          Max({@[d]} \cup {used[h][lru[h][i]][d] : i \in (n - k + 1)..n})]]
    BY DEF Released, n
  <2>4. /\ new.phase = m.phase /\ new.clear = m.clear /\ new.op = m.op
        /\ new.evicted = m.evicted \cup {<<lru[h][i], era[lru[h][i]]>> : i \in (n - k + 1)..n}
    BY <2>2, <2>3 DEF Marshalling
  <2>5. new.sync = [d \in Channels |->
                     Max({m.sync[d]} \cup {used[h][lru[h][i]][d] : i \in (n - k + 1)..n})]
    BY <2>2, <2>3 DEF Marshalling
  <2>6. \A d \in Channels : m.sync[d] = 0
    BY <2>1 DEF NoSync
  <2> QED BY <2>1, <2>4, <2>5, <2>6
<1>10. ASSUME NEW y, NEW e, <<y, e>> \in msg'[c].evicted
       PROVE  /\ InCache(h, y) /\ ~InCache(h, y)' /\ e = era[y]
              /\ \A d \in Channels : used[h][y][d] <= msg'[c].sync[d]
  <2>1. PICK i \in (n - k + 1)..n : y = lru[h][i] /\ e = era[lru[h][i]]
    <3> HIDE DEF n, k, new
    <3> QED BY <1>8, <1>9, <1>10
  <2>2. i \in 1..n /\ i \notin 1..(n - k)
    BY <1>5
  <2> HIDE DEF n, k, new, fits, kept
  <2>3. InCache(h, y) /\ y # x
    BY <1>1, <2>1, <2>2 DEF InCache
  <2>4. ~InCache(h, y)'
    <3>1. \A j \in 1..(n - k) : lru[h][j] # y
      BY <1>1, <1>5, <2>1, <2>2 DEF OnceIn
    <3> QED BY <1>6, <2>3, <3>1
  <2>5. ASSUME NEW d \in Channels
        PROVE  used[h][y][d] <= msg'[c].sync[d]
    <3> DEFINE S == {0} \cup {used[h][lru[h][j]][d] : j \in (n - k + 1)..n}
    <3>1. \A j \in (n - k + 1)..n : lru[h][j] \in Images
      BY <1>1, <1>5
    <3>2. S \subseteq Nat /\ S # {} /\ used[h][y][d] \in S
      <4>1. \A z \in Images : used[h][z][d] \in Nat
        BY DEF Inv, Typed, CacheTypes
      <4> QED BY <2>1, <3>1, <4>1
    <3>3. Top(d) \in Nat /\ \A z \in S : z <= Top(d)
      <4>1. Top(d) \in Nat
        BY TopType DEF Inv
      <4>2. \A z \in Images : used[h][z][d] <= Top(d)
        BY DEF Inv, SerialsGiven, NotedInCache
      <4> QED BY <3>1, <4>1, <4>2
    <3>4. msg'[c].sync[d] = Max(S)
      BY <1>8, <1>9
    <3> HIDE DEF S
    <3> QED BY <3>2, <3>3, <3>4, MaxBounded
  <2> QED BY <2>1, <2>3, <2>4, <2>5
<1>11. /\ DOMAIN available' = DOMAIN available
       /\ \A g \in Hosts \ {h} : available'[g] = available[g]
  <2>1. DOMAIN available = Hosts
    BY DEF Kept, Filled
  <2> HIDE DEF fits, k
  <2> QED BY <1>2, <2>1
<1>12. ASSUME lru[h] = <<>>, available[h] = -1
       PROVE  lru'[h] = <<>> /\ available'[h] = -1
  <2>1. k = 0 /\ ~fits /\ Room(h, x, k) + SizeOf[x] = -1
    BY <1>12, NoRoom
  <2>2. DOMAIN available = Hosts
    BY DEF Kept, Filled
  <2>3. available'[h] = Room(h, x, k) + SizeOf[x]
    <3> HIDE DEF fits, k
    <3> QED BY <1>2, <2>1, <2>2
  <2>4. lru'[h] = kept
    <3> HIDE DEF fits, kept
    <3> QED BY <1>2, <2>1 DEF Inv, Typed, CacheTypes
  <2>5. kept = <<>>
    <3>1. Len(kept) = 0
      BY <1>3, <1>12, <2>1
    <3> HIDE DEF kept
    <3> QED BY <1>3, <3>1, EmptySeq
  <2> QED BY <2>1, <2>3, <2>4, <2>5
<1>13. /\ \A g \in Hosts, y \in Images : g # h \/ y # x => used'[g][y] = used[g][y]
       /\ fits => used'[h][x][c] = Serial(c)
  <2> DEFINE f == IF fits THEN [NoSync EXCEPT ![c] = Serial(c)] ELSE used[h][x]
  <2>1. used \in [Hosts -> [Images -> [Channels -> Nat]]] /\ used' = [used EXCEPT ![h][x] = f]
    BY <1>2 DEF Inv, Typed, CacheTypes
  <2>2. fits => f[c] = Serial(c)
    BY DEF NoSync
  <2> HIDE DEF f, fits
  <2>3. \A g \in Hosts, y \in Images : g # h \/ y # x => used'[g][y] = used[g][y]
    BY <2>1
  <2>4. used'[h] = [used[h] EXCEPT ![x] = f] /\ used[h] \in [Images -> [Channels -> Nat]]
    BY <2>1
  <2> QED BY <2>2, <2>3, <2>4
<1>14. /\ \A g \in Hosts, d \in Channels :
            sync'[g][d] = sync[g][d] \/ (d = c /\ sync'[g][d] = Serial(c))
       /\ fits => sync'[h][c] = Serial(c)
  <2>1. sync \in [Hosts -> [Channels -> Nat]]
    BY DEF Inv, Typed, CacheTypes
  <2> HIDE DEF fits, k
  <2> QED BY <1>2, <2>1
<1>15. ASSUME NEW y, NEW e, Draws(msg'[c].op, y, e)
       PROVE  /\ y = x /\ e = era[x] /\ InCache(h, x)' /\ used'[h][x][c] = Serial(c)
              /\ sync'[h][c] = Serial(c)
  <2> HIDE DEF new, fits, k, n, kept
  <2>1. msg'[c].op = (IF fits THEN Op("put", x) ELSE NoOp)
    BY <1>8, <1>9
  <2>2. fits /\ y = x /\ e = era[x]
    BY <1>15, <2>1 DEF Draws, Op
  <2> QED BY <1>6, <1>13, <1>14, <2>2
<1>16. msg'[c].phase = "build" /\ msg'[c].clear = {}
  <2> HIDE DEF new
  <2> QED BY <1>8, <1>9
<1>17. ASSUME NEW y, InCache(h, y), ~InCache(h, y)'
       PROVE  <<y, era[y]>> \in msg'[c].evicted
  <2>1. PICK i \in 1..n : lru[h][i] = y
    BY <1>1, <1>17 DEF InCache
  <2> HIDE DEF new, fits, k, n, kept
  <2>2. i \in (n - k + 1)..n
    BY <1>5, <1>6, <1>17, <2>1
  <2> QED BY <1>8, <1>9, <2>1, <2>2
<1>18. ASSUME NEW y, InCache(h, y)'
       PROVE  InCache(h, y) \/ (y = x /\ Draws(msg'[c].op, x, era[x]))
  <2> HIDE DEF new, fits, k, n, kept
  <2>1. CASE fits /\ y = x
    <3>1. msg'[c].op = Op("put", x)
      BY <1>8, <1>9, <2>1
    <3> QED BY <2>1, <3>1 DEF Draws, Op, NoOp
  <2>2. CASE \E i \in 1..(n - k) : lru[h][i] = y
    BY <1>1, <1>5, <2>2 DEF InCache
  <2> QED BY <1>6, <1>18, <2>1, <2>2
<1>19. \A y : InCache(h, y)' <=>
         (Room(h, x, Evictions(h, c, x)) >= 0 /\ y = x) \/
           \E i \in 1..(Len(lru[h]) - Evictions(h, c, x)) : lru[h][i] = y
  BY <1>6
<1> HIDE DEF new, fits, k, n, kept
<1> QED BY <1>6, <1>7, <1>8, <1>10, <1>11, <1>12, <1>13, <1>14, <1>15, <1>16,
   <1>17, <1>18, <1>19

LEMMA AddKept ==
  ASSUME Inv, Inv', Kept, NEW c \in Channels, NEW x \in Images, MarshallUpgrade(c, x),
         ~InCache(host[c], x)
  PROVE  Kept'
<1>0. PICK n \in Nat : n = last[c] + 1
  BY DEF Inv, Typed, SendTypes
<1>a. PICK h \in Hosts : h = host[c]
  BY DEF MarshallUpgrade, Ready
<1>1. /\ ~InCache(h, x) /\ msg[c].phase = "idle" /\ msg[c] = Idle /\ Add(h, c, x)
      /\ UNCHANGED <<net, last, done, host, mini, frozen, generation, moved, resetDue>>
  BY <1>a DEF MarshallUpgrade, Ready, clientVars, Kept, Resting
<1>2. Serial(c) = n /\ host[c] # "closed"
  BY <1>0, <1>a, <1>1 DEF Serial, Hosts
<1>3. CASE generation[h] # gen[c]
  <2>1. /\ msg' = [msg EXCEPT ![c].phase = "build"]
        /\ UNCHANGED <<lru, used, sync, available, era>>
    BY <1>1, <1>3 DEF Add
  <2>2. /\ msg'[c] = [Idle EXCEPT !.phase = "build"]
        /\ \A d \in Channels \ {c} : msg'[d] = msg[d]
    BY <1>1, <2>1 DEF Inv, Typed, SendTypes
  <2>3. /\ msg'[c].phase = "build" /\ msg'[c].evicted = {} /\ msg'[c].clear = {}
        /\ \A y \in Images, e \in Nat : ~Draws(msg'[c].op, y, e)
    BY <2>2 DEF Idle, Draws
  <2>4. \A y \in Images : era[y] \in Nat /\ era'[y] \in Nat /\ era[y] <= era'[y]
    BY <2>1 DEF Inv, Typed, CacheTypes
  <2>5. Numbered' /\ Resting' /\ Dated' /\ InOrder'
    <3>1. Past(msg[c].evicted)' /\ Past(msg[c].clear)'
          /\ Apart(msg[c].op, msg[c].evicted)' /\ Apart(msg[c].op, msg[c].clear)'
      BY <2>3 DEF Past, Apart
    <3>2. msg'[c].phase # "idle"
      BY <2>3
    <3> QED BY <1>1, <1>2, <2>2, <2>3, <2>4, <3>1, <3>2, Marshalled
  <2>6. Filled'
    BY <1>1, <2>1 DEF Kept, Filled, OnceIn
  <2>7. ASSUME mini = {}
        PROVE  Noted'
    <3>1. ASSUME NEW d \in Channels, NEW y \in Images, NEW e \in Nat, NEW s \in Nat,
                 Uses(d, y, e, s)
          PROVE  NotedInItem(d, y, e, s)' /\ NotedForReset(d, s)'
      <4>1. NotedInItem(d, y, e, s) /\ NotedForReset(d, s)
        BY <2>7, <3>1 DEF Kept, Noted
      <4> QED BY <1>1, <2>1, <4>1 DEF NotedInItem, NotedForReset, InCache
    <3> QED BY <1>0, <1>1, <2>2, <2>3, <2>5, <2>7, <3>1, MarshalledNoted
  <2> QED BY <1>1, <2>5, <2>6, <2>7 DEF Kept
<1>4. CASE generation[h] = gen[c]
  <2>1. /\ OnceIn(lru'[h]) /\ \A g \in Hosts \ {h} : lru'[g] = lru[g]
        /\ DOMAIN available' = DOMAIN available
        /\ \A g \in Hosts \ {h} : available'[g] = available[g]
        /\ lru[h] = <<>> /\ available[h] = -1 =>
             lru'[h] = <<>> /\ available'[h] = -1
        /\ \A y \in Images : era'[y] = era[y] +
             (IF InCache(h, y) /\ ~InCache(h, y)' THEN 1 ELSE 0)
        /\ \A d \in Channels \ {c} : msg'[d] = msg[d]
        /\ msg'[c].phase = "build" /\ msg'[c].clear = {}
    BY <1>1, <1>4, Added
  <2>2. /\ \A y, e : Draws(msg'[c].op, y, e) =>
             y = x /\ e = era[x] /\ InCache(h, x)' /\ used'[h][x][c] = Serial(c)
             /\ sync'[h][c] = Serial(c)
        /\ \A y, e : <<y, e>> \in msg'[c].evicted =>
             InCache(h, y) /\ ~InCache(h, y)' /\ e = era[y]
             /\ \A d \in Channels : used[h][y][d] <= msg'[c].sync[d]
        /\ \A g \in Hosts, y \in Images : g # h \/ y # x => used'[g][y] = used[g][y]
        /\ \A g \in Hosts, d \in Channels :
             sync'[g][d] = sync[g][d] \/ (d = c /\ sync'[g][d] = Serial(c))
    <3>1. \A y, e : Draws(msg'[c].op, y, e) =>
             y = x /\ e = era[x] /\ InCache(h, x)' /\ used'[h][x][c] = Serial(c)
             /\ sync'[h][c] = Serial(c)
      BY <1>1, <1>4, Added
    <3>2. \A y, e : <<y, e>> \in msg'[c].evicted =>
             InCache(h, y) /\ ~InCache(h, y)' /\ e = era[y]
             /\ \A d \in Channels : used[h][y][d] <= msg'[c].sync[d]
      BY <1>1, <1>4, Added
    <3>3. \A g \in Hosts, y \in Images : g # h \/ y # x => used'[g][y] = used[g][y]
      BY <1>1, <1>4, Added
    <3>4. \A g \in Hosts, d \in Channels :
             sync'[g][d] = sync[g][d] \/ (d = c /\ sync'[g][d] = Serial(c))
      BY <1>1, <1>4, Added
    <3> QED BY <3>1, <3>2, <3>3, <3>4
  <2>3. \A y \in Images : era[y] \in Nat /\ era'[y] \in Nat /\ era[y] <= era'[y]
    <3> SUFFICES ASSUME NEW y \in Images
                 PROVE  era[y] \in Nat /\ era'[y] \in Nat /\ era[y] <= era'[y]
      OBVIOUS
    <3>1. era[y] \in Nat
      BY DEF Inv, Typed, CacheTypes
    <3>2. era'[y] = era[y] \/ era'[y] = era[y] + 1
      BY <2>1, <3>1
    <3> QED BY <3>1, <3>2
  <2>4. Numbered' /\ Resting' /\ Dated' /\ InOrder'
    <3>1. Past(msg[c].evicted)'
      <4> SUFFICES ASSUME NEW y \in Images, NEW e \in Nat, <<y, e>> \in msg'[c].evicted
                   PROVE  e < era'[y]
        BY DEF Past
      <4>1. InCache(h, y) /\ ~InCache(h, y)' /\ e = era[y]
        BY <2>2
      <4> QED BY <2>1, <4>1
    <3>2. Apart(msg[c].op, msg[c].evicted)'
      <4> SUFFICES ASSUME NEW y \in Images, NEW e \in Nat, Draws(msg'[c].op, y, e),
                          <<y, e>> \in msg'[c].evicted
                   PROVE  FALSE
        BY DEF Apart, Draws
      <4>1. InCache(h, y)' /\ ~InCache(h, y)'
        BY <2>2
      <4> QED BY <4>1
    <3>3. Past(msg[c].clear)' /\ Apart(msg[c].op, msg[c].clear)'
      BY <2>1 DEF Past, Apart
    <3>4. \A y \in Images, e \in Nat : Draws(msg'[c].op, y, e) => e = era[y]
      BY <2>2
    <3>5. msg'[c].phase # "idle"
      BY <2>1
    <3> QED BY <1>1, <1>2, <2>1, <2>3, <3>1, <3>2, <3>3, <3>4, <3>5, Marshalled
  <2>5. Filled'
    <3>1. \A g \in Hosts : OnceIn(lru[g])'
      <4> SUFFICES ASSUME NEW g \in Hosts
                   PROVE  OnceIn(lru'[g])
        BY DEF OnceIn
      <4>1. OnceIn(lru[g])
        BY DEF Kept, Filled
      <4> QED BY <2>1, <4>1
    <3>2. \A g \in Hosts : lru[g] = <<>> /\ available[g] = -1 =>
                             lru'[g] = <<>> /\ available'[g] = -1
      BY <2>1
    <3> QED BY <1>1, <2>1, <3>1, <3>2 DEF Kept, Filled, Hosts
  <2>6. ASSUME mini = {}
        PROVE  Noted'
    <3>1. ASSUME NEW d \in Channels, NEW y \in Images, NEW e \in Nat, NEW s \in Nat,
                 Uses(d, y, e, s)
          PROVE  /\ NotedInItem(d, y, e, s)' /\ NotedForReset(d, s)'
                 /\ d # c => /\ <<y, e>> \in msg'[c].evicted => s <= msg'[c].sync[d]
                             /\ <<y, e>> \in msg'[c].clear => WaitsFor(msg'[c].waits, d, s)
      <4>1. NotedInItem(d, y, e, s) /\ NotedForReset(d, s)
        BY <2>6, <3>1 DEF Kept, Noted
      <4>2. NotedInItem(d, y, e, s)'
        <5>1. e <= era[y] /\ e <= era'[y]
          BY <2>3, <4>1 DEF NotedInItem
        <5>2. ASSUME e = era'[y]
              PROVE  \E g \in Hosts : InCache(g, y)' /\ s <= used'[g][y][d]
          <6>1. e = era[y] /\ ~(InCache(h, y) /\ ~InCache(h, y)')
            BY <2>1, <2>3, <5>1, <5>2
          <6>2. PICK g \in Hosts : InCache(g, y) /\ s <= used[g][y][d]
            BY <4>1, <6>1 DEF NotedInItem
          <6>3. CASE g = h
            <7>1. y # x
              BY <1>1, <6>2, <6>3
            <7> QED BY <2>2, <6>1, <6>2, <6>3, <7>1
          <6>4. CASE g # h
            <7>1. InCache(g, y)' /\ used'[g][y] = used[g][y]
              BY <2>1, <2>2, <6>2, <6>4 DEF InCache
            <7> QED BY <6>2, <7>1
          <6> QED BY <6>3, <6>4
        <5> QED BY <5>1, <5>2 DEF NotedInItem
      <4>3. NotedForReset(d, s)'
        <5>1. d = c => s <= n
          <6>1. mini = {} => s <= Top(d)
            BY <3>1, UseNumber
          <6>2. Top(c) = last[c]
            BY <1>1 DEF Top
          <6> QED BY <1>0, <2>6, <6>1, <6>2 DEF Inv, Typed, SendTypes
        <5>2. \A g \in Hosts : s <= sync[g][d] => s <= sync'[g][d]
          BY <1>2, <2>2, <5>1
        <5> QED BY <1>1, <4>1, <5>2 DEF NotedForReset, Hosts
      <4>4. ASSUME <<y, e>> \in msg'[c].evicted
            PROVE  s <= msg'[c].sync[d]
        <5>1. InCache(h, y) /\ e = era[y] /\ used[h][y][d] <= msg'[c].sync[d]
          BY <2>2, <4>4
        <5>2. PICK g \in Hosts : InCache(g, y) /\ s <= used[g][y][d]
          BY <4>1, <5>1 DEF NotedInItem
        <5>3. g = h
          BY <1>1, <5>1, <5>2, OneCache
        <5>4. used[h][y][d] \in Nat
          BY DEF Inv, Typed, CacheTypes
        <5>5. msg'[c].sync[d] \in Nat
          <6>1. msg'[c] \in Marshalling
            BY DEF Inv, Typed, SendTypes
          <6> QED BY <6>1 DEF Marshalling
        <5> QED BY <4>1, <5>1, <5>2, <5>3, <5>4, <5>5
      <4> QED BY <2>1, <4>2, <4>3, <4>4
    <3>2. ASSUME NEW y \in Images, NEW e \in Nat, Draws(msg'[c].op, y, e)
          PROVE  ~(e < era'[y]) /\ NotedInItem(c, y, e, n)' /\ NotedForReset(c, n)'
      <4>1. /\ y = x /\ e = era[x] /\ InCache(h, x)' /\ used'[h][x][c] = n
            /\ sync'[h][c] = n /\ ~InCache(h, x)
        BY <1>1, <1>2, <2>2, <3>2
      <4>2. e = era'[y]
        BY <2>1, <2>3, <4>1
      <4>3. ~(e < era'[y]) /\ n <= n /\ e <= e
        BY <1>0, <4>2
      <4>4. NotedInItem(c, y, e, n)'
        BY <1>1, <4>1, <4>2, <4>3 DEF NotedInItem
      <4>5. NotedForReset(c, n)'
        <5>1. ~(lru[h] = <<>> /\ available[h] = -1)
          BY <2>1, <4>1 DEF InCache
        <5>2. ~frozen["source"] => h = "source"
          <6>1. ~frozen["source"] => generation["target"] = 0
            BY DEF Inv, ResetsFollowed
          <6> QED BY <1>1, <5>1, <6>1 DEF Kept, Filled, Hosts
        <5>3. \A b \in Channels : ~WillReset(b)
          <6>1. \A b \in Channels : WillReset(b) => frozen["source"] /\ generation["target"] = 0
            BY DEF Inv, ResetsFollowed
          <6> QED BY <1>1, <5>1, <6>1 DEF Kept, Filled, Hosts
        <5> QED BY <1>1, <4>1, <4>3, <5>2, <5>3 DEF NotedForReset, WillReset
      <4> QED BY <4>3, <4>4, <4>5
    <3> QED BY <1>0, <1>1, <2>1, <2>4, <2>6, <3>1, <3>2, MarshalledNoted
  <2> QED BY <1>1, <2>4, <2>5, <2>6 DEF Kept
<1> QED BY <1>3, <1>4

-----------------------------------------------------------------------------
(* Migration.                                                              *)

\* The cache is frozen: what is noted in it goes into the migrate data.
LEMMA MarshallMigrateDataKept ==
  ASSUME Inv, Inv', Kept, NEW c \in Channels, MarshallMigrateData(c)
  PROVE  Kept'
<1>1. /\ host[c] = "source" /\ msg[c].phase = "idle" /\ msg[c] = Idle
      /\ host' = [host EXCEPT ![c] = "moving"]
      /\ moved' = [moved EXCEPT ![c] = [freezer |-> ~frozen["source"], sync |-> sync["source"]]]
      /\ frozen' = [frozen EXCEPT !["source"] = TRUE]
      /\ lru' = [lru EXCEPT !["source"] = <<>>]
      /\ available' = [available EXCEPT !["source"] = -1]
      /\ era' = (IF frozen["source"] THEN era ELSE [x \in Images |-> era[x] + 1])
      /\ Send(c, NoOp)
      /\ UNCHANGED <<used, sync, generation, mini, resetDue, msg>>
  BY DEF MarshallMigrateData, Ready, Kept, Resting
<1>2. PICK m : /\ m.op = NoOp /\ Removes(m) = {}
               /\ \A d \in Channels \ {c} : net'[d] = net[d]
               /\ DOMAIN net[c] = 1..Len(net[c]) /\ Len(net[c]) \in Nat
               /\ DOMAIN net'[c] = 1..(Len(net[c]) + 1)
               /\ \A i \in DOMAIN net[c] : net'[c][i] = net[c][i]
               /\ net'[c][Len(net[c]) + 1] = m
  <2>1. msg[c].evicted \cup msg[c].clear = {}
    BY <1>1 DEF Idle
  <2>2. PICK m : /\ m.op = NoOp
                 /\ Removes(m) = msg[c].evicted \cup msg[c].clear
                 /\ \A d \in Channels \ {c} : net'[d] = net[d]
                 /\ DOMAIN net[c] = 1..Len(net[c]) /\ Len(net[c]) \in Nat
                 /\ DOMAIN net'[c] = 1..(Len(net[c]) + 1)
                 /\ \A i \in DOMAIN net[c] : net'[c][i] = net[c][i]
                 /\ net'[c][Len(net[c]) + 1] = m
    <3>1. Send(c, NoOp)
      BY <1>1
    <3> QED BY <3>1, Sent
  <2> QED BY <2>1, <2>2
\* A message that removes something, or draws, is an old one.
<1>3. ASSUME NEW d \in Channels, NEW i \in DOMAIN net'[d]
      PROVE  \/ i \in DOMAIN net[d] /\ net'[d][i] = net[d][i]
             \/ d = c /\ i = Len(net[c]) + 1 /\ net'[d][i] = m
  BY <1>2, SentWhere
<1>4. \A x \in Images : /\ era[x] \in Nat /\ era'[x] \in Nat /\ era[x] <= era'[x]
                        /\ ~frozen["source"] => era[x] < era'[x]
  BY <1>1 DEF Inv, Typed, CacheTypes
<1>5. /\ frozen'["source"] /\ lru'["source"] = <<>> /\ lru'["target"] = lru["target"]
      /\ available'["source"] = -1 /\ available'["target"] = available["target"]
      /\ DOMAIN available' = Hosts
  BY <1>1 DEF Inv, Typed, CacheTypes, Hosts, Kept, Filled
<1>6. /\ host'[c] = "moving" /\ \A d \in Channels \ {c} : host'[d] = host[d]
      /\ moved'[c] = [freezer |-> ~frozen["source"], sync |-> sync["source"]]
      /\ \A d \in Channels \ {c} : moved'[d] = moved[d]
  BY <1>1 DEF Inv, Typed, PipeTypes
<1>7. Numbered'
  BY <1>1, SendNumbered
<1>8. Filled'
  <2>1. OnceIn(lru'["source"]) /\ OnceIn(lru'["target"])
    BY <1>5 DEF OnceIn, Kept, Filled, Hosts
  <2>2. \A g \in Hosts : OnceIn(lru[g])'
    BY <2>1 DEF Hosts, OnceIn
  <2> QED BY <1>1, <1>5, <2>2 DEF Kept, Filled
<1>9. Resting'
  <2> SUFFICES ASSUME NEW d \in Channels
               PROVE  /\ msg'[d].phase = "idle" => msg'[d] = Idle
                      /\ host'[d] = "closed" => msg'[d] = Idle /\ net'[d] = <<>>
                      /\ mini' = {} => msg'[d].phase \in {"idle", "build"}
    BY DEF Resting
  <2>1. CASE d # c
    BY <1>1, <1>2, <1>6, <2>1 DEF Kept, Resting
  <2>2. CASE d = c
    BY <1>1, <1>6, <2>2
  <2> QED BY <2>1, <2>2
<1>10. Dated'
  <2> SUFFICES ASSUME NEW d \in Channels
               PROVE  /\ Past(msg[d].evicted)' /\ Past(msg[d].clear)'
                      /\ \A i \in DOMAIN net'[d] : Past(Removes(net[d][i]))'
    BY DEF Dated
  <2>1. /\ Past(msg[d].evicted) /\ Past(msg[d].clear)
        /\ \A i \in DOMAIN net[d] : Past(Removes(net[d][i]))
    BY DEF Kept, Dated
  <2>2. Past(msg[d].evicted)' /\ Past(msg[d].clear)'
    BY <1>1, <1>4, <2>1 DEF Past
  <2>3. ASSUME NEW i \in DOMAIN net'[d]
        PROVE  Past(Removes(net[d][i]))'
    <3>1. CASE i \in DOMAIN net[d] /\ net'[d][i] = net[d][i]
      <4>1. Past(Removes(net[d][i]))
        BY <2>1, <3>1
      <4> QED BY <1>4, <3>1, <4>1 DEF Past, Removes
    <3>2. CASE net'[d][i] = m
      BY <1>2, <3>2 DEF Past, Removes
    <3> QED BY <1>3, <3>1, <3>2
  <2> QED BY <2>2, <2>3
<1>11. InOrder'
  <2> SUFFICES ASSUME NEW d \in Channels
               PROVE  /\ Apart(msg[d].op, msg[d].evicted)' /\ Apart(msg[d].op, msg[d].clear)'
                      /\ \A i \in DOMAIN net'[d] :
                           /\ Apart(msg[d].op, Removes(net[d][i]))'
                           /\ \A j \in DOMAIN net'[d] : i <= j =>
                                Apart(net[d][j].op, Removes(net[d][i]))'
    BY DEF InOrder
  <2>1. /\ Apart(msg[d].op, msg[d].evicted) /\ Apart(msg[d].op, msg[d].clear)
        /\ \A i \in DOMAIN net[d] :
             /\ Apart(msg[d].op, Removes(net[d][i]))
             /\ \A j \in DOMAIN net[d] : i <= j => Apart(net[d][j].op, Removes(net[d][i]))
    BY DEF Kept, InOrder
  <2>2. Apart(msg[d].op, msg[d].evicted)' /\ Apart(msg[d].op, msg[d].clear)'
    BY <1>1, <2>1 DEF Apart, Draws
  <2>3. ASSUME NEW i \in DOMAIN net'[d]
        PROVE  Apart(msg[d].op, Removes(net[d][i]))'
    <3>1. Apart(msg[d].op, Removes(net'[d][i]))
      BY <1>2, <1>3, <2>1 DEF Apart
    <3> QED BY <1>1, <3>1 DEF Apart, Draws, Removes
  <2>4. ASSUME NEW i \in DOMAIN net'[d], NEW j \in DOMAIN net'[d], i <= j
        PROVE  Apart(net[d][j].op, Removes(net[d][i]))'
    <3>1. Apart(net'[d][j].op, Removes(net'[d][i]))
      <4>1. CASE net'[d][i] = m \/ net'[d][j] = m
        BY <1>2, <4>1 DEF Apart, Draws
      <4>2. CASE net'[d][i] # m /\ net'[d][j] # m
        <5>1. i \in DOMAIN net[d] /\ net'[d][i] = net[d][i]
          BY <1>3, <4>2
        <5>2. j \in DOMAIN net[d] /\ net'[d][j] = net[d][j]
          BY <1>3, <4>2
        <5> QED BY <2>1, <2>4, <5>1, <5>2
      <4> QED BY <4>1, <4>2
    <3> QED BY <3>1 DEF Apart, Draws, Removes
  <2> QED BY <2>2, <2>3, <2>4
<1>12. ASSUME mini = {}
       PROVE  Noted'
  <2> SUFFICES ASSUME NEW d \in Channels, NEW x \in Images, NEW e \in Nat, NEW s \in Nat,
                      Uses(d, x, e, s)'
               PROVE  /\ NotedInItem(d, x, e, s)' /\ NotedInRemovals(d, x, e, s)'
                      /\ NotedForReset(d, s)'
    BY DEF Noted
  <2>1. Uses(d, x, e, s)
    <3>1. CASE \E i \in DOMAIN net'[d] : Draws(net'[d][i].op, x, e) /\ s = net'[d][i].serial
      <4>1. PICK i \in DOMAIN net'[d] : Draws(net'[d][i].op, x, e) /\ s = net'[d][i].serial
        BY <3>1
      <4>2. net'[d][i] # m
        BY <1>2, <4>1 DEF Draws
      <4>3. i \in DOMAIN net[d] /\ net'[d][i] = net[d][i]
        BY <1>3, <4>2
      <4> QED BY <4>1, <4>3 DEF Uses
    <3>2. CASE Draws(msg'[d].op, x, e) /\ s = Serial(d)'
      <4>1. d # c
        BY <1>1, <3>2 DEF Draws, Idle
      <4>2. Serial(d)' = Serial(d)
        BY <1>1, <4>1 DEF Serial, Send, Inv, Typed, SendTypes
      <4> QED BY <1>1, <3>2, <4>2 DEF Uses
    <3> QED BY <3>1, <3>2 DEF Uses
  <2>2. NotedInItem(d, x, e, s) /\ NotedInRemovals(d, x, e, s) /\ NotedForReset(d, s)
    BY <1>12, <2>1 DEF Kept, Noted
  <2>3. NotedInItem(d, x, e, s)'
    <3>1. CASE frozen["source"]
      <4>1. era' = era /\ used' = used
        BY <1>1, <3>1
      <4>2. lru["source"] = <<>>
        BY <3>1 DEF Kept, Filled
      <4>3. \A g \in Hosts : lru'[g] = lru[g]
        BY <1>5, <4>2 DEF Hosts
      <4> QED BY <2>2, <4>1, <4>3 DEF NotedInItem, InCache
    <3>2. CASE ~frozen["source"]
      <4>1. e <= era[x] /\ era[x] < era'[x] /\ era[x] \in Nat /\ era'[x] \in Nat
        BY <1>4, <2>2, <3>2 DEF NotedInItem
      <4> QED BY <4>1 DEF NotedInItem
    <3> QED BY <3>1, <3>2
  <2>4. NotedInRemovals(d, x, e, s)'
    <3> SUFFICES ASSUME NEW b \in Channels \ {d}
                 PROVE  /\ <<x, e>> \in msg'[b].evicted => s <= msg'[b].sync[d]
                        /\ <<x, e>> \in msg'[b].clear => WaitsFor(msg'[b].waits, d, s)
                        /\ \A i \in DOMAIN net'[b] : <<x, e>> \in Removes(net'[b][i]) =>
                             WaitsFor(net'[b][i].waits, d, s)
      BY DEF NotedInRemovals, WaitsFor, Removes
    <3>1. /\ <<x, e>> \in msg[b].evicted => s <= msg[b].sync[d]
          /\ <<x, e>> \in msg[b].clear => WaitsFor(msg[b].waits, d, s)
          /\ \A i \in DOMAIN net[b] : <<x, e>> \in Removes(net[b][i]) =>
               WaitsFor(net[b][i].waits, d, s)
      BY <2>2 DEF NotedInRemovals
    <3>2. ASSUME NEW i \in DOMAIN net'[b], <<x, e>> \in Removes(net'[b][i])
          PROVE  WaitsFor(net'[b][i].waits, d, s)
      <4>1. net'[b][i] # m
        BY <1>2, <3>2
      <4>2. i \in DOMAIN net[b] /\ net'[b][i] = net[b][i]
        BY <1>3, <4>1
      <4> QED BY <3>1, <3>2, <4>2
    <3> QED BY <1>1, <3>1, <3>2
  <2>5. NotedForReset(d, s)'
    <3>1. ASSUME NEW b \in Channels, host'[b] = "moving", moved'[b].freezer
          PROVE  s <= moved'[b].sync[d]
      <4>1. CASE b # c
        BY <1>6, <2>2, <3>1, <4>1 DEF NotedForReset
      <4>2. CASE b = c
        <5>1. moved'[c].freezer = ~frozen["source"] /\ moved'[c].sync = sync["source"]
          BY <1>6
        <5>2. s <= sync["source"][d]
          BY <2>2, <3>1, <4>2, <5>1 DEF NotedForReset
        <5> QED BY <4>2, <5>1, <5>2
      <4> QED BY <4>1, <4>2
    <3> QED BY <1>1, <1>5, <2>2, <3>1 DEF NotedForReset
  <2> QED BY <2>3, <2>4, <2>5
<1> QED BY <1>1, <1>7, <1>8, <1>9, <1>10, <1>11, <1>12 DEF Kept

\* The target takes over the serials.
LEMMA HandleMigrateDataKept ==
  ASSUME Inv, Inv', Kept, NEW c \in Channels, HandleMigrateData(c)
  PROVE  Kept'
<1>1. /\ host[c] = "moving"
      /\ host' = [host EXCEPT ![c] = "target"]
      /\ sync' = [sync EXCEPT !["target"] = Later(@, moved[c].sync)]
      /\ resetDue' = [resetDue EXCEPT ![c] = moved[c].freezer]
      /\ UNCHANGED <<lru, used, available, frozen, generation, era, mini, moved, last, msg,
                     net, done>>
  BY DEF HandleMigrateData, clientVars
<1>2. Filled' /\ Numbered' /\ Dated' /\ InOrder'
  <2>1. Filled' /\ Numbered'
    BY <1>1 DEF Kept, Filled, OnceIn, Numbered
  <2>2. Dated'
    BY <1>1 DEF Kept, Dated, Past, Removes
  <2>3. InOrder'
    BY <1>1 DEF Kept, InOrder, Apart, Draws, Removes
  <2> QED BY <2>1, <2>2, <2>3
<1>3. /\ host'[c] = "target" /\ \A d \in Channels \ {c} : host'[d] = host[d]
      /\ resetDue'[c] = moved[c].freezer
      /\ \A d \in Channels \ {c} : resetDue'[d] = resetDue[d]
      /\ sync'["source"] = sync["source"]
      /\ \A d \in Channels : /\ sync["target"][d] <= sync'["target"][d]
                             /\ moved[c].sync[d] <= sync'["target"][d]
                             /\ sync["target"][d] \in Nat /\ moved[c].sync[d] \in Nat
                             /\ sync'["target"][d] \in Nat
  <2>1. /\ host \in [Channels -> Hosts \cup {"moving", "closed"}]
        /\ resetDue \in [Channels -> BOOLEAN] /\ sync \in [Hosts -> [Channels -> Nat]]
        /\ moved[c].sync \in [Channels -> Nat]
    BY DEF Inv, Typed, PipeTypes, CacheTypes
  <2>2. sync'["target"] = Later(sync["target"], moved[c].sync) /\ sync'["source"] = sync["source"]
    BY <1>1, <2>1 DEF Hosts
  <2>3. ASSUME NEW d \in Channels
        PROVE  /\ sync["target"][d] <= sync'["target"][d]
               /\ moved[c].sync[d] <= sync'["target"][d]
               /\ sync["target"][d] \in Nat /\ moved[c].sync[d] \in Nat
               /\ sync'["target"][d] \in Nat
    <3>1. sync["target"][d] \in Nat /\ moved[c].sync[d] \in Nat
      BY <2>1 DEF Hosts
    <3>2. sync'["target"][d] = MaxOf(sync["target"][d], moved[c].sync[d])
      BY <2>2 DEF Later
    <3> QED BY <3>1, <3>2 DEF MaxOf
  <2> QED BY <1>1, <2>1, <2>2, <2>3
<1>4. Resting'
  <2> SUFFICES ASSUME NEW d \in Channels
               PROVE  /\ msg'[d].phase = "idle" => msg'[d] = Idle
                      /\ host'[d] = "closed" => msg'[d] = Idle /\ net'[d] = <<>>
                      /\ mini' = {} => msg'[d].phase \in {"idle", "build"}
    BY DEF Resting
  <2> QED BY <1>1, <1>3 DEF Kept, Resting
<1>5. ASSUME mini = {}
      PROVE  Noted'
  <2> SUFFICES ASSUME NEW d \in Channels, NEW x \in Images, NEW e \in Nat, NEW s \in Nat,
                      Uses(d, x, e, s)'
               PROVE  /\ NotedInItem(d, x, e, s)' /\ NotedInRemovals(d, x, e, s)'
                      /\ NotedForReset(d, s)'
    BY DEF Noted
  <2>1. Uses(d, x, e, s)
    BY <1>1 DEF Uses, Serial
  <2>2. NotedInItem(d, x, e, s) /\ NotedInRemovals(d, x, e, s) /\ NotedForReset(d, s)
    BY <1>5, <2>1 DEF Kept, Noted
  <2>3. NotedInItem(d, x, e, s)' /\ NotedInRemovals(d, x, e, s)'
    BY <1>1, <2>2 DEF NotedInItem, NotedInRemovals, InCache, WaitsFor, Removes
  <2>4. NotedForReset(d, s)'
    <3>1. \A b \in Channels : host'[b] = "moving" /\ moved'[b].freezer => s <= moved'[b].sync[d]
      BY <1>1, <1>3, <2>2 DEF NotedForReset
    <3>2. ASSUME NEW b \in Channels, resetDue'[b]
          PROVE  s <= sync'["target"][d]
      <4>1. CASE b = c
        <5>1. s <= moved[c].sync[d]
          BY <1>1, <1>3, <2>2, <3>2, <4>1 DEF NotedForReset
        <5> QED BY <1>3, <5>1
      <4>2. CASE b # c
        <5>1. s <= sync["target"][d]
          BY <1>3, <2>2, <3>2, <4>2 DEF NotedForReset
        <5> QED BY <1>3, <5>1
      <4> QED BY <4>1, <4>2
    <3> QED BY <1>1, <1>3, <2>2, <3>1, <3>2 DEF NotedForReset
  <2> QED BY <2>3, <2>4
<1> QED BY <1>1, <1>2, <1>4, <1>5 DEF Kept

-----------------------------------------------------------------------------
(* The theorem.                                                            *)

LEMMA InitKept ==
  ASSUME Init
  PROVE  Kept
<1>1. \A c \in Channels : msg[c] = Idle /\ net[c] = <<>> /\ done[c] = 0 /\ last[c] = 0
  BY DEF Init
<1>2. Idle.phase = "idle" /\ Idle.op = NoOp /\ Idle.evicted = {} /\ Idle.clear = {}
  BY DEF Idle
<1>3. DOMAIN <<>> = {} /\ Len(<<>>) = 0
  OBVIOUS
<1>4. Filled
  BY <1>3 DEF Init, Filled, OnceIn, Hosts
<1>5. Numbered
  BY <1>1, <1>3 DEF Init, Numbered
<1>6. Resting
  BY <1>1, <1>2 DEF Resting
<1>7. Dated /\ InOrder
  BY <1>1, <1>2, <1>3 DEF Dated, Past, InOrder, Apart, Draws
<1>8. Noted
  BY <1>1, <1>2, <1>3 DEF Noted, Uses, Draws
<1> QED BY <1>4, <1>5, <1>6, <1>7, <1>8 DEF Kept

LEMMA NextKept ==
  ASSUME Inv, Inv', Kept, [Next]_vars
  PROVE  Kept'
<1>1. CASE UNCHANGED vars
  <2>1. Filled' /\ Numbered' /\ Resting'
    BY <1>1 DEF vars, Kept, Filled, OnceIn, Numbered, Resting
  <2>2. Dated' /\ InOrder'
    BY <1>1 DEF vars, Kept, Dated, Past, InOrder, Apart, Draws, Removes
  <2>3. ASSUME mini = {}
        PROVE  Noted'
    <3> SUFFICES ASSUME NEW d \in Channels, NEW x \in Images, NEW e \in Nat, NEW s \in Nat,
                        Uses(d, x, e, s)'
                 PROVE  /\ NotedInItem(d, x, e, s)' /\ NotedInRemovals(d, x, e, s)'
                        /\ NotedForReset(d, s)'
      BY DEF Noted
    <3>1. Uses(d, x, e, s)
      BY <1>1 DEF vars, Uses, Serial
    <3>2. NotedInItem(d, x, e, s) /\ NotedInRemovals(d, x, e, s) /\ NotedForReset(d, s)
      BY <2>3, <3>1 DEF Kept, Noted
    <3>3. NotedInItem(d, x, e, s)'
      BY <1>1, <3>2 DEF vars, NotedInItem, InCache
    <3>4. NotedInRemovals(d, x, e, s)'
      BY <1>1, <3>2 DEF vars, NotedInRemovals, WaitsFor, Removes
    <3>5. NotedForReset(d, s)'
      BY <1>1, <3>2 DEF vars, NotedForReset
    <3> QED BY <3>3, <3>4, <3>5
  <2> QED BY <1>1, <2>1, <2>2, <2>3 DEF vars, Kept
<1>2. ASSUME NEW c \in Channels, NEW x \in Images, MarshallUpgrade(c, x)
      PROVE  Kept'
  BY <1>2, HitKept, AddKept
<1>3. ASSUME NEW c \in Channels,
             \/ MarshallPixmapSync(c) \/ MarshallReset(c)
             \/ BeginSend(c) \/ SwitchToUrgent(c) \/ SendUrgent(c) \/ SendMain(c)
             \/ MarshallMigrateData(c) \/ HandleMigrateData(c)
             \/ Client(c)
      PROVE  Kept'
  BY <1>3, PixmapSyncKept, ResetKept, SendingKept, SwitchToUrgentKept,
     MarshallMigrateDataKept, HandleMigrateDataKept, ClientKept
<1> QED BY <1>1, <1>2, <1>3 DEF Next, Worker

\* A removal that may be carried out: another channel's uses are noted in what
\* it has waited for, and its own are in front of it.
LEMMA RemovalWaits ==
  ASSUME Inv, Kept
  PROVE  UsesBeforeRemoval
<1> SUFFICES ASSUME mini = {} \/ Alone,
                    NEW c \in Channels, net[c] # <<>>, Waited(First(c)),
                    NEW d \in Channels, NEW op \in Remaining(d),
                    <<op.id, op.era>> \in Removes(First(c))
             PROVE  FALSE
  BY DEF UsesBeforeRemoval, UsesHandled
<1>1. 1 \in DOMAIN net[c] /\ First(c) = net[c][1] /\ DOMAIN net[d] = 1..Len(net[d])
      /\ Len(net[d]) \in Nat
  <2>1. net[c] \in Seq(Message) /\ Len(net[c]) \in Nat /\ DOMAIN net[c] = 1..Len(net[c])
    BY NetSeq
  <2>2. Len(net[c]) # 0
    BY <2>1, EmptySeq
  <2> QED BY <2>1, <2>2, NetSeq DEF First
<1>2. op.id \in Images /\ op.era \in Nat /\ op # NoOp
  <2>1. op \in Ops /\ op # NoOp
    BY NetSeq DEF Remaining, Message, Inv, Typed, SendTypes, Marshalling
  <2> QED BY <2>1 DEF Ops
<1>3. PICK s : Uses(d, op.id, op.era, s)
  <2>1. CASE op = msg[d].op
    BY <1>2, <2>1 DEF Uses, Draws
  <2>2. CASE \E i \in DOMAIN net[d] : op = net[d][i].op
    BY <1>2, <2>2 DEF Uses, Draws
  <2> QED BY <2>1, <2>2 DEF Remaining
<1>4. d # c
  <2>1. SUFFICES ASSUME d = c
                 PROVE  FALSE
    OBVIOUS
  <2>2. \A o : Draws(o, op.id, op.era) => ~Apart(o, Removes(net[c][1]))
    BY <1>1, <1>2 DEF Apart
  <2>3. Apart(msg[c].op, Removes(net[c][1]))
    BY <1>1 DEF Kept, InOrder
  <2>4. \A j \in DOMAIN net[c] : Apart(net[c][j].op, Removes(net[c][1]))
    <3>1. \A j \in DOMAIN net[c] : 1 <= j
      BY <1>1, <2>1
    <3> QED BY <1>1, <3>1 DEF Kept, InOrder
  <2> QED BY <1>3, <2>1, <2>2, <2>3, <2>4 DEF Uses
<1>5. ~Alone
  <2>1. host[c] # "closed"
    BY DEF Kept, Resting
  <2>2. host[d] # "closed"
    BY <1>1, <1>3 DEF Kept, Resting, Idle, Uses, Draws
  <2> QED BY <1>4, <2>1, <2>2 DEF Alone
<1>6. s \in Nat /\ done[d] \in Nat /\ s > done[d]
  BY <1>3, UseNumber
<1>7. NotedInRemovals(d, op.id, op.era, s)
  BY <1>2, <1>3, <1>5, <1>6 DEF Kept, Noted
<1>8. WaitsFor(net[c][1].waits, d, s)
  BY <1>1, <1>4, <1>7 DEF NotedInRemovals
<1>9. PICK w \in net[c][1].waits : w[1] = d /\ s <= w[2]
  BY <1>8 DEF WaitsFor
<1>10. done[d] >= w[2] /\ w[2] \in Nat
  <2>1. net[c][1] \in Message
    BY <1>1, NetSeq
  <2> QED BY <1>1, <1>9, <2>1 DEF Waited, Message, Waits
<1> QED BY <1>6, <1>9, <1>10

\* display_channel_push_release and the waits of a message, of a reset and of a
\* migration: the client removes an image after all that use it.
THEOREM RemovalsWait == Spec => []UsesBeforeRemoval
<1>1. Init => Inv /\ Kept
  BY InitInv, InitKept
<1>2. Inv /\ Kept /\ [Next]_vars => Inv' /\ Kept'
  BY NextInv, NextKept
<1>3. Inv /\ Kept => UsesBeforeRemoval
  BY RemovalWaits
<1> QED BY <1>1, <1>2, <1>3, PTL DEF Spec

-----------------------------------------------------------------------------
(***************************************************************************)
(* What the client holds (NothingForgotten), and what the server counts on *)
(* (Mirror), for any channels, images, sizes and serials.                  *)
(*                                                                         *)
(* A use or an image of the client belongs to an entry that is in the      *)
(* server's cache, or has left it; then a removal of that entry is on its  *)
(* way (Gone).  The removal cannot be carried out while the use is to come *)
(* (RemovalWaits), and when it is carried out the image goes (Followed).   *)
(***************************************************************************)

\* The image is in one of the caches.
Cached(x) == \E h \in Hosts : InCache(h, x)

\* Channel c has a removal of the entry to send, or on its way.
OnWay(c, x, e) ==
  \/ <<x, e>> \in msg[c].evicted \cup msg[c].clear
  \/ \E i \in DOMAIN net[c] :
       (i = 1 => stage[c] = "wait") /\ <<x, e>> \in Removes(net[c][i])

\* The entry has left, and its removal, or the reset of a migration, is to come.
Gone(x, e) ==
  /\ e < era[x]
  /\ \/ frozen["source"] /\ generation["target"] = 0
     \/ \E c \in Channels : OnWay(c, x, e)

\* A message that draws the entry is to be sent, or to be drawn.
Used(d, x, e) == Draws(msg[d].op, x, e) \/ \E i \in DOMAIN net[d] : Draws(net[d][i].op, x, e)

Staged ==
  /\ stage \in [Channels -> {"wait", "draw"}]
  /\ \A c \in Channels : stage[c] = "draw" => net[c] # <<>> /\ net[c][1].op # NoOp

UsesFollowed ==
  \A d \in Channels, x \in Images, e \in Nat :
    Used(d, x, e) => (e = era[x] /\ Cached(x)) \/ Gone(x, e)
ImagesFollowed == \A x \in images : Cached(x) \/ \E e \in Nat : Gone(x, e)

Followed ==
  /\ Staged /\ images \subseteq Images
  /\ mini = {} \/ Alone => UsesFollowed /\ ImagesFollowed

\* A step of the server: an entry that leaves is Gone, what is Gone stays so, and a
\* new use is of an entry that is there.
LEMMA FollowedStays ==
  ASSUME Inv, Followed, images' = images, mini' = mini, Alone' => Alone, Staged',
         \A x \in Images, e \in Nat : Gone(x, e) => Gone(x, e)',
         \A x \in Images, e \in Nat : Cached(x) /\ e = era[x] =>
           (era'[x] = era[x] /\ Cached(x)') \/ Gone(x, e)',
         \A d \in Channels, x \in Images, e \in Nat :
           Used(d, x, e)' => Used(d, x, e) \/ (e = era'[x] /\ Cached(x)')
  PROVE  Followed'
<1>1. \A x \in Images : era[x] \in Nat
  BY DEF Inv, Typed, CacheTypes
<1>2. ASSUME mini = {} \/ Alone
      PROVE  UsesFollowed' /\ ImagesFollowed'
  <2>1. UsesFollowed /\ ImagesFollowed
    BY <1>2 DEF Followed
  <2>2. ASSUME NEW d \in Channels, NEW x \in Images, NEW e \in Nat, Used(d, x, e)'
        PROVE  (e = era'[x] /\ Cached(x)') \/ Gone(x, e)'
    <3>1. Used(d, x, e) \/ (e = era'[x] /\ Cached(x)')
      BY <2>2
    <3>2. CASE Used(d, x, e)
      BY <2>1, <3>2 DEF UsesFollowed
    <3> QED BY <3>1, <3>2
  <2>3. ASSUME NEW x \in images
        PROVE  Cached(x)' \/ \E e \in Nat : Gone(x, e)'
    <3>1. x \in Images
      BY DEF Followed
    <3>2. Cached(x) \/ \E e \in Nat : Gone(x, e)
      BY <2>1 DEF ImagesFollowed
    <3> QED BY <1>1, <3>1, <3>2
  <2>4. UsesFollowed'
    BY <2>2 DEF UsesFollowed
  <2>5. ImagesFollowed'
    BY <2>3 DEF ImagesFollowed
  <2> QED BY <2>4, <2>5
<1> QED BY <1>2 DEF Followed

\* What Send takes out of the worker's hands is on the connection.
LEMMA OnWaySent ==
  ASSUME Inv, Inv', Kept, Staged, NEW c \in Channels, NEW op, Send(c, op),
         \A d \in Channels \ {c} : msg'[d] = msg[d]
  PROVE  /\ Staged'
         /\ \A b \in Channels : \A x, e : OnWay(b, x, e) => OnWay(b, x, e)'
<1>1. PICK m : /\ Removes(m) = msg[c].evicted \cup msg[c].clear
               /\ \A d \in Channels \ {c} : net'[d] = net[d]
               /\ DOMAIN net[c] = 1..Len(net[c]) /\ Len(net[c]) \in Nat
               /\ DOMAIN net'[c] = 1..(Len(net[c]) + 1)
               /\ \A i \in DOMAIN net[c] : net'[c][i] = net[c][i]
               /\ net'[c][Len(net[c]) + 1] = m
  BY Sent
<1>2. stage' = stage
  BY DEF Send
<1>3. net'[c] # <<>>
  <2>1. 1 \in DOMAIN net'[c]
    BY <1>1
  <2> QED BY <2>1
<1>4. Staged'
  <2> SUFFICES ASSUME NEW d \in Channels, stage[d] = "draw"
               PROVE  net'[d] # <<>> /\ net'[d][1].op # NoOp
    BY <1>2 DEF Staged
  <2>1. net[d] # <<>> /\ net[d][1].op # NoOp
    BY DEF Staged
  <2>2. CASE d = c
    <3>1. 1 \in DOMAIN net[c]
      BY <1>1, <2>1, <2>2, NetSeq, EmptySeq
    <3> QED BY <1>1, <1>3, <2>1, <2>2, <3>1
  <2> QED BY <1>1, <2>1, <2>2
<1>5. ASSUME NEW b \in Channels, NEW x, NEW e, OnWay(b, x, e)
      PROVE  OnWay(b, x, e)'
  <2>1. CASE b # c
    <3>1. msg'[b] = msg[b] /\ net'[b] = net[b]
      BY <1>1, <2>1
    <3> QED BY <1>2, <1>5, <3>1 DEF OnWay, Removes
  <2>2. CASE b = c
    <3>1. SUFFICES \E i \in DOMAIN net'[c] :
                     (i = 1 => stage'[c] = "wait") /\ <<x, e>> \in Removes(net'[c][i])
      BY <2>2 DEF OnWay, Removes
    <3>2. CASE <<x, e>> \in msg[c].evicted \cup msg[c].clear
      <4>1. Len(net[c]) + 1 = 1 => net[c] = <<>>
        BY <1>1, NetSeq, EmptySeq
      <4>2. Len(net[c]) + 1 = 1 => stage'[c] = "wait"
        BY <1>2, <4>1 DEF Staged
      <4>3. Len(net[c]) + 1 \in DOMAIN net'[c] /\ <<x, e>> \in Removes(net'[c][Len(net[c]) + 1])
        BY <1>1, <3>2
      <4> QED BY <4>2, <4>3
    <3>3. CASE \E i \in DOMAIN net[c] :
                 (i = 1 => stage[c] = "wait") /\ <<x, e>> \in Removes(net[c][i])
      <4>1. PICK i \in DOMAIN net[c] :
                   (i = 1 => stage[c] = "wait") /\ <<x, e>> \in Removes(net[c][i])
        BY <3>3
      <4>2. i \in DOMAIN net'[c] /\ net'[c][i] = net[c][i]
        BY <1>1
      <4> QED BY <1>2, <4>1, <4>2
    <3> QED BY <1>5, <2>2, <3>2, <3>3 DEF OnWay
  <2> QED BY <2>1, <2>2
<1> QED BY <1>4, <1>5

\* What a worker marshals leaves the removals that are on their way.
LEMMA OnWayMarshalled ==
  ASSUME NEW c \in Channels, UNCHANGED <<net, stage>>,
         \A d \in Channels \ {c} : msg'[d] = msg[d],
         msg[c] = Idle \/ (msg'[c].evicted = msg[c].evicted /\ msg'[c].clear = msg[c].clear)
  PROVE  /\ Staged => Staged'
         /\ \A b \in Channels : \A x, e : OnWay(b, x, e) => OnWay(b, x, e)'
<1>1. \A b \in Channels :
        msg[b].evicted \cup msg[b].clear \subseteq msg'[b].evicted \cup msg'[b].clear
  BY DEF Idle
<1> QED BY <1>1 DEF Staged, OnWay, Removes

-----------------------------------------------------------------------------
(* The client carries out what is on its way.                              *)

\* What the two steps of the client do to the connection.
LEMMA ClientMoves ==
  ASSUME Inv, Kept, Staged, NEW c \in Channels, Client(c)
  PROVE  /\ UNCHANGED <<cacheVars, pipeVars, last, msg>>
         /\ net[c] # <<>> /\ 1 \in DOMAIN net[c] /\ First(c) = net[c][1] /\ First(c) \in Message
         /\ Invalidate(c) => Waited(First(c)) /\ stage[c] = "wait"
         /\ DrawImage(c) => stage[c] = "draw" /\ First(c).op # NoOp
         /\ \/ /\ Invalidate(c) /\ net' = net /\ stage' = [stage EXCEPT ![c] = "draw"]
               /\ First(c).op # NoOp
            \/ /\ net' = [net EXCEPT ![c] = Tail(@)] /\ stage' = [stage EXCEPT ![c] = "wait"]
               /\ DrawImage(c) \/ First(c).op = NoOp
               /\ \A d \in Channels \ {c} : net'[d] = net[d]
               /\ DOMAIN net'[c] = 1..(Len(net[c]) - 1)
               /\ \A i \in DOMAIN net'[c] : i + 1 \in DOMAIN net[c] /\ net'[c][i] = net[c][i + 1]
<1>1. net[c] # <<>> /\ UNCHANGED <<cacheVars, pipeVars, last, msg>>
  BY DEF Client, Invalidate, DrawImage
<1>2. 1 \in DOMAIN net[c] /\ First(c) = net[c][1] /\ First(c) \in Message
  <2>1. 1 \in DOMAIN net[c]
    BY <1>1, NetSeq, EmptySeq
  <2> QED BY <2>1, NetSeq DEF First
<1>3. Invalidate(c) => Waited(First(c)) /\ stage[c] = "wait"
  BY DEF Invalidate
<1>4. DrawImage(c) => stage[c] = "draw" /\ First(c).op # NoOp
  BY <1>2 DEF DrawImage, Staged
<1>5. ASSUME net' = [net EXCEPT ![c] = Tail(@)]
      PROVE  /\ \A d \in Channels \ {c} : net'[d] = net[d]
             /\ DOMAIN net'[c] = 1..(Len(net[c]) - 1)
             /\ \A i \in DOMAIN net'[c] : i + 1 \in DOMAIN net[c] /\ net'[c][i] = net[c][i + 1]
  BY <1>1, <1>5, Shorter
<1>6. CASE Invalidate(c)
  <2>1. CASE First(c).op = NoOp
    <3>1. net' = [net EXCEPT ![c] = Tail(@)] /\ stage' = [stage EXCEPT ![c] = "wait"]
      BY <1>6, <2>1 DEF Invalidate, Finish
    <3> QED BY <1>1, <1>2, <1>3, <1>4, <1>5, <2>1, <3>1
  <2>2. CASE First(c).op # NoOp
    <3>1. net' = net /\ stage' = [stage EXCEPT ![c] = "draw"]
      BY <1>6, <2>2 DEF Invalidate
    <3> QED BY <1>1, <1>2, <1>3, <1>4, <1>6, <2>2, <3>1
  <2> QED BY <2>1, <2>2
<1>7. CASE DrawImage(c)
  <2>1. net' = [net EXCEPT ![c] = Tail(@)] /\ stage' = [stage EXCEPT ![c] = "wait"]
    BY <1>7 DEF DrawImage, Finish
  <2> QED BY <1>1, <1>2, <1>3, <1>4, <1>5, <1>7, <2>1
<1> QED BY <1>6, <1>7 DEF Client

\* A removal stays on its way unless it is the one that is carried out, and no use is new.
LEMMA OnWayClient ==
  ASSUME Inv, Kept, Staged, NEW c \in Channels, Client(c)
  PROVE  /\ Staged'
         /\ \A b \in Channels : \A x, e : OnWay(b, x, e) =>
              OnWay(b, x, e)' \/ (Invalidate(c) /\ <<x, e>> \in Removes(First(c)))
         /\ \A b \in Channels : \A x, e : Used(b, x, e)' => Used(b, x, e)
<1>1. msg' = msg /\ 1 \in DOMAIN net[c] /\ First(c) = net[c][1]
      /\ Len(net[c]) \in Nat /\ DOMAIN net[c] = 1..Len(net[c])
  BY ClientMoves, NetSeq
<1>2. CASE Invalidate(c) /\ net' = net /\ stage' = [stage EXCEPT ![c] = "draw"]
           /\ First(c).op # NoOp
  <2>1. Staged'
    BY <1>1, <1>2, ClientMoves DEF Staged
  <2>2. ASSUME NEW b \in Channels, NEW x, NEW e, OnWay(b, x, e)
        PROVE  OnWay(b, x, e)' \/ <<x, e>> \in Removes(First(c))
    <3>1. CASE <<x, e>> \in msg[b].evicted \cup msg[b].clear
      BY <1>1, <3>1 DEF OnWay
    <3>2. CASE \E i \in DOMAIN net[b] :
                 (i = 1 => stage[b] = "wait") /\ <<x, e>> \in Removes(net[b][i])
      <4>1. PICK i \in DOMAIN net[b] :
                   (i = 1 => stage[b] = "wait") /\ <<x, e>> \in Removes(net[b][i])
        BY <3>2
      <4>2. CASE b = c /\ i = 1
        BY <1>1, <4>1, <4>2
      <4>3. CASE ~(b = c /\ i = 1)
        <5>1. i = 1 => stage'[b] = "wait"
          BY <1>2, <4>1, <4>3 DEF Staged
        <5> QED BY <1>2, <4>1, <5>1 DEF OnWay, Removes
      <4> QED BY <4>2, <4>3
    <3> QED BY <2>2, <3>1, <3>2 DEF OnWay
  <2> QED BY <1>1, <1>2, <2>1, <2>2 DEF Used, Draws
<1>3. CASE /\ net' = [net EXCEPT ![c] = Tail(@)] /\ stage' = [stage EXCEPT ![c] = "wait"]
           /\ DrawImage(c) \/ First(c).op = NoOp
           /\ \A d \in Channels \ {c} : net'[d] = net[d]
           /\ DOMAIN net'[c] = 1..(Len(net[c]) - 1)
           /\ \A i \in DOMAIN net'[c] : i + 1 \in DOMAIN net[c] /\ net'[c][i] = net[c][i + 1]
  <2>1. Staged'
    BY <1>3 DEF Staged
  <2>2. ASSUME NEW b \in Channels, NEW x, NEW e, OnWay(b, x, e)
        PROVE  OnWay(b, x, e)' \/ (Invalidate(c) /\ <<x, e>> \in Removes(First(c)))
    <3>1. CASE <<x, e>> \in msg[b].evicted \cup msg[b].clear
      BY <1>1, <3>1 DEF OnWay
    <3>2. CASE \E i \in DOMAIN net[b] :
                 (i = 1 => stage[b] = "wait") /\ <<x, e>> \in Removes(net[b][i])
      <4>1. PICK i \in DOMAIN net[b] :
                   (i = 1 => stage[b] = "wait") /\ <<x, e>> \in Removes(net[b][i])
        BY <3>2
      <4>2. CASE b # c
        <5>1. net'[b] = net[b] /\ stage'[b] = stage[b]
          BY <1>3, <4>2 DEF Staged
        <5> QED BY <4>1, <5>1 DEF OnWay, Removes
      <4>3. CASE b = c /\ i = 1
        BY <1>1, <4>1, <4>3, ClientMoves DEF Client
      <4>4. CASE b = c /\ i # 1
        <5>1. PICK k \in 1..(Len(net[c]) - 1) : i = k + 1
          <6>1. i \in 1..Len(net[c]) /\ i - 1 \in 1..(Len(net[c]) - 1) /\ i = (i - 1) + 1
            BY <1>1, <4>1, <4>4
          <6> QED BY <6>1
        <5>2. k \in DOMAIN net'[c] /\ net'[c][k] = net[c][i] /\ stage'[c] = "wait"
          BY <1>3, <5>1 DEF Staged
        <5> QED BY <4>1, <4>4, <5>2 DEF OnWay, Removes
      <4> QED BY <4>2, <4>3, <4>4
    <3> QED BY <2>2, <3>1, <3>2 DEF OnWay
  <2>3. ASSUME NEW b \in Channels, NEW x, NEW e, Used(b, x, e)'
        PROVE  Used(b, x, e)
    <3>1. CASE Draws(msg'[b].op, x, e)
      BY <1>1, <3>1 DEF Used
    <3>2. CASE \E i \in DOMAIN net'[b] : Draws(net'[b][i].op, x, e)
      <4>1. PICK i \in DOMAIN net'[b] : Draws(net'[b][i].op, x, e)
        BY <3>2
      <4>2. \E j \in DOMAIN net[b] : net'[b][i] = net[b][j]
        BY <1>3, <4>1
      <4> QED BY <4>1, <4>2 DEF Used
    <3> QED BY <2>3, <3>1, <3>2 DEF Used, Draws
  <2> QED BY <2>1, <2>2, <2>3
<1> QED BY <1>2, <1>3, ClientMoves

LEMMA ClientFollowed ==
  ASSUME Inv, Kept, Followed, NEW c \in Channels, Client(c)
  PROVE  Followed'
<1>1. /\ UNCHANGED <<cacheVars, pipeVars, last, msg>>
      /\ 1 \in DOMAIN net[c] /\ First(c) = net[c][1] /\ First(c) \in Message /\ net[c] # <<>>
      /\ Invalidate(c) => Waited(First(c)) /\ stage[c] = "wait"
      /\ DrawImage(c) => stage[c] = "draw" /\ First(c).op # NoOp
  BY ClientMoves DEF Followed
<1>2. /\ Staged'
      /\ \A b \in Channels : \A x, e : OnWay(b, x, e) =>
           OnWay(b, x, e)' \/ (Invalidate(c) /\ <<x, e>> \in Removes(First(c)))
      /\ \A b \in Channels : \A x, e : Used(b, x, e)' => Used(b, x, e)
  BY OnWayClient DEF Followed
<1>3. \A x, e : Gone(x, e) =>
        Gone(x, e)' \/ (Invalidate(c) /\ <<x, e>> \in Removes(First(c)))
  BY <1>1, <1>2 DEF Gone, cacheVars
<1>4. /\ \A x : Cached(x)' <=> Cached(x)
      /\ era' = era /\ mini' = mini /\ (Alone' <=> Alone)
  BY <1>1 DEF Cached, InCache, cacheVars, pipeVars, Alone
\* A use, and an image that was just used.
<1>5. ASSUME mini = {} \/ Alone, NEW d \in Channels, NEW x \in Images, NEW e \in Nat,
             Used(d, x, e), ~(Invalidate(c) /\ <<x, e>> \in Removes(First(c)))
      PROVE  (e = era'[x] /\ Cached(x)') \/ Gone(x, e)'
  <2>1. (e = era[x] /\ Cached(x)) \/ Gone(x, e)
    BY <1>5 DEF Followed, UsesFollowed
  <2> QED BY <1>3, <1>4, <1>5, <2>1
<1>6. ASSUME mini = {} \/ Alone, NEW d \in Channels, NEW x \in Images, NEW e \in Nat,
             Used(d, x, e), Invalidate(c)
      PROVE  <<x, e>> \notin Removes(First(c))
  <2>1. PICK op : op \in Remaining(d) /\ op.id = x /\ op.era = e
    BY <1>6 DEF Used, Draws, Remaining
  <2>2. UsesHandled
    BY <1>6, RemovalWaits DEF UsesBeforeRemoval
  <2> QED BY <1>1, <1>6, <2>1, <2>2 DEF UsesHandled
<1>7. images' \subseteq Images
  <2>1. CASE Invalidate(c)
    BY <2>1 DEF Invalidate, Followed
  <2>2. CASE DrawImage(c)
    <3>1. First(c).op \in Ops /\ First(c).op # NoOp
      BY <1>1, <2>2 DEF Message
    <3>2. First(c).op.id \in Images
      BY <3>1 DEF Ops
    <3> QED BY <2>2, <3>2 DEF DrawImage, Followed
  <2> QED BY <2>1, <2>2 DEF Client
<1>8. ASSUME mini = {} \/ Alone
      PROVE  UsesFollowed'
  <2>1. \A d \in Channels, x \in Images, e \in Nat : Used(d, x, e)' =>
          (e = era'[x] /\ Cached(x)') \/ Gone(x, e)'
    BY <1>2, <1>5, <1>6, <1>8
  <2> QED BY <2>1 DEF UsesFollowed
<1>9. ASSUME mini = {} \/ Alone
      PROVE  ImagesFollowed'
  <2> SUFFICES ASSUME NEW x \in images'
               PROVE  Cached(x)' \/ \E e \in Nat : Gone(x, e)'
    BY DEF ImagesFollowed
  <2>1. CASE x \in images /\ (Invalidate(c) => \A e : <<x, e>> \notin Removes(First(c)))
    BY <1>3, <1>4, <1>9, <2>1 DEF Followed, ImagesFollowed
  <2>2. CASE Invalidate(c)
    <3>1. x \in images /\ First(c).clear = {} /\ ~\E e \in First(c).inval : e[1] = x
      BY <2>2 DEF Invalidate
    <3>2. \A e : <<x, e>> \notin Removes(First(c))
      BY <3>1 DEF Removes
    <3> QED BY <2>1, <3>1, <3>2
  <2>3. CASE DrawImage(c) /\ x \notin images
    <3>1. x = First(c).op.id
      BY <2>3 DEF DrawImage
    <3>2. First(c).op \in Ops /\ First(c).op # NoOp
      BY <1>1, <2>3 DEF Message
    <3>3. x \in Images /\ First(c).op.era \in Nat /\ Used(c, x, First(c).op.era)
      BY <1>1, <3>1, <3>2 DEF Ops, Used, Draws
    <3>4. ~Invalidate(c)
      BY <1>1, <2>3
    <3> QED BY <1>5, <1>9, <3>3, <3>4
  <2>4. CASE DrawImage(c) /\ x \in images
    <3>1. ~Invalidate(c)
      BY <1>1, <2>4
    <3> QED BY <2>1, <2>4, <3>1
  <2> QED BY <2>2, <2>3, <2>4 DEF Client
<1> QED BY <1>2, <1>4, <1>7, <1>8, <1>9 DEF Followed

-----------------------------------------------------------------------------
(* The server's steps.                                                     *)

\* What leaves the eras, and the reset that is to come, keeps what is gone.
LEMMA GoneStays ==
  ASSUME Inv, \A x \in Images : era'[x] \in Nat /\ era[x] <= era'[x],
         frozen["source"] /\ generation["target"] = 0 =>
           frozen'["source"] /\ generation'["target"] = 0,
         \A b \in Channels : \A x, e : OnWay(b, x, e) => OnWay(b, x, e)'
  PROVE  \A x \in Images, e \in Nat : Gone(x, e) => Gone(x, e)'
<1>1. \A x \in Images, e \in Nat : e < era[x] => e < era'[x]
  BY DEF Inv, Typed, CacheTypes
<1> QED BY <1>1 DEF Gone

LEMMA SendingFollowed ==
  ASSUME Inv, Inv', Kept, Followed, NEW c \in Channels,
         BeginSend(c) \/ SendUrgent(c) \/ SendMain(c)
  PROVE  Followed'
<1>1. PICK op : Send(c, op) /\ op \in {NoOp, msg[c].op}
  BY DEF BeginSend, SendUrgent, SendMain
<1>2. /\ UNCHANGED <<cacheVars, pipeVars, images>>
      /\ \A d \in Channels \ {c} : msg'[d] = msg[d]
      /\ msg'[c].op \in {NoOp, msg[c].op}
  <2>1. UNCHANGED <<cacheVars, pipeVars, images>>
    BY DEF BeginSend, SendUrgent, SendMain, Send
  <2>2. msg \in [Channels -> Marshalling]
    BY DEF Inv, Typed, SendTypes
  <2>3. \/ msg' = [msg EXCEPT ![c] = Idle]
        \/ msg' = [msg EXCEPT ![c].phase = "main", ![c].evicted = {}]
    BY DEF BeginSend, SendUrgent, SendMain
  <2> QED BY <2>1, <2>2, <2>3 DEF Idle, Marshalling
<1>3. Staged' /\ \A b \in Channels : \A x, e : OnWay(b, x, e) => OnWay(b, x, e)'
  BY <1>1, <1>2, OnWaySent DEF Followed
<1>4. PICK m : /\ m.op = op
               /\ \A d \in Channels \ {c} : net'[d] = net[d]
               /\ DOMAIN net[c] = 1..Len(net[c]) /\ Len(net[c]) \in Nat
               /\ DOMAIN net'[c] = 1..(Len(net[c]) + 1)
               /\ \A i \in DOMAIN net[c] : net'[c][i] = net[c][i]
               /\ net'[c][Len(net[c]) + 1] = m
  BY <1>1, Sent
<1>5. \A x \in Images, e \in Nat : Gone(x, e) => Gone(x, e)'
  <2>1. era' = era /\ frozen' = frozen /\ generation' = generation
    BY <1>2 DEF cacheVars
  <2>2. \A x \in Images : era'[x] \in Nat /\ era[x] <= era'[x]
    BY <2>1 DEF Inv, Typed, CacheTypes
  <2> QED BY <1>3, <2>1, <2>2, GoneStays
<1>6. \A x : (Cached(x)' <=> Cached(x)) /\ era' = era /\ mini' = mini /\ host' = host
  BY <1>2 DEF Cached, InCache, cacheVars, pipeVars
<1>7. ASSUME NEW d \in Channels, NEW x, NEW e, Used(d, x, e)'
      PROVE  Used(d, x, e)
  <2>1. CASE Draws(msg'[d].op, x, e)
    <3>1. Draws(msg[d].op, x, e)
      BY <1>2, <2>1 DEF Draws
    <3> QED BY <3>1 DEF Used
  <2>2. CASE \E i \in DOMAIN net'[d] : Draws(net'[d][i].op, x, e)
    <3>1. PICK i \in DOMAIN net'[d] : Draws(net'[d][i].op, x, e)
      BY <2>2
    <3>2. CASE d # c \/ i \in 1..Len(net[c])
      BY <1>4, <3>1, <3>2 DEF Used
    <3>3. CASE d = c /\ i = Len(net[c]) + 1
      <4>1. Draws(op, x, e)
        BY <1>4, <3>1, <3>3
      <4>2. op = msg[c].op
        BY <1>1, <4>1 DEF Draws
      <4> QED BY <3>3, <4>1, <4>2 DEF Used
    <3> QED BY <1>4, <3>2, <3>3, SentWhere
  <2> QED BY <1>7, <2>1, <2>2 DEF Used, Draws
<1>8. Alone' => Alone
  BY <1>6 DEF Alone
<1> QED BY <1>2, <1>3, <1>5, <1>6, <1>7, <1>8, FollowedStays

\* What is marshalled for c: the removals are there, and the uses that are new are of an
\* entry that is in the cache.
LEMMA MarshalledFollowed ==
  ASSUME Inv, Inv', Kept, Followed, NEW c \in Channels,
         UNCHANGED <<net, stage, images, mini, host>>,
         \A d \in Channels \ {c} : msg'[d] = msg[d],
         msg[c] = Idle \/ (msg'[c].evicted = msg[c].evicted /\ msg'[c].clear = msg[c].clear),
         \A x \in Images : era[x] <= era'[x],
         frozen["source"] /\ generation["target"] = 0 =>
           \/ frozen'["source"] /\ generation'["target"] = 0
           \/ \A x \in Images, e \in Nat : e < era'[x] => <<x, e>> \in msg'[c].clear,
         \A x \in Images, e \in Nat : Cached(x) /\ e = era[x] =>
           (era'[x] = era[x] /\ Cached(x)') \/ (e < era'[x] /\ <<x, e>> \in msg'[c].evicted),
         \A x \in Images, e \in Nat : Draws(msg'[c].op, x, e) =>
           Draws(msg[c].op, x, e) \/ (e = era'[x] /\ Cached(x)')
  PROVE  Followed'
<1>1. Staged' /\ \A b \in Channels : \A x, e : OnWay(b, x, e) => OnWay(b, x, e)'
  BY OnWayMarshalled DEF Followed
<1>2. \A x \in Images : era[x] \in Nat /\ era'[x] \in Nat
  BY DEF Inv, Typed, CacheTypes
<1>3. \A x, e : <<x, e>> \in msg'[c].evicted \cup msg'[c].clear => OnWay(c, x, e)'
  BY DEF OnWay
<1>4. ASSUME NEW x \in Images, NEW e \in Nat, Gone(x, e)
      PROVE  Gone(x, e)'
  <2>1. e < era'[x]
    BY <1>2, <1>4 DEF Gone
  <2>2. CASE frozen["source"] /\ generation["target"] = 0
    BY <1>3, <2>1, <2>2 DEF Gone
  <2>3. CASE \E b \in Channels : OnWay(b, x, e)
    BY <1>1, <2>1, <2>3 DEF Gone
  <2> QED BY <1>4, <2>2, <2>3 DEF Gone
<1>5. \A x \in Images, e \in Nat : Cached(x) /\ e = era[x] =>
        (era'[x] = era[x] /\ Cached(x)') \/ Gone(x, e)'
  BY <1>3 DEF Gone
<1>6. \A d \in Channels, x \in Images, e \in Nat :
        Used(d, x, e)' => Used(d, x, e) \/ (e = era'[x] /\ Cached(x)')
  <2> SUFFICES ASSUME NEW d \in Channels, NEW x \in Images, NEW e \in Nat, Used(d, x, e)'
               PROVE  Used(d, x, e) \/ (e = era'[x] /\ Cached(x)')
    OBVIOUS
  <2>1. CASE Draws(msg'[d].op, x, e)
    BY <2>1 DEF Used
  <2>2. CASE \E i \in DOMAIN net'[d] : Draws(net'[d][i].op, x, e)
    BY <2>2 DEF Used
  <2> QED BY <2>1, <2>2 DEF Used, Draws
<1>7. Alone' => Alone
  BY DEF Alone
<1> QED BY <1>1, <1>4, <1>5, <1>6, <1>7, FollowedStays

LEMMA PixmapSyncFollowed ==
  ASSUME Inv, Inv', Kept, Followed, NEW c \in Channels, MarshallPixmapSync(c)
  PROVE  Followed'
<1> DEFINE waits == {<<initiator[host[c]].client, initiator[host[c]].message>>}
<1>1. /\ UNCHANGED <<cacheVars, mini, host, net, stage, images>>
      /\ msg' = [msg EXCEPT ![c] = Control(waits, {})] /\ msg[c] = Idle
  BY DEF MarshallPixmapSync, clientVars, Ready, Kept, Resting
<1>2. /\ \A d \in Channels \ {c} : msg'[d] = msg[d]
      /\ \A x \in Images, e \in Nat : ~Draws(msg'[c].op, x, e)
  <2>1. msg'[c] = Control(waits, {}) /\ \A d \in Channels \ {c} : msg'[d] = msg[d]
    BY <1>1 DEF Inv, Typed, SendTypes
  <2> QED BY <2>1 DEF Control, Idle, Draws
<1>3. /\ \A x \in Images : era'[x] = era[x] /\ era[x] <= era'[x]
      /\ \A x : Cached(x) <=> Cached(x)'
      /\ frozen' = frozen /\ generation' = generation
  BY <1>1 DEF cacheVars, Cached, InCache, Inv, Typed, CacheTypes
<1> QED BY <1>1, <1>2, <1>3, MarshalledFollowed

LEMMA ResetFollowed ==
  ASSUME Inv, Inv', Kept, Followed, NEW c \in Channels, MarshallReset(c)
  PROVE  Followed'
<1> DEFINE clear == UNION {{x} \X (0..(era[x] - 1)) : x \in Images}
           waits == WaitsOf(c, sync'[host[c]])
<1>1. /\ UNCHANGED <<mini, host, net, stage, images, era>> /\ msg[c] = Idle
      /\ msg' = [msg EXCEPT ![c] = Control(waits, clear)]
      /\ frozen["source"] /\ generation["target"] = 0
  BY DEF MarshallReset, clientVars, Ready, Kept, Resting, Inv, ResetsFollowed, WillReset
<1>2. /\ \A d \in Channels \ {c} : msg'[d] = msg[d]
      /\ msg'[c].clear = clear
      /\ \A x \in Images, e \in Nat : ~Draws(msg'[c].op, x, e)
  <2>1. msg'[c] = Control(waits, clear) /\ \A d \in Channels \ {c} : msg'[d] = msg[d]
    BY <1>1 DEF Inv, Typed, SendTypes
  <2> QED BY <2>1 DEF Control, Idle, Draws
<1>3. \A x \in Images : era[x] \in Nat /\ era[x] <= era'[x]
  BY <1>1 DEF Inv, Typed, CacheTypes
<1>4. ASSUME NEW x \in Images, NEW e \in Nat, e < era'[x]
      PROVE  <<x, e>> \in msg'[c].clear
  <2>1. e \in 0..(era[x] - 1)
    BY <1>1, <1>3, <1>4
  <2> QED BY <1>2, <2>1
<1>5. \A x : ~Cached(x)
  BY <1>1 DEF Cached, InCache, Hosts, Kept, Filled
<1> HIDE DEF clear, waits
<1> QED BY <1>1, <1>2, <1>3, <1>4, <1>5, MarshalledFollowed

LEMMA HitFollowed ==
  ASSUME Inv, Inv', Kept, Followed, NEW c \in Channels, NEW x \in Images,
         MarshallUpgrade(c, x), InCache(host[c], x)
  PROVE  Followed'
<1>1. /\ UNCHANGED <<available, mini, host, net, stage, images, era, frozen, generation>>
      /\ msg[c] = Idle /\ host[c] \in Hosts /\ Touch(host[c], c, x, Serial(c))
      /\ msg' = [msg EXCEPT ![c].phase = "build", ![c].op = Op("get", x)]
  BY DEF MarshallUpgrade, clientVars, Ready, Kept, Resting
<1>2. \A d \in Channels \ {c} : msg'[d] = msg[d]
  BY <1>1 DEF Inv, Typed, SendTypes
<1>3. msg'[c] = [Idle EXCEPT !.phase = "build", !.op = Op("get", x)]
  BY <1>1 DEF Inv, Typed, SendTypes
<1>4. \A y, e : Draws(msg'[c].op, y, e) => y = x /\ e = era[x]
  BY <1>3 DEF Idle, Op, Draws
<1>5. Serial(c) \in Nat
  BY <1>1 DEF Serial, Idle, Inv, Typed, SendTypes
<1>6. \A y : Cached(y) <=> Cached(y)'
  <2>1. \A g \in Hosts : \A y : InCache(g, y)' <=> InCache(g, y)
    BY <1>1, <1>5, TouchKept
  <2> QED BY <2>1 DEF Cached
<1>7. \A y \in Images : era'[y] = era[y] /\ era[y] <= era'[y]
  BY <1>1 DEF Inv, Typed, CacheTypes
<1>8. \A y \in Images, e \in Nat : Draws(msg'[c].op, y, e) => e = era'[y] /\ Cached(y)'
  <2>1. Cached(x)
    BY <1>1 DEF Cached
  <2> QED BY <1>4, <1>6, <1>7, <2>1
<1>9. msg[c] = Idle /\ \A y \in Images : Cached(y) => era'[y] = era[y] /\ Cached(y)'
  BY <1>1, <1>6, <1>7
<1> QED BY <1>1, <1>2, <1>7, <1>8, <1>9, MarshalledFollowed

LEMMA AddFollowed ==
  ASSUME Inv, Inv', Kept, Followed, NEW c \in Channels, NEW x \in Images,
         MarshallUpgrade(c, x), ~InCache(host[c], x)
  PROVE  Followed'
<1>a. PICK h \in Hosts : h = host[c]
  BY DEF MarshallUpgrade, Ready
<1>1. /\ UNCHANGED <<mini, host, net, stage, images, frozen, generation>>
      /\ msg[c] = Idle /\ Add(h, c, x) /\ ~InCache(h, x)
  BY <1>a DEF MarshallUpgrade, clientVars, Ready, Kept, Resting
<1>2. CASE generation[h] # gen[c]
  <2>1. /\ msg' = [msg EXCEPT ![c].phase = "build"] /\ lru' = lru /\ era' = era
    BY <1>1, <1>2 DEF Add
  <2>2. /\ \A d \in Channels \ {c} : msg'[d] = msg[d]
        /\ \A y, e : ~Draws(msg'[c].op, y, e)
    BY <1>1, <2>1 DEF Inv, Typed, SendTypes, Idle, Draws
  <2>3. \A y \in Images : era'[y] = era[y] /\ era[y] <= era'[y] /\ (Cached(y) <=> Cached(y)')
    BY <2>1 DEF Inv, Typed, CacheTypes, Cached, InCache
  <2> QED BY <1>1, <2>2, <2>3, MarshalledFollowed
<1>3. CASE generation[h] = gen[c]
  <2>1. /\ \A g \in Hosts \ {h} : lru'[g] = lru[g]
        /\ \A y \in Images : era'[y] = era[y] +
             (IF InCache(h, y) /\ ~InCache(h, y)' THEN 1 ELSE 0)
        /\ \A d \in Channels \ {c} : msg'[d] = msg[d]
    BY <1>1, <1>3, Added
  <2>a. \A y, e : Draws(msg'[c].op, y, e) =>
          y = x /\ e = era[x] /\ InCache(h, x)' /\ used'[h][x][c] = Serial(c)
          /\ sync'[h][c] = Serial(c)
    BY <1>1, <1>3, Added
  <2>b. \A y : InCache(h, y) /\ ~InCache(h, y)' => <<y, era[y]>> \in msg'[c].evicted
    BY <1>1, <1>3, Added
  <2>2. ASSUME NEW y \in Images
        PROVE  era[y] \in Nat /\ era[y] <= era'[y]
    <3>1. era[y] \in Nat /\ (era'[y] = era[y] \/ era'[y] = era[y] + 1)
      BY <2>1 DEF Inv, Typed, CacheTypes
    <3> QED BY <3>1
  <2>3. ASSUME NEW y \in Images, NEW e \in Nat, Cached(y), e = era[y]
        PROVE  (era'[y] = era[y] /\ Cached(y)') \/ (e < era'[y] /\ <<y, e>> \in msg'[c].evicted)
    <3>1. PICK g \in Hosts : InCache(g, y)
      BY <2>3 DEF Cached
    <3>2. CASE g # h
      <4>1. InCache(g, y)' /\ ~InCache(h, y)
        BY <2>1, <3>1, <3>2, OneCache DEF InCache
      <4> QED BY <2>1, <2>2, <4>1 DEF Cached
    <3>3. CASE g = h /\ InCache(h, y)'
      BY <2>1, <2>2, <3>3 DEF Cached
    <3>4. CASE g = h /\ ~InCache(h, y)'
      <4>1. era'[y] = era[y] + 1 /\ <<y, era[y]>> \in msg'[c].evicted
        BY <2>1, <2>b, <3>1, <3>4
      <4> QED BY <2>2, <2>3, <4>1
    <3> QED BY <3>2, <3>3, <3>4
  <2>4. ASSUME NEW y \in Images, NEW e \in Nat, Draws(msg'[c].op, y, e)
        PROVE  e = era'[y] /\ Cached(y)'
    <3>1. y = x /\ e = era[x] /\ InCache(h, x)'
      BY <2>a, <2>4
    <3> QED BY <1>1, <2>1, <2>2, <3>1 DEF Cached
  <2> QED BY <1>1, <2>1, <2>2, <2>3, <2>4, MarshalledFollowed
<1> QED BY <1>2, <1>3

LEMMA SwitchToUrgentFollowed ==
  ASSUME Inv, Inv', Kept, Followed, NEW c \in Channels, SwitchToUrgent(c)
  PROVE  Followed'
<1>1. /\ UNCHANGED <<available, mini, host, net, stage, images, era, frozen, generation>>
      /\ host[c] \in Hosts /\ msg' = [msg EXCEPT ![c].phase = "urgent"]
  BY DEF SwitchToUrgent, clientVars, pipeVars, Inv, Connected
<1>2. /\ \A d \in Channels \ {c} : msg'[d] = msg[d]
      /\ msg'[c].evicted = msg[c].evicted /\ msg'[c].clear = msg[c].clear
      /\ msg'[c].op = msg[c].op
  BY <1>1 DEF Inv, Typed, SendTypes, Marshalling
<1>3. \A y : Cached(y) <=> Cached(y)'
  <2>1. CASE msg[c].op # NoOp /\ InCache(host[c], msg[c].op.id)
    <3>1. msg[c].op.id \in Images /\ last[c] + 2 \in Nat
      BY <2>1 DEF Inv, Typed, SendTypes, Marshalling, Ops
    <3>2. Touch(host[c], c, msg[c].op.id, last[c] + 2)
      BY <2>1 DEF SwitchToUrgent
    <3>3. \A g \in Hosts : \A y : InCache(g, y)' <=> InCache(g, y)
      BY <1>1, <2>1, <3>1, <3>2, TouchKept
    <3> QED BY <3>3 DEF Cached
  <2>2. CASE ~(msg[c].op # NoOp /\ InCache(host[c], msg[c].op.id))
    BY <2>2 DEF SwitchToUrgent, Cached, InCache
  <2> QED BY <2>1, <2>2
<1>4. \A y \in Images : era'[y] = era[y] /\ era[y] <= era'[y]
  BY <1>1 DEF Inv, Typed, CacheTypes
<1>5. \A y \in Images, e \in Nat : Draws(msg'[c].op, y, e) => Draws(msg[c].op, y, e)
  BY <1>2 DEF Draws
<1> QED BY <1>1, <1>2, <1>3, <1>4, <1>5, MarshalledFollowed

LEMMA MarshallMigrateDataFollowed ==
  ASSUME Inv, Inv', Kept, Followed, NEW c \in Channels, MarshallMigrateData(c)
  PROVE  Followed'
<1>1. /\ host[c] = "source" /\ host' = [host EXCEPT ![c] = "moving"]
      /\ frozen' = [frozen EXCEPT !["source"] = TRUE]
      /\ lru' = [lru EXCEPT !["source"] = <<>>]
      /\ era' = (IF frozen["source"] THEN era ELSE [x \in Images |-> era[x] + 1])
      /\ Send(c, NoOp) /\ UNCHANGED <<generation, mini, msg, images>>
  BY DEF MarshallMigrateData, Ready, Send
<1>2. Staged' /\ \A b \in Channels : \A x, e : OnWay(b, x, e) => OnWay(b, x, e)'
  BY <1>1, OnWaySent DEF Followed
<1>3. frozen'["source"] /\ (~frozen["source"] => generation'["target"] = 0)
  BY <1>1 DEF Inv, Typed, CacheTypes, ResetsFollowed, Hosts
<1>4. \A x \in Images : /\ era[x] \in Nat /\ era'[x] \in Nat /\ era[x] <= era'[x]
                        /\ ~frozen["source"] => era[x] < era'[x]
  BY <1>1 DEF Inv, Typed, CacheTypes
<1>5. \A x \in Images, e \in Nat : Gone(x, e) => Gone(x, e)'
  BY <1>1, <1>2, <1>3, <1>4, GoneStays
<1>6. ASSUME NEW x \in Images, NEW e \in Nat, Cached(x), e = era[x]
      PROVE  (era'[x] = era[x] /\ Cached(x)') \/ Gone(x, e)'
  <2>1. CASE ~frozen["source"]
    BY <1>3, <1>4, <1>6, <2>1 DEF Gone
  <2>2. CASE frozen["source"]
    <3>1. lru["source"] = <<>>
      BY <2>2 DEF Kept, Filled
    <3>2. \A g \in Hosts : lru'[g] = lru[g]
      BY <1>1, <3>1 DEF Inv, Typed, CacheTypes, Hosts
    <3> QED BY <1>1, <1>6, <2>2, <3>2 DEF Cached, InCache
  <2> QED BY <2>1, <2>2
<1>7. ASSUME NEW d \in Channels, NEW x \in Images, NEW e \in Nat, Used(d, x, e)'
      PROVE  Used(d, x, e)
  <2>1. CASE Draws(msg'[d].op, x, e)
    BY <1>1, <2>1 DEF Used
  <2>2. CASE \E i \in DOMAIN net'[d] : Draws(net'[d][i].op, x, e)
    <3>1. PICK m : /\ m.op = NoOp
                   /\ \A b \in Channels \ {c} : net'[b] = net[b]
                   /\ DOMAIN net[c] = 1..Len(net[c]) /\ Len(net[c]) \in Nat
                   /\ DOMAIN net'[c] = 1..(Len(net[c]) + 1)
                   /\ \A i \in DOMAIN net[c] : net'[c][i] = net[c][i]
                   /\ net'[c][Len(net[c]) + 1] = m
      BY <1>1, Sent
    <3>2. PICK i \in DOMAIN net'[d] : Draws(net'[d][i].op, x, e)
      BY <2>2
    <3>3. CASE d # c \/ i \in 1..Len(net[c])
      BY <3>1, <3>2, <3>3 DEF Used
    <3>4. ~(d = c /\ i = Len(net[c]) + 1)
      BY <3>1, <3>2 DEF Draws
    <3> QED BY <3>1, <3>3, <3>4, SentWhere
  <2> QED BY <1>7, <2>1, <2>2 DEF Used, Draws
<1>8. Alone' => Alone
  BY <1>1 DEF Alone, Inv, Typed, PipeTypes
<1> QED BY <1>1, <1>2, <1>5, <1>6, <1>7, <1>8, FollowedStays

LEMMA HandleMigrateDataFollowed ==
  ASSUME Inv, Inv', Kept, Followed, NEW c \in Channels, HandleMigrateData(c)
  PROVE  Followed'
<1>1. /\ host[c] = "moving" /\ host' = [host EXCEPT ![c] = "target"]
      /\ UNCHANGED <<lru, frozen, generation, era, mini, msg, net, stage, images>>
  BY DEF HandleMigrateData, clientVars
<1>2. /\ Staged' /\ \A x, e : Gone(x, e) => Gone(x, e)'
      /\ \A x : era' = era /\ (Cached(x) <=> Cached(x)')
      /\ \A d \in Channels : \A x, e : Used(d, x, e)' <=> Used(d, x, e)
  BY <1>1 DEF Followed, Staged, Gone, OnWay, Removes, Cached, InCache, Used, Draws
<1>3. Alone' => Alone
  BY <1>1 DEF Alone, Inv, Typed, PipeTypes
<1> QED BY <1>1, <1>2, <1>3, FollowedStays

LEMMA InitFollowed == ASSUME Init PROVE Followed
<1>1. \A c \in Channels : msg[c].op = NoOp /\ net[c] = <<>> /\ DOMAIN net[c] = {}
  BY DEF Init, Idle
<1>2. \A c \in Channels : \A x, e : ~Used(c, x, e)
  BY <1>1 DEF Used, Draws
<1> QED BY <1>1, <1>2 DEF Init, Followed, Staged, UsesFollowed, ImagesFollowed

LEMMA NextFollowed ==
  ASSUME Inv, Inv', Kept, Followed, [Next]_vars
  PROVE  Followed'
<1>1. CASE UNCHANGED vars
  <2>1. /\ \A x, e : Gone(x, e)' <=> Gone(x, e)
        /\ \A x : Cached(x)' <=> Cached(x)
        /\ \A d \in Channels : \A x, e : Used(d, x, e)' <=> Used(d, x, e)
    BY <1>1 DEF vars, Gone, OnWay, Removes, Cached, InCache, Used, Draws
  <2>2. UNCHANGED <<images, mini, era, host>> /\ Staged'
    BY <1>1 DEF vars, Followed, Staged
  <2>3. Alone' => Alone
    BY <2>2 DEF Alone
  <2> QED BY <2>1, <2>2, <2>3, FollowedStays
<1>2. ASSUME NEW c \in Channels, NEW x \in Images, MarshallUpgrade(c, x)
      PROVE  Followed'
  BY <1>2, HitFollowed, AddFollowed
<1>3. ASSUME NEW c \in Channels,
             \/ MarshallPixmapSync(c) \/ MarshallReset(c)
             \/ BeginSend(c) \/ SwitchToUrgent(c) \/ SendUrgent(c) \/ SendMain(c)
             \/ MarshallMigrateData(c) \/ HandleMigrateData(c)
             \/ Client(c)
      PROVE  Followed'
  BY <1>3, PixmapSyncFollowed, ResetFollowed, SendingFollowed, SwitchToUrgentFollowed,
     MarshallMigrateDataFollowed, HandleMigrateDataFollowed, ClientFollowed
<1> QED BY <1>1, <1>2, <1>3 DEF Next, Worker

LEMMA FollowedMeans == ASSUME Followed PROVE NothingForgotten
<1> SUFFICES ASSUME mini = {} \/ Alone, NEW x \in images, ~Cached(x)
             PROVE  Leaving(x)
  BY DEF NothingForgotten, Cached
<1>1. PICK e \in Nat : Gone(x, e)
  BY DEF Followed, ImagesFollowed
<1>2. CASE frozen["source"] /\ generation["target"] = 0
  BY <1>2 DEF Leaving
<1>3. CASE \E c \in Channels : OnWay(c, x, e)
  <2>1. PICK c \in Channels : OnWay(c, x, e)
    BY <1>3
  <2>2. \A S : <<x, e>> \in S => S # {} /\ \E f \in S : f[1] = x
    <3>1. <<x, e>>[1] = x
      OBVIOUS
    <3> QED BY <3>1
  <2>3. CASE <<x, e>> \in msg[c].evicted \cup msg[c].clear
    BY <2>2, <2>3 DEF Leaving
  <2>4. CASE \E i \in DOMAIN net[c] :
               (i = 1 => stage[c] = "wait") /\ <<x, e>> \in Removes(net[c][i])
    BY <2>2, <2>4 DEF Leaving, Removes
  <2> QED BY <2>1, <2>3, <2>4 DEF OnWay
<1> QED BY <1>1, <1>2, <1>3 DEF Gone

\* pixmap_cache_unlocked_add, the free lists and the resets on the one side, the client's
\* cache on the other: the client keeps no image that the server has forgotten.
THEOREM ForgottenNever == Spec => []NothingForgotten
<1>1. Init => Inv /\ Kept /\ Followed
  BY InitInv, InitKept, InitFollowed
<1>2. Inv /\ Kept /\ Followed /\ [Next]_vars => Inv' /\ Kept' /\ Followed'
  BY NextInv, NextKept, NextFollowed
<1>3. Followed => NothingForgotten
  BY FollowedMeans
<1> QED BY <1>1, <1>2, <1>3, PTL DEF Spec

-----------------------------------------------------------------------------
(***************************************************************************)
(* With one display channel the client has what the server counts on: an   *)
(* image of the server's cache is there, or a message that draws it is to  *)
(* come (Present), and no removal of it comes after the last such message. *)
(***************************************************************************)

\* Message s of channel c, which is to be drawn, draws the image;
DrawnAt(c, x, s) == \E e \in Nat : Uses(c, x, e, s)

\* message r, which is to be carried out or sent, removes it.
RemovedAt(c, x, r) ==
  \/ r = last[c] + 1 /\ (msg[c].clear # {} \/ \E e \in msg[c].evicted : e[1] = x)
  \/ \E i \in DOMAIN net[c] :
       /\ i = 1 => stage[c] = "wait"
       /\ r = net[c][i].serial
       /\ net[c][i].clear # {} \/ \E e \in net[c][i].inval : e[1] = x

\* A message has a free list, or removes everything; the latter is never urgent.
OneKind ==
  \A c \in Channels :
    /\ msg[c].evicted = {} \/ msg[c].clear = {}
    /\ msg[c].phase = "urgent" => msg[c].clear = {}

ToCome(c, x) ==
  /\ x \in images \/ \E s \in Nat : DrawnAt(c, x, s)
  /\ \A r \in Nat : RemovedAt(c, x, r) => \E s \in Nat : DrawnAt(c, x, s) /\ r <= s

Present ==
  Alone => \A c \in Channels, x \in Images : host[c] # "closed" /\ Cached(x) => ToCome(c, x)

\* A step of the server: what stays in the cache was there, and what draws or removes it
\* goes on; or a message that draws it is the last one.
LEMMA PresentStays ==
  ASSUME Present, NEW c \in Channels, host[c] # "closed", images' = images,
         Alone' => Alone, \A b \in Channels : host'[b] = "closed" <=> host[b] = "closed",
         \A x \in Images : Cached(x)' =>
           \/ \E s \in Nat : DrawnAt(c, x, s)' /\ \A r \in Nat : RemovedAt(c, x, r)' => r <= s
           \/ /\ Cached(x)
              /\ \A s \in Nat : DrawnAt(c, x, s) => \E t \in Nat : DrawnAt(c, x, t)' /\ s <= t
              /\ \A r \in Nat : RemovedAt(c, x, r)' => RemovedAt(c, x, r)
  PROVE  Present'
<1> SUFFICES ASSUME Alone', NEW b \in Channels, NEW x \in Images, host'[b] # "closed", Cached(x)'
             PROVE  ToCome(b, x)'
  BY DEF Present
<1>1. b = c /\ Alone
  BY DEF Alone
<1>2. CASE \E s \in Nat : DrawnAt(c, x, s)' /\ \A r \in Nat : RemovedAt(c, x, r)' => r <= s
  BY <1>1, <1>2 DEF ToCome
<1>3. CASE /\ Cached(x)
           /\ \A s \in Nat : DrawnAt(c, x, s) => \E t \in Nat : DrawnAt(c, x, t)' /\ s <= t
           /\ \A r \in Nat : RemovedAt(c, x, r)' => RemovedAt(c, x, r)
  <2>1. ToCome(c, x)
    BY <1>1, <1>3 DEF Present
  <2>2. x \in images' \/ \E s \in Nat : DrawnAt(c, x, s)'
    BY <1>3, <2>1 DEF ToCome
  <2>3. ASSUME NEW r \in Nat, RemovedAt(c, x, r)'
        PROVE  \E s \in Nat : DrawnAt(c, x, s)' /\ r <= s
    <3>1. PICK s \in Nat : DrawnAt(c, x, s) /\ r <= s
      BY <1>3, <2>1, <2>3 DEF ToCome
    <3>2. PICK t \in Nat : DrawnAt(c, x, t)' /\ s <= t
      BY <1>3, <3>1
    <3>3. r <= t
      BY <3>1, <3>2
    <3> QED BY <3>2, <3>3
  <2> QED BY <1>1, <2>2, <2>3 DEF ToCome
<1> QED BY <1>2, <1>3

\* What the client does to the messages that draw and remove.
LEMMA DrawnClient ==
  ASSUME Inv, Kept, Staged, NEW c \in Channels, Client(c), NEW x
  PROVE  /\ \A s : DrawnAt(c, x, s) =>
              DrawnAt(c, x, s)' \/ (DrawImage(c) /\ x = First(c).op.id /\ s = First(c).serial)
         /\ \A r : RemovedAt(c, x, r)' =>
              RemovedAt(c, x, r) /\ (DrawImage(c) => r > First(c).serial)
<1>1. /\ UNCHANGED <<last, msg>> /\ 1 \in DOMAIN net[c] /\ First(c) = net[c][1]
      /\ Len(net[c]) \in Nat /\ DOMAIN net[c] = 1..Len(net[c]) /\ last[c] \in Nat
      /\ DrawImage(c) => stage[c] = "draw" /\ First(c).op # NoOp
      /\ Invalidate(c) => stage[c] = "wait"
      /\ done[c] \in Nat /\ done[c] = last[c] - Len(net[c])
      /\ \A i \in DOMAIN net[c] : net[c][i].serial = done[c] + i
  BY ClientMoves, NetSeq DEF Kept, Numbered
<1>2. First(c).serial = done[c] + 1 /\ last[c] + 1 > done[c] + 1
  BY <1>1
<1>3. Serial(c)' = Serial(c)
  BY <1>1 DEF Serial
<1>4. CASE Invalidate(c) /\ net' = net /\ stage' = [stage EXCEPT ![c] = "draw"]
  <2>1. ~DrawImage(c)
    BY <1>1, <1>4
  <2>2. \A s : DrawnAt(c, x, s) => DrawnAt(c, x, s)'
    BY <1>1, <1>3, <1>4 DEF DrawnAt, Uses
  <2>3. stage'[c] = "draw"
    BY <1>4 DEF Staged
  <2>4. \A r : RemovedAt(c, x, r)' => RemovedAt(c, x, r)
    BY <1>1, <1>4, <2>3 DEF RemovedAt
  <2> QED BY <2>1, <2>2, <2>4
<1>5. CASE /\ net' = [net EXCEPT ![c] = Tail(@)] /\ stage' = [stage EXCEPT ![c] = "wait"]
           /\ DrawImage(c) \/ First(c).op = NoOp
           /\ DOMAIN net'[c] = 1..(Len(net[c]) - 1)
           /\ \A i \in DOMAIN net'[c] : i + 1 \in DOMAIN net[c] /\ net'[c][i] = net[c][i + 1]
  <2>1. ASSUME NEW s, DrawnAt(c, x, s)
        PROVE  DrawnAt(c, x, s)' \/ (DrawImage(c) /\ x = First(c).op.id /\ s = First(c).serial)
    <3>1. PICK e \in Nat : Uses(c, x, e, s)
      BY <2>1 DEF DrawnAt
    <3>2. CASE Draws(msg[c].op, x, e) /\ s = Serial(c)
      BY <1>1, <1>3, <3>2 DEF DrawnAt, Uses
    <3>3. CASE \E i \in DOMAIN net[c] : Draws(net[c][i].op, x, e) /\ s = net[c][i].serial
      <4>1. PICK i \in DOMAIN net[c] : Draws(net[c][i].op, x, e) /\ s = net[c][i].serial
        BY <3>3
      <4>2. CASE i = 1
        BY <1>1, <1>5, <4>1, <4>2 DEF Draws
      <4>3. CASE i # 1
        <5>1. PICK k \in 1..(Len(net[c]) - 1) : i = k + 1
          <6>1. i \in 1..Len(net[c]) /\ i - 1 \in 1..(Len(net[c]) - 1) /\ i = (i - 1) + 1
            BY <1>1, <4>1, <4>3
          <6> QED BY <6>1
        <5>2. k \in DOMAIN net'[c] /\ net'[c][k] = net[c][i]
          BY <1>5, <5>1
        <5>3. Uses(c, x, e, s)'
          BY <4>1, <5>2 DEF Uses, Draws
        <5> QED BY <5>3 DEF DrawnAt
      <4> QED BY <4>2, <4>3
    <3> QED BY <3>1, <3>2, <3>3 DEF Uses
  <2>2. ASSUME NEW r, RemovedAt(c, x, r)'
        PROVE  RemovedAt(c, x, r) /\ r > First(c).serial
    <3>1. CASE r = last'[c] + 1 /\ (msg'[c].clear # {} \/ \E e \in msg'[c].evicted : e[1] = x)
      BY <1>1, <1>2, <3>1 DEF RemovedAt
    <3>2. CASE \E i \in DOMAIN net'[c] :
                 /\ r = net'[c][i].serial
                 /\ net'[c][i].clear # {} \/ \E e \in net'[c][i].inval : e[1] = x
      <4>1. PICK i \in DOMAIN net'[c] :
                 /\ r = net'[c][i].serial
                 /\ net'[c][i].clear # {} \/ \E e \in net'[c][i].inval : e[1] = x
        BY <3>2
      <4>2. i + 1 \in DOMAIN net[c] /\ net'[c][i] = net[c][i + 1] /\ i \in Int /\ i >= 1
        BY <1>1, <1>5
      <4>3. i + 1 # 1 /\ r = done[c] + (i + 1)
        BY <1>1, <4>1, <4>2
      <4>4. RemovedAt(c, x, r)
        BY <4>1, <4>2, <4>3 DEF RemovedAt
      <4> QED BY <1>1, <1>2, <4>2, <4>3, <4>4
    <3> QED BY <2>2, <3>1, <3>2 DEF RemovedAt
  <2> QED BY <2>1, <2>2
<1> QED BY <1>4, <1>5, ClientMoves

LEMMA ClientPresent ==
  ASSUME Inv, Kept, Staged, Present, NEW c \in Channels, Client(c)
  PROVE  Present'
<1>1. /\ UNCHANGED <<cacheVars, pipeVars, last, msg>> /\ net[c] # <<>>
      /\ 1 \in DOMAIN net[c] /\ First(c) = net[c][1] /\ First(c) \in Message
      /\ Invalidate(c) => stage[c] = "wait"
      /\ DrawImage(c) => stage[c] = "draw"
  BY ClientMoves
<1> SUFFICES ASSUME Alone', NEW b \in Channels, NEW x \in Images, host'[b] # "closed", Cached(x)'
             PROVE  ToCome(b, x)'
  BY DEF Present
<1>2. host[c] # "closed" /\ host' = host
  BY <1>1 DEF Kept, Resting, pipeVars
<1>3. b = c /\ Alone /\ Cached(x)
  BY <1>1, <1>2 DEF Alone, Cached, InCache, cacheVars
<1>4. ToCome(c, x)
  BY <1>2, <1>3 DEF Present
<1>5. /\ \A s : DrawnAt(c, x, s) =>
           DrawnAt(c, x, s)' \/ (DrawImage(c) /\ x = First(c).op.id /\ s = First(c).serial)
      /\ \A r : RemovedAt(c, x, r)' =>
           RemovedAt(c, x, r) /\ (DrawImage(c) => r > First(c).serial)
  BY DrawnClient
<1>6. First(c).serial \in Nat
  BY <1>1 DEF Message
<1>7. x \in images' \/ \E s \in Nat : DrawnAt(c, x, s)'
  <2>1. CASE DrawImage(c)
    <3>1. images' = images \cup {First(c).op.id}
      BY <2>1 DEF DrawImage
    <3> QED BY <1>4, <1>5, <3>1 DEF ToCome
  <2>2. CASE Invalidate(c)
    <3>1. ~DrawImage(c)
      BY <1>1, <2>2
    <3>2. CASE x \in images /\ x \notin images'
      <4>1. First(c).clear # {} \/ \E e \in First(c).inval : e[1] = x
        BY <2>2, <3>2 DEF Invalidate
      <4>2. RemovedAt(c, x, First(c).serial)
        BY <1>1, <2>2, <4>1 DEF RemovedAt
      <4> QED BY <1>4, <1>5, <1>6, <3>1, <4>2 DEF ToCome
    <3> QED BY <1>4, <1>5, <3>1, <3>2 DEF ToCome
  <2> QED BY <2>1, <2>2 DEF Client
<1>8. ASSUME NEW r \in Nat, RemovedAt(c, x, r)'
      PROVE  \E s \in Nat : DrawnAt(c, x, s)' /\ r <= s
  <2>1. PICK s \in Nat : DrawnAt(c, x, s) /\ r <= s
    BY <1>4, <1>5, <1>8 DEF ToCome
  <2>2. DrawImage(c) => s # First(c).serial
    BY <1>5, <1>6, <1>8, <2>1
  <2> QED BY <1>5, <2>1, <2>2
<1> QED BY <1>3, <1>7, <1>8 DEF ToCome

-----------------------------------------------------------------------------
(* The server's steps.                                                     *)

\* What is sent takes the image and the removals along, under the serial they had.
LEMMA SentPresent ==
  ASSUME Inv, Inv', Kept, Present, NEW c \in Channels, NEW op, Send(c, op), host[c] # "closed",
         msg'[c].clear = {}, msg'[c].evicted = {},
         \A x, e : Draws(msg[c].op, x, e) =>
           \/ Draws(op, x, e) /\ Serial(c) = last[c] + 1
           \/ Draws(msg'[c].op, x, e) /\ Serial(c)' = Serial(c),
         Alone' => Alone, \A b \in Channels : host'[b] = "closed" <=> host[b] = "closed",
         \A x \in Images : Cached(x)' => Cached(x)
  PROVE  Present'
<1>1. PICK m : /\ m = [serial |-> last[c] + 1,
                       waits |-> msg[c].waits \cup
                         (IF msg[c].evicted = {} THEN {} ELSE WaitsOf(c, msg[c].sync)),
                       inval |-> msg[c].evicted, clear |-> msg[c].clear, op |-> op]
               /\ net' = [net EXCEPT ![c] = Append(@, m)]
  BY DEF Send
<1>2. /\ m.serial = last[c] + 1 /\ m.op = op
      /\ m.inval = msg[c].evicted /\ m.clear = msg[c].clear
  BY <1>1
<1>a. net' = [net EXCEPT ![c] = Append(@, m)]
  BY <1>1
<1>3. /\ DOMAIN net'[c] = 1..(Len(net[c]) + 1)
      /\ \A i \in DOMAIN net[c] : net'[c][i] = net[c][i]
      /\ net'[c][Len(net[c]) + 1] = m
      /\ Len(net[c]) \in Nat /\ DOMAIN net[c] = 1..Len(net[c])
  <2>1. Len(net[c]) \in Nat /\ DOMAIN net[c] = 1..Len(net[c])
    BY NetSeq
  <2>2. /\ DOMAIN net'[c] = 1..(Len(net[c]) + 1)
        /\ \A i \in DOMAIN net[c] : net'[c][i] = net[c][i]
        /\ net'[c][Len(net[c]) + 1] = m
    BY <1>a, Longer
  <2> QED BY <2>1, <2>2
<1>4. stage' = stage /\ images' = images
  BY DEF Send
<1>5. ASSUME NEW x, NEW s, DrawnAt(c, x, s)
      PROVE  DrawnAt(c, x, s)'
  <2>1. PICK e \in Nat : Uses(c, x, e, s)
    BY <1>5 DEF DrawnAt
  <2>2. CASE \E i \in DOMAIN net[c] : Draws(net[c][i].op, x, e) /\ s = net[c][i].serial
    <3>1. \E i \in DOMAIN net'[c] : Draws(net'[c][i].op, x, e) /\ s = net'[c][i].serial
      BY <1>3, <2>2
    <3> QED BY <3>1 DEF DrawnAt, Uses, Draws
  <2>3. CASE Draws(msg[c].op, x, e) /\ s = Serial(c)
    <3>1. CASE Draws(op, x, e) /\ Serial(c) = last[c] + 1
      <4>1. Len(net[c]) + 1 \in DOMAIN net'[c]
        BY <1>3
      <4>2. \E i \in DOMAIN net'[c] : Draws(net'[c][i].op, x, e) /\ s = net'[c][i].serial
        BY <1>2, <1>3, <2>3, <3>1, <4>1
      <4> QED BY <4>2 DEF DrawnAt, Uses, Draws
    <3>2. CASE Draws(msg'[c].op, x, e) /\ Serial(c)' = Serial(c)
      BY <2>3, <3>2 DEF DrawnAt, Uses, Draws
    <3> QED BY <2>3, <3>1, <3>2
  <2> QED BY <2>1, <2>2, <2>3 DEF Uses
<1>6. ASSUME NEW x, NEW r, RemovedAt(c, x, r)'
      PROVE  RemovedAt(c, x, r)
  <2>1. PICK i \in DOMAIN net'[c] :
               /\ i = 1 => stage'[c] = "wait"
               /\ r = net'[c][i].serial
               /\ net'[c][i].clear # {} \/ \E e \in net'[c][i].inval : e[1] = x
    BY <1>6 DEF RemovedAt
  <2>2. CASE i \in 1..Len(net[c])
    BY <1>3, <1>4, <2>1, <2>2 DEF RemovedAt
  <2>3. CASE i = Len(net[c]) + 1
    BY <1>2, <1>3, <2>1, <2>3 DEF RemovedAt
  <2> QED BY <1>3, <2>2, <2>3, SentWhere
<1>7. \A s \in Nat : s <= s
  OBVIOUS
<1> QED BY <1>4, <1>5, <1>6, <1>7, PresentStays

LEMMA SendingPresent ==
  ASSUME Inv, Inv', Kept, OneKind, Present, NEW c \in Channels,
         BeginSend(c) \/ SendUrgent(c) \/ SendMain(c)
  PROVE  Present'
<1>1. /\ UNCHANGED <<cacheVars, pipeVars>> /\ host[c] # "closed"
      /\ msg \in [Channels -> Marshalling] /\ last[c] \in Nat
  <2>1. UNCHANGED <<cacheVars, pipeVars>>
    BY DEF BeginSend, SendUrgent, SendMain
  <2>2. Ready(c) \/ msg[c].phase \in {"build", "urgent", "main"}
    BY DEF BeginSend, SendUrgent, SendMain
  <2>3. host[c] \in Hosts
    BY <2>2 DEF Ready, Inv, Connected
  <2> QED BY <2>1, <2>3 DEF Hosts, Inv, Typed, SendTypes
<1>2. (Alone' => Alone) /\ \A x \in Images : Cached(x)' => Cached(x)
  BY <1>1 DEF Alone, Cached, InCache, cacheVars, pipeVars
<1>3. CASE BeginSend(c) \/ SendMain(c)
  <2>1. Send(c, msg[c].op) /\ msg'[c] = Idle
    BY <1>1, <1>3 DEF BeginSend, SendMain
  <2>2. Serial(c) = last[c] + 1
    BY <1>3 DEF BeginSend, SendMain, Serial, Ready
  <2>3. msg'[c].clear = {} /\ msg'[c].evicted = {}
    BY <2>1 DEF Idle
  <2>4. \A b \in Channels : host'[b] = "closed" <=> host[b] = "closed"
    BY <1>1 DEF pipeVars
  <2> QED BY <1>1, <1>2, <2>1, <2>2, <2>3, <2>4, SentPresent
<1>4. CASE SendUrgent(c)
  <2>1. /\ Send(c, NoOp) /\ msg[c].phase = "urgent" /\ msg[c].clear = {}
        /\ msg'[c] = [msg[c] EXCEPT !.phase = "main", !.evicted = {}]
    BY <1>1, <1>4 DEF SendUrgent, OneKind
  <2>2. /\ msg'[c].phase = "main" /\ msg'[c].evicted = {}
        /\ msg'[c].clear = {} /\ msg'[c].op = msg[c].op
    BY <1>1, <2>1 DEF Marshalling
  <2>3. last'[c] = last[c] + 1
    BY <2>1 DEF Send, Inv, Typed, SendTypes
  <2>4. Serial(c)' = Serial(c)
    BY <1>1, <2>1, <2>2, <2>3 DEF Serial
  <2>5. \A x, e : Draws(msg[c].op, x, e) => Draws(msg'[c].op, x, e)
    BY <2>2 DEF Draws
  <2>6. \A b \in Channels : host'[b] = "closed" <=> host[b] = "closed"
    BY <1>1 DEF pipeVars
  <2> QED BY <1>1, <1>2, <2>1, <2>2, <2>4, <2>5, <2>6, SentPresent
<1> QED BY <1>3, <1>4

\* What is marshalled: an image stays in the cache and no removal of it is new, or the
\* message draws it.
LEMMA MarshalledPresent ==
  ASSUME Inv, Inv', Kept, Present, NEW c \in Channels, host[c] # "closed",
         UNCHANGED <<net, stage, images, last, host>>, msg[c] = Idle, msg'[c].phase # "urgent",
         \A x \in Images : Cached(x)' =>
           \/ /\ Cached(x)
              /\ msg'[c].clear = {} /\ ~\E e \in msg'[c].evicted : e[1] = x
           \/ \E e \in Nat : Draws(msg'[c].op, x, e)
  PROVE  Present'
<1>1. Serial(c)' = last[c] + 1 /\ last[c] \in Nat
  BY DEF Serial, Inv, Typed, SendTypes
<1>2. \A x, e : ~Draws(msg[c].op, x, e)
  BY DEF Idle, Draws
<1>3. ASSUME NEW x \in Images, \E e \in Nat : Draws(msg'[c].op, x, e)
      PROVE  \E s \in Nat : DrawnAt(c, x, s)' /\ \A r \in Nat : RemovedAt(c, x, r)' => r <= s
  <2>1. DrawnAt(c, x, last[c] + 1)'
    BY <1>1, <1>3 DEF DrawnAt, Uses, Draws
  <2>2. ASSUME NEW r \in Nat, RemovedAt(c, x, r)'
        PROVE  r <= last[c] + 1
    <3>1. CASE r = last[c] + 1
      BY <1>1, <3>1
    <3>2. CASE \E i \in DOMAIN net[c] : r = net[c][i].serial
      <4>1. PICK i \in DOMAIN net[c] : r = net[c][i].serial
        BY <3>2
      <4>2. /\ r = done[c] + i /\ i \in 1..Len(net[c]) /\ Len(net[c]) \in Nat
            /\ done[c] = last[c] - Len(net[c]) /\ done[c] \in Nat
        BY <4>1, NetSeq DEF Kept, Numbered
      <4> QED BY <1>1, <4>2
    <3> QED BY <2>2, <3>1, <3>2 DEF RemovedAt
  <2> QED BY <1>1, <2>1, <2>2
<1>4. ASSUME NEW x \in Images, Cached(x),
             msg'[c].clear = {}, ~\E e \in msg'[c].evicted : e[1] = x
      PROVE  /\ \A s \in Nat : DrawnAt(c, x, s) => \E t \in Nat : DrawnAt(c, x, t)' /\ s <= t
             /\ \A r \in Nat : RemovedAt(c, x, r)' => RemovedAt(c, x, r)
  <2>1. ASSUME NEW s \in Nat, DrawnAt(c, x, s)
        PROVE  DrawnAt(c, x, s)' /\ s <= s
    <3>1. PICK e \in Nat : \E i \in DOMAIN net[c] :
                 Draws(net[c][i].op, x, e) /\ s = net[c][i].serial
      BY <1>2, <2>1 DEF DrawnAt, Uses
    <3>2. DrawnAt(c, x, s)'
      BY <3>1 DEF DrawnAt, Uses, Draws
    <3>3. s <= s
      OBVIOUS
    <3> QED BY <3>2, <3>3
  <2>2. ASSUME NEW r \in Nat, RemovedAt(c, x, r)'
        PROVE  RemovedAt(c, x, r)
    BY <1>4, <2>2 DEF RemovedAt
  <2> QED BY <2>1, <2>2
<1>5. (Alone' => Alone) /\ \A b \in Channels : host'[b] = "closed" <=> host[b] = "closed"
  BY DEF Alone
<1>6. \A x \in Images : Cached(x)' =>
        \/ \E s \in Nat : DrawnAt(c, x, s)' /\ \A r \in Nat : RemovedAt(c, x, r)' => r <= s
        \/ /\ Cached(x)
           /\ \A s \in Nat : DrawnAt(c, x, s) => \E t \in Nat : DrawnAt(c, x, t)' /\ s <= t
           /\ \A r \in Nat : RemovedAt(c, x, r)' => RemovedAt(c, x, r)
  BY <1>3, <1>4
<1> QED BY <1>5, <1>6, PresentStays

LEMMA PixmapSyncPresent ==
  ASSUME Inv, Inv', Kept, Present, NEW c \in Channels, MarshallPixmapSync(c)
  PROVE  Present'
<1> DEFINE waits == {<<initiator[host[c]].client, initiator[host[c]].message>>}
<1>1. /\ UNCHANGED <<cacheVars, host, net, stage, images, last>> /\ host[c] # "closed"
      /\ msg' = [msg EXCEPT ![c] = Control(waits, {})] /\ msg[c] = Idle
  BY DEF MarshallPixmapSync, clientVars, Ready, Kept, Resting, Hosts
<1>2. msg'[c] = Control(waits, {})
  BY <1>1 DEF Inv, Typed, SendTypes
<1>3. msg'[c].clear = {} /\ msg'[c].evicted = {} /\ msg'[c].phase # "urgent"
  BY <1>2 DEF Control, Idle
<1>4. \A x \in Images : Cached(x)' => Cached(x)
  BY <1>1 DEF cacheVars, Cached, InCache
<1> QED BY <1>1, <1>3, <1>4, MarshalledPresent

LEMMA ResetPresent ==
  ASSUME Inv, Inv', Kept, Kept', Present, NEW c \in Channels, MarshallReset(c)
  PROVE  Present'
<1> DEFINE clear == UNION {{x} \X (0..(era[x] - 1)) : x \in Images}
           waits == WaitsOf(c, sync'[host[c]])
<1>1. /\ UNCHANGED <<host, net, stage, images, last>> /\ msg[c] = Idle
      /\ lru' = [lru EXCEPT ![host[c]] = <<>>] /\ host[c] = "target" /\ frozen["source"]
      /\ msg' = [msg EXCEPT ![c] = Control(waits, clear)]
  BY DEF MarshallReset, clientVars, Ready, Kept, Resting, Inv, ResetsFollowed, WillReset
<1>2. msg'[c].phase # "urgent" /\ host[c] # "closed"
  <2>1. msg'[c] = Control(waits, clear)
    BY <1>1 DEF Inv, Typed, SendTypes
  <2> QED BY <1>1, <2>1 DEF Control, Idle
<1>3. \A h \in Hosts : lru'[h] = <<>>
  BY <1>1 DEF Kept, Filled, Hosts, Inv, Typed, CacheTypes
<1>4. \A x \in Images : ~Cached(x)'
  BY <1>3 DEF Cached, InCache
<1> QED BY <1>1, <1>2, <1>4, MarshalledPresent

LEMMA HitPresent ==
  ASSUME Inv, Inv', Kept, Present, NEW c \in Channels, NEW x \in Images,
         MarshallUpgrade(c, x), InCache(host[c], x)
  PROVE  Present'
<1>1. /\ UNCHANGED <<available, host, net, stage, images, last, frozen, generation>>
      /\ msg[c] = Idle /\ host[c] \in Hosts /\ Touch(host[c], c, x, Serial(c))
      /\ msg' = [msg EXCEPT ![c].phase = "build", ![c].op = Op("get", x)]
  BY DEF MarshallUpgrade, clientVars, Ready, Kept, Resting
<1>2. msg'[c] = [Idle EXCEPT !.phase = "build", !.op = Op("get", x)]
  BY <1>1 DEF Inv, Typed, SendTypes
<1>3. msg'[c].clear = {} /\ msg'[c].evicted = {} /\ msg'[c].phase # "urgent"
  BY <1>2 DEF Idle
<1>4. Serial(c) \in Nat
  BY TopType DEF Inv
<1>5. \A y \in Images : Cached(y)' => Cached(y)
  <2>1. \A g \in Hosts : \A y : InCache(g, y)' <=> InCache(g, y)
    BY <1>1, <1>4, TouchKept
  <2> QED BY <2>1 DEF Cached
<1>6. host[c] # "closed"
  BY <1>1 DEF Hosts
<1> QED BY <1>1, <1>3, <1>5, <1>6, MarshalledPresent

LEMMA AddPresent ==
  ASSUME Inv, Inv', Kept, Present, NEW c \in Channels, NEW x \in Images,
         MarshallUpgrade(c, x), ~InCache(host[c], x)
  PROVE  Present'
<1>a. PICK h \in Hosts : h = host[c]
  BY DEF MarshallUpgrade, Ready
<1>1. /\ UNCHANGED <<host, net, stage, images, last>> /\ host[c] # "closed"
      /\ msg[c] = Idle /\ Add(h, c, x) /\ ~InCache(h, x)
  BY <1>a DEF MarshallUpgrade, clientVars, Ready, Kept, Resting, Hosts
<1>2. CASE generation[h] # gen[c]
  <2>1. msg' = [msg EXCEPT ![c].phase = "build"] /\ lru' = lru
    BY <1>1, <1>2 DEF Add
  <2>2. msg'[c] = [Idle EXCEPT !.phase = "build"]
    BY <1>1, <2>1 DEF Inv, Typed, SendTypes
  <2>3. msg'[c].clear = {} /\ msg'[c].evicted = {} /\ msg'[c].phase # "urgent"
    BY <2>2 DEF Idle
  <2>4. \A y \in Images : Cached(y)' => Cached(y)
    BY <2>1 DEF Cached, InCache
  <2> QED BY <1>1, <2>3, <2>4, MarshalledPresent
<1>3. CASE generation[h] = gen[c]
  <2>1. /\ \A g \in Hosts \ {h} : lru'[g] = lru[g]
        /\ msg'[c].phase = "build" /\ msg'[c].clear = {}
    BY <1>1, <1>3, Added
  <2>2. \A y, e : <<y, e>> \in msg'[c].evicted => InCache(h, y) /\ ~InCache(h, y)'
    BY <1>1, <1>3, Added
  <2>3. \A y : InCache(h, y)' => InCache(h, y) \/ (y = x /\ Draws(msg'[c].op, x, era[x]))
    BY <1>1, <1>3, Added
  <2>4. msg'[c].evicted \subseteq Entries
    BY DEF Inv, Typed, SendTypes, Marshalling
  <2>5. ASSUME NEW y, NEW e \in msg'[c].evicted, e[1] = y
        PROVE  InCache(h, y) /\ ~InCache(h, y)'
    <3>1. e = <<y, e[2]>>
      BY <2>4, <2>5 DEF Entries
    <3> QED BY <2>2, <2>5, <3>1
  <2>6. ASSUME NEW y \in Images, Cached(y)'
        PROVE  \/ Cached(y) /\ msg'[c].clear = {} /\ ~\E e \in msg'[c].evicted : e[1] = y
               \/ \E e \in Nat : Draws(msg'[c].op, y, e)
    <3>1. PICK g \in Hosts : InCache(g, y)'
      BY <2>6 DEF Cached
    <3>2. CASE g # h
      <4>1. InCache(g, y)
        BY <2>1, <3>1, <3>2 DEF InCache
      <4>2. ~InCache(h, y)
        BY <3>2, <4>1, OneCache
      <4> QED BY <2>1, <2>5, <4>1, <4>2 DEF Cached
    <3>3. CASE g = h
      <4>1. InCache(h, y)'
        BY <3>1, <3>3
      <4>2. CASE InCache(h, y)
        BY <2>1, <2>5, <4>1, <4>2 DEF Cached
      <4>3. CASE y = x /\ Draws(msg'[c].op, x, era[x])
        BY <4>3 DEF Inv, Typed, CacheTypes
      <4> QED BY <2>3, <4>1, <4>2, <4>3
    <3> QED BY <3>2, <3>3
  <2>7. msg'[c].phase # "urgent"
    BY <2>1
  <2> QED BY <1>1, <2>6, <2>7, MarshalledPresent
<1> QED BY <1>2, <1>3

LEMMA SwitchToUrgentPresent ==
  ASSUME Inv, Inv', Kept, Present, NEW c \in Channels, SwitchToUrgent(c)
  PROVE  Present'
<1>1. /\ UNCHANGED <<available, host, net, stage, images, last, frozen, generation>>
      /\ host[c] \in Hosts /\ msg[c].phase = "build"
      /\ msg' = [msg EXCEPT ![c].phase = "urgent"]
  BY DEF SwitchToUrgent, clientVars, pipeVars, Inv, Connected
<1>2. /\ msg'[c].evicted = msg[c].evicted /\ msg'[c].clear = msg[c].clear
      /\ msg'[c].op = msg[c].op /\ msg'[c].phase = "urgent"
  BY <1>1 DEF Inv, Typed, SendTypes, Marshalling
<1>3. \A y \in Images : Cached(y)' => Cached(y)
  <2>1. CASE msg[c].op # NoOp /\ InCache(host[c], msg[c].op.id)
    <3>1. msg[c].op.id \in Images /\ last[c] + 2 \in Nat
      BY <2>1 DEF Inv, Typed, SendTypes, Marshalling, Ops
    <3>2. Touch(host[c], c, msg[c].op.id, last[c] + 2)
      BY <2>1 DEF SwitchToUrgent
    <3>3. \A g \in Hosts : \A y : InCache(g, y)' <=> InCache(g, y)
      BY <1>1, <2>1, <3>1, <3>2, TouchKept
    <3> QED BY <3>3 DEF Cached
  <2>2. CASE ~(msg[c].op # NoOp /\ InCache(host[c], msg[c].op.id))
    BY <2>2 DEF SwitchToUrgent, Cached, InCache
  <2> QED BY <2>1, <2>2
<1>4. last[c] \in Nat /\ Serial(c) = last[c] + 1 /\ Serial(c)' = last[c] + 2
  BY <1>1, <1>2 DEF Serial, Inv, Typed, SendTypes
<1>5. ASSUME NEW x \in Images, NEW s \in Nat, DrawnAt(c, x, s)
      PROVE  \E t \in Nat : DrawnAt(c, x, t)' /\ s <= t
  <2>1. PICK e \in Nat : Uses(c, x, e, s)
    BY <1>5 DEF DrawnAt
  <2>2. CASE \E i \in DOMAIN net[c] : Draws(net[c][i].op, x, e) /\ s = net[c][i].serial
    <3>1. DrawnAt(c, x, s)'
      BY <1>1, <2>2 DEF DrawnAt, Uses, Draws
    <3>2. s <= s
      OBVIOUS
    <3> QED BY <3>1, <3>2
  <2>3. CASE Draws(msg[c].op, x, e) /\ s = Serial(c)
    <3>1. PICK t \in Nat : t = last[c] + 2
      BY <1>4
    <3>2. t = Serial(c)' /\ Draws(msg'[c].op, x, e)
      BY <1>2, <1>4, <2>3, <3>1
    <3>3. DrawnAt(c, x, t)'
      BY <3>2 DEF DrawnAt, Uses, Draws
    <3>4. s <= t
      BY <1>4, <2>3, <3>1
    <3> QED BY <3>3, <3>4
  <2> QED BY <2>1, <2>2, <2>3 DEF Uses
<1>6. \A x \in Images, r \in Nat : RemovedAt(c, x, r)' => RemovedAt(c, x, r)
  BY <1>1, <1>2 DEF RemovedAt
<1>7. (Alone' => Alone) /\ host[c] # "closed"
      /\ \A b \in Channels : host'[b] = "closed" <=> host[b] = "closed"
  BY <1>1 DEF Alone, Hosts
<1>8. images' = images
  BY <1>1
<1> QED BY <1>3, <1>5, <1>6, <1>7, <1>8, PresentStays

LEMMA MarshallMigrateDataPresent ==
  ASSUME Inv, Inv', Kept, Present, NEW c \in Channels, MarshallMigrateData(c)
  PROVE  Present'
<1>1. /\ host[c] = "source" /\ host' = [host EXCEPT ![c] = "moving"] /\ msg[c] = Idle
      /\ lru' = [lru EXCEPT !["source"] = <<>>]
      /\ Send(c, NoOp) /\ UNCHANGED <<msg, images>>
  BY DEF MarshallMigrateData, Ready, Send, Kept, Resting
<1>2. /\ msg'[c].clear = {} /\ msg'[c].evicted = {}
      /\ \A x, e : ~Draws(msg[c].op, x, e)
  BY <1>1 DEF Idle, Draws
<1>3. /\ Alone' => Alone
      /\ \A b \in Channels : host'[b] = "closed" <=> host[b] = "closed"
  BY <1>1 DEF Alone, Inv, Typed, PipeTypes
<1>4. ASSUME NEW x \in Images, NEW h \in Hosts, InCache(h, x)'
      PROVE  InCache(h, x)
  BY <1>1, <1>4 DEF InCache, Inv, Typed, CacheTypes, Hosts
<1>5. \A x \in Images : Cached(x)' => Cached(x)
  BY <1>4 DEF Cached
<1> QED BY <1>1, <1>2, <1>3, <1>5, SentPresent

\* What changes nothing of it.
LEMMA RestPresent ==
  ASSUME Present, UNCHANGED <<lru, net, stage, last, msg, images>>,
         \A b \in Channels : host'[b] = "closed" <=> host[b] = "closed"
  PROVE  Present'
<1>1. /\ Alone' => Alone
      /\ \A x : Cached(x)' <=> Cached(x)
  BY DEF Alone, Cached, InCache
<1>2. \A c \in Channels : \A x : ToCome(c, x) => ToCome(c, x)'
  BY DEF ToCome, DrawnAt, RemovedAt, Uses, Draws, Serial
<1> QED BY <1>1, <1>2 DEF Present

LEMMA HandleMigrateDataPresent ==
  ASSUME Inv, Present, NEW c \in Channels, HandleMigrateData(c)
  PROVE  Present'
<1>1. /\ host[c] = "moving" /\ host' = [host EXCEPT ![c] = "target"]
      /\ UNCHANGED <<lru, net, stage, last, msg, images>>
  BY DEF HandleMigrateData, clientVars
<1>2. \A b \in Channels : host'[b] = "closed" <=> host[b] = "closed"
  BY <1>1 DEF Inv, Typed, PipeTypes
<1> QED BY <1>1, <1>2, RestPresent

LEMMA InitPresent == ASSUME Init PROVE Present /\ OneKind
<1>1. \A x : ~Cached(x)
  BY DEF Init, Cached, InCache
<1>2. \A c \in Channels : msg[c] = Idle
  BY DEF Init
<1> QED BY <1>1, <1>2 DEF Present, OneKind, Idle

LEMMA NextPresent ==
  ASSUME Inv, Inv', Kept, Kept', OneKind, Staged, Present, [Next]_vars
  PROVE  Present'
<1>1. CASE UNCHANGED vars
  BY <1>1, RestPresent DEF vars
<1>2. ASSUME NEW c \in Channels, NEW x \in Images, MarshallUpgrade(c, x)
      PROVE  Present'
  BY <1>2, HitPresent, AddPresent
<1>3. ASSUME NEW c \in Channels,
             \/ MarshallPixmapSync(c) \/ MarshallReset(c)
             \/ BeginSend(c) \/ SwitchToUrgent(c) \/ SendUrgent(c) \/ SendMain(c)
             \/ MarshallMigrateData(c) \/ HandleMigrateData(c)
             \/ Client(c)
      PROVE  Present'
  BY <1>3, PixmapSyncPresent, ResetPresent, SendingPresent, SwitchToUrgentPresent,
     MarshallMigrateDataPresent, HandleMigrateDataPresent, ClientPresent
<1> QED BY <1>1, <1>2, <1>3 DEF Next, Worker

\* Who marshals changes its own message only.
LEMMA KindKept ==
  ASSUME OneKind, NEW c \in Channels, \A d \in Channels \ {c} : msg'[d] = msg[d],
         \/ msg'[c].evicted = {} /\ msg'[c].phase # "urgent"
         \/ msg'[c].clear = {}
  PROVE  OneKind'
BY DEF OneKind

LEMMA NextOneKind ==
  ASSUME Inv, Kept, OneKind, [Next]_vars
  PROVE  OneKind'
<1>a. msg \in [Channels -> Marshalling]
  BY DEF Inv, Typed, SendTypes
<1>1. CASE msg' = msg
  BY <1>1 DEF OneKind
<1>2. ASSUME NEW c \in Channels, NEW x \in Images, MarshallUpgrade(c, x)
      PROVE  OneKind'
  <2>a. PICK h \in Hosts : h = host[c] /\ msg[c] = Idle
    BY <1>2 DEF MarshallUpgrade, Ready, Kept, Resting
  <2>1. CASE InCache(h, x)
    <3>1. msg' = [msg EXCEPT ![c].phase = "build", ![c].op = Op("get", x)]
      BY <1>2, <2>a, <2>1 DEF MarshallUpgrade
    <3>2. msg'[c] = [Idle EXCEPT !.phase = "build", !.op = Op("get", x)]
          /\ \A d \in Channels \ {c} : msg'[d] = msg[d]
      BY <1>a, <2>a, <3>1
    <3>3. msg'[c].clear = {}
      BY <3>2 DEF Idle
    <3> QED BY <3>2, <3>3, KindKept
  <2>2. CASE ~InCache(h, x) /\ generation[h] # gen[c]
    <3>1. msg' = [msg EXCEPT ![c].phase = "build"]
      BY <1>2, <2>a, <2>2 DEF MarshallUpgrade, Add
    <3>2. msg'[c] = [Idle EXCEPT !.phase = "build"]
          /\ \A d \in Channels \ {c} : msg'[d] = msg[d]
      BY <1>a, <2>a, <3>1
    <3>3. msg'[c].clear = {}
      BY <3>2 DEF Idle
    <3> QED BY <3>2, <3>3, KindKept
  <2>3. CASE ~InCache(h, x) /\ generation[h] = gen[c]
    <3>1. Add(h, c, x)
      BY <1>2, <2>a, <2>3 DEF MarshallUpgrade
    <3>2. msg'[c].clear = {} /\ \A d \in Channels \ {c} : msg'[d] = msg[d]
      BY <2>a, <2>3, <3>1, Added
    <3> QED BY <3>2, KindKept
  <2> QED BY <2>1, <2>2, <2>3
<1>3. ASSUME NEW c \in Channels, NEW waits, NEW clear,
             msg' = [msg EXCEPT ![c] = Control(waits, clear)]
      PROVE  OneKind'
  <2>1. msg'[c] = Control(waits, clear) /\ \A d \in Channels \ {c} : msg'[d] = msg[d]
    BY <1>a, <1>3
  <2>2. msg'[c].evicted = {} /\ msg'[c].phase # "urgent"
    BY <2>1 DEF Control, Idle
  <2> QED BY <2>1, <2>2, KindKept
<1>4. ASSUME NEW c \in Channels, BeginSend(c) \/ SendMain(c)
      PROVE  OneKind'
  <2>1. msg'[c] = Idle /\ \A d \in Channels \ {c} : msg'[d] = msg[d]
    BY <1>a, <1>4 DEF BeginSend, SendMain
  <2>2. msg'[c].clear = {}
    BY <2>1 DEF Idle
  <2> QED BY <2>1, <2>2, KindKept
<1>5. ASSUME NEW c \in Channels, SendUrgent(c)
      PROVE  OneKind'
  <2>1. msg'[c] = [msg[c] EXCEPT !.phase = "main", !.evicted = {}]
        /\ \A d \in Channels \ {c} : msg'[d] = msg[d]
    BY <1>a, <1>5 DEF SendUrgent
  <2>2. msg'[c].evicted = {} /\ msg'[c].phase # "urgent"
    BY <1>a, <2>1 DEF Marshalling
  <2> QED BY <2>1, <2>2, KindKept
<1>6. ASSUME NEW c \in Channels, SwitchToUrgent(c)
      PROVE  OneKind'
  <2>1. msg'[c] = [msg[c] EXCEPT !.phase = "urgent"] /\ msg[c].clear = {}
        /\ \A d \in Channels \ {c} : msg'[d] = msg[d]
    BY <1>a, <1>6 DEF SwitchToUrgent, OneKind
  <2>2. msg'[c].clear = {}
    BY <1>a, <2>1 DEF Marshalling
  <2> QED BY <2>1, <2>2, KindKept
<1>7. ASSUME NEW c \in Channels, MarshallPixmapSync(c) \/ MarshallReset(c)
      PROVE  OneKind'
  BY <1>3, <1>7 DEF MarshallPixmapSync, MarshallReset
<1>8. ASSUME NEW c \in Channels,
             MarshallMigrateData(c) \/ HandleMigrateData(c) \/ Client(c)
      PROVE  msg' = msg
  BY <1>8 DEF MarshallMigrateData, HandleMigrateData, Client, Invalidate, DrawImage
<1>9. UNCHANGED vars => msg' = msg
  BY DEF vars
<1> QED BY <1>1, <1>2, <1>4, <1>5, <1>6, <1>7, <1>8, <1>9 DEF Next, Worker

\* When nothing is to be sent or drawn, what is to come is there.
LEMMA PresentMeans == ASSUME Inv, Present PROVE Mirror
<1> SUFFICES ASSUME NEW h \in Hosts, Quiet(h), Alone, NEW x \in Images, InCache(h, x)
             PROVE  x \in images
  BY DEF Mirror
<1>1. PICK c \in Channels : host[c] # "closed"
  BY DEF Alone
<1>2. ToCome(c, x)
  BY <1>1 DEF Present, Cached
<1>3. \A e, s : ~Uses(c, x, e, s)
  BY DEF Quiet, Uses, Draws, Idle
<1> QED BY <1>2, <1>3 DEF ToCome, DrawnAt

\* fill_bits leaves the image out and names it by its id when the server has it in its
\* cache: a client with one display has it, once all that was sent is handled.
THEOREM MirrorAlways == Spec => []Mirror
<1>1. Init => Inv /\ Kept /\ Followed /\ OneKind /\ Present
  BY InitInv, InitKept, InitFollowed, InitPresent
<1>2. Inv /\ Kept /\ Followed /\ OneKind /\ Present /\ [Next]_vars
        => Inv' /\ Kept' /\ Followed' /\ OneKind' /\ Present'
  <2> SUFFICES ASSUME Inv, Kept, Followed, OneKind, Present, [Next]_vars
               PROVE  Inv' /\ Kept' /\ Followed' /\ OneKind' /\ Present'
    OBVIOUS
  <2>1. Inv' /\ Kept' /\ Followed'
    BY NextInv, NextKept, NextFollowed
  <2>2. OneKind'
    BY NextOneKind
  <2>3. Staged
    BY DEF Followed
  <2>4. Present'
    BY <2>1, <2>3, NextPresent
  <2> QED BY <2>1, <2>2, <2>4
<1>3. Inv /\ Present => Mirror
  BY PresentMeans
<1> QED BY <1>1, <1>2, <1>3, PTL DEF Spec

-----------------------------------------------------------------------------
(***************************************************************************)
(* The accounts of the cache (CacheSound).  SumFunctionOnSet is a fold     *)
(* over a set by CHOOSE; the lemmas say what it is for finite sets.        *)
(***************************************************************************)

\* Among subsets of a finite set, one has no other one next below it.
LEMMA Smallest ==
  ASSUME NEW S, IsFiniteSet(S), NEW F, F \subseteq SUBSET S, F # {}
  PROVE  \E A \in F : \A i \in A : A \ {i} \notin F
<1>1. IsWellFoundedOn(StrictSubsetOrdering(S), SUBSET S)
  BY FS_FiniteSubsetsOfFinite, FS_StrictSubsetOrderingWellFounded
<1>2. PICK A \in F : \A C \in F : ~ (<<C, A>> \in StrictSubsetOrdering(S))
  BY <1>1, WFMin
<1>3. ASSUME NEW i \in A, A \ {i} \in F
      PROVE  FALSE
  <2>1. <<A \ {i}, A>> \in StrictSubsetOrdering(S)
    BY <1>3 DEF StrictSubsetOrdering
  <2> QED BY <1>2, <1>3, <2>1
<1> QED BY <1>2, <1>3

\* The function that the fold is defined by.
Sums(g, f, S) ==
  g = [s \in SUBSET S |->
         IF s = {} THEN 0 ELSE LET i == CHOOSE i \in s : TRUE IN f[i] + g[s \ {i}]]

\* There is one: it is right for the sets of one element more each time.
LEMMA SumsExist ==
  ASSUME NEW f, NEW S, IsFiniteSet(S)
  PROVE  \E g : Sums(g, f, S)
<1> DEFINE Pick(s) == CHOOSE i \in s : TRUE
           Value(g, s) == IF s = {} THEN 0 ELSE f[Pick(s)] + g[s \ {Pick(s)}]
           Right(n) == \E g : \A s \in SUBSET S : Cardinality(s) <= n => g[s] = Value(g, s)
           N == Cardinality(S)
           T == {n \in 0..N : ~Right(n)}
<1>1. /\ N \in Nat
      /\ \A s \in SUBSET S : IsFiniteSet(s) /\ Cardinality(s) \in Nat /\ Cardinality(s) <= N
  BY FS_CardinalityType, FS_Subset
<1>2. Right(0)
  <2>1. \A s \in SUBSET S : Cardinality(s) <= 0 => s = {}
    BY <1>1, FS_EmptySet
  <2>2. \A s \in SUBSET S : Cardinality(s) <= 0 =>
          [t \in SUBSET S |-> 0][s] = Value([t \in SUBSET S |-> 0], s)
    BY <2>1
  <2> QED BY <2>2
<1>3. ASSUME NEW n \in Nat, Right(n)
      PROVE  Right(n + 1)
  <2>1. PICK g : \A s \in SUBSET S : Cardinality(s) <= n => g[s] = Value(g, s)
    BY <1>3
  <2>2. PICK h : h = [s \in SUBSET S |-> Value(g, s)]
    OBVIOUS
  <2>3. ASSUME NEW s \in SUBSET S, Cardinality(s) <= n + 1
        PROVE  h[s] = Value(h, s)
    <3>1. CASE s = {}
      BY <2>2, <3>1
    <3>2. CASE s # {}
      <4>1. PICK i \in s : i = Pick(s)
        BY <3>2
      <4>2. s \ {i} \in SUBSET S /\ Cardinality(s \ {i}) <= n
        <5>1. Cardinality(s \ {i}) = Cardinality(s) - 1
          BY <1>1, FS_RemoveElement
        <5> QED BY <1>1, <2>3, <5>1
      <4>3. h[s \ {i}] = g[s \ {i}]
        BY <2>1, <2>2, <4>2
      <4>4. h[s] = f[i] + g[s \ {i}] /\ Value(h, s) = f[i] + h[s \ {i}]
        BY <2>2, <3>2, <4>1
      <4> QED BY <4>3, <4>4
    <3> QED BY <3>1, <3>2
  <2> QED BY <2>3
<1> HIDE DEF Right
<1>4. T = {}
  <2> SUFFICES ASSUME T # {}
               PROVE  FALSE
    OBVIOUS
  <2>1. PICK m \in T : \A k \in T : m <= k
    BY <1>1, Least
  <2>2. m \in 0..N /\ ~Right(m) /\ m # 0
    BY <1>2, <2>1
  <2>3. m - 1 \in 0..N /\ m - 1 \in Nat /\ ~(m <= m - 1) /\ (m - 1) + 1 = m
    BY <1>1, <2>2
  <2>4. Right(m - 1)
    BY <2>1, <2>3
  <2> QED BY <1>3, <2>2, <2>3, <2>4
<1>5. Right(N)
  <2>1. N \in 0..N
    BY <1>1
  <2> QED BY <1>4, <2>1
<1>6. PICK g : \A s \in SUBSET S : Cardinality(s) <= N => g[s] = Value(g, s)
  BY <1>5 DEF Right
<1>7. PICK h : h = [s \in SUBSET S |-> g[s]]
  OBVIOUS
<1>8. ASSUME NEW s \in SUBSET S
      PROVE  h[s] = Value(h, s)
  <2>1. h[s] = Value(g, s)
    BY <1>1, <1>6, <1>7
  <2>2. s # {} => h[s \ {Pick(s)}] = g[s \ {Pick(s)}]
    BY <1>7
  <2> QED BY <2>1, <2>2
<1>9. h = [s \in SUBSET S |-> Value(h, s)]
  BY <1>7, <1>8
<1>10. Sums(h, f, S)
  BY <1>9 DEF Sums
<1> QED BY <1>10

LEMMA SumIs ==
  ASSUME NEW f, NEW S, IsFiniteSet(S)
  PROVE  \E g : Sums(g, f, S) /\ SumFunctionOnSet(f, S) = g[S]
<1> DEFINE P(g) == g = [s \in SUBSET S |->
                          IF s = {} THEN 0
                          ELSE LET i == CHOOSE i \in s : TRUE IN f[i] + g[s \ {i}]]
<1>1. \E g : P(g)
  <2>1. PICK g : Sums(g, f, S)
    BY SumsExist
  <2>2. P(g)
    BY <2>1 DEF Sums
  <2> HIDE DEF P
  <2> QED BY <2>2
<1>2. P(CHOOSE g : P(g))
  <2> HIDE DEF P
  <2> QED BY <1>1
<1>3. SumFunctionOnSet(f, S) = (CHOOSE g : P(g))[S]
  BY Zenon DEF SumFunctionOnSet, FoldFunctionOnSet, MapThenFoldSet
<1>4. Sums(CHOOSE g : P(g), f, S)
  BY <1>2 DEF Sums
<1> HIDE DEF P
<1> QED BY <1>3, <1>4

\* Functions that sum agree on the sets they both have.
LEMMA SumsAgree ==
  ASSUME NEW f, NEW S, NEW R, IsFiniteSet(R), R \subseteq S,
         NEW g, Sums(g, f, S), NEW h, Sums(h, f, R)
  PROVE  g[R] = h[R]
<1> DEFINE F == {s \in SUBSET R : g[s] # h[s]}
<1>1. ASSUME F # {}
      PROVE  FALSE
  <2>1. PICK A \in F : \A i \in A : A \ {i} \notin F
    <3> F \subseteq SUBSET R
      OBVIOUS
    <3> HIDE DEF F
    <3> QED BY <1>1, Smallest
  <2>2. A \in SUBSET R /\ A \in SUBSET S /\ g[A] # h[A]
    BY <2>1
  <2>3. A # {}
    BY <2>2 DEF Sums
  <2>4. PICK i \in A : i = CHOOSE j \in A : TRUE
    BY <2>3
  <2>5. g[A] = f[i] + g[A \ {i}] /\ h[A] = f[i] + h[A \ {i}]
    BY <2>2, <2>3, <2>4 DEF Sums
  <2>6. g[A \ {i}] = h[A \ {i}]
    BY <2>1, <2>2, <2>4
  <2> QED BY <2>2, <2>5, <2>6
<1> QED BY <1>1

\* The sum takes out the element that is chosen,
LEMMA SumChosen ==
  ASSUME NEW f, NEW S, IsFiniteSet(S), S # {}
  PROVE  \E i \in S : SumFunctionOnSet(f, S) = f[i] + SumFunctionOnSet(f, S \ {i})
<1>1. PICK i \in S : i = CHOOSE j \in S : TRUE
  OBVIOUS
<1>2. PICK g : Sums(g, f, S) /\ SumFunctionOnSet(f, S) = g[S]
  BY SumIs
<1>3. IsFiniteSet(S \ {i})
  BY FS_RemoveElement
<1>4. PICK h : Sums(h, f, S \ {i}) /\ SumFunctionOnSet(f, S \ {i}) = h[S \ {i}]
  BY <1>3, SumIs
<1>5. g[S \ {i}] = h[S \ {i}]
  BY <1>2, <1>3, <1>4, SumsAgree
<1>6. g[S] = f[i] + g[S \ {i}]
  BY <1>1, <1>2 DEF Sums
<1> QED BY <1>2, <1>4, <1>5, <1>6

LEMMA SumNat ==
  ASSUME NEW f, NEW S, IsFiniteSet(S), \A x \in S : f[x] \in Nat
  PROVE  SumFunctionOnSet(f, S) \in Nat
<1> DEFINE F == {s \in SUBSET S : SumFunctionOnSet(f, s) \notin Nat}
<1>1. ASSUME F # {}
      PROVE  FALSE
  <2>1. PICK A \in F : \A i \in A : A \ {i} \notin F
    <3> F \subseteq SUBSET S
      OBVIOUS
    <3> HIDE DEF F
    <3> QED BY <1>1, Smallest
  <2>2. A \in SUBSET S /\ SumFunctionOnSet(f, A) \notin Nat /\ IsFiniteSet(A)
    BY <2>1, FS_Subset
  <2>3. A # {}
    BY <2>2, EmptySum
  <2>4. PICK i \in A : SumFunctionOnSet(f, A) = f[i] + SumFunctionOnSet(f, A \ {i})
    BY <2>2, <2>3, SumChosen
  <2>5. SumFunctionOnSet(f, A \ {i}) \in Nat /\ f[i] \in Nat
    BY <2>1, <2>2, <2>4
  <2> QED BY <2>2, <2>4, <2>5
<1> QED BY <1>1

\* and as well any other.
LEMMA SumTake ==
  ASSUME NEW f, NEW S, IsFiniteSet(S), \A x \in S : f[x] \in Nat, NEW x \in S
  PROVE  SumFunctionOnSet(f, S) = f[x] + SumFunctionOnSet(f, S \ {x})
<1> DEFINE Sum(s) == SumFunctionOnSet(f, s)
           F == {s \in SUBSET S : \E y \in s : Sum(s) # f[y] + Sum(s \ {y})}
<1>1. ASSUME F # {}
      PROVE  FALSE
  <2>1. PICK A \in F : \A i \in A : A \ {i} \notin F
    <3> F \subseteq SUBSET S
      OBVIOUS
    <3> HIDE DEF F
    <3> QED BY <1>1, Smallest
  <2>2. PICK y \in A : Sum(A) # f[y] + Sum(A \ {y})
    BY <2>1
  <2>3. IsFiniteSet(A) /\ A \in SUBSET S
    BY <2>1, FS_Subset
  <2>4. PICK i \in A : Sum(A) = f[i] + Sum(A \ {i})
    BY <2>2, <2>3, SumChosen
  <2>5. i # y
    BY <2>2, <2>4
  <2>6. Sum(A \ {i}) = f[y] + Sum((A \ {i}) \ {y})
    BY <2>1, <2>2, <2>3, <2>4, <2>5
  <2>7. Sum(A \ {y}) = f[i] + Sum((A \ {y}) \ {i})
    BY <2>1, <2>2, <2>3, <2>4, <2>5
  <2>8. PICK B \in SUBSET S : B = (A \ {i}) \ {y} /\ B = (A \ {y}) \ {i}
    BY <2>3
  <2>9. Sum(B) \in Nat /\ f[i] \in Nat /\ f[y] \in Nat
    <3>1. IsFiniteSet(B) /\ \A z \in B : f[z] \in Nat
      BY FS_Subset
    <3> QED BY <2>2, <2>3, <2>4, <3>1, SumNat
  <2>10. Sum(A) = f[i] + (f[y] + Sum(B)) /\ Sum(A \ {y}) = f[i] + Sum(B)
    BY <2>4, <2>6, <2>7, <2>8
  <2> HIDE DEF Sum
  <2>11. Sum(A) = f[y] + Sum(A \ {y})
    BY <2>9, <2>10
  <2> QED BY <2>2, <2>11
<1> QED BY <1>1

LEMMA SumUnion ==
  ASSUME NEW f, NEW S, NEW B, IsFiniteSet(S), IsFiniteSet(B), S \cap B = {},
         \A x \in S \cup B : f[x] \in Nat
  PROVE  SumFunctionOnSet(f, S \cup B) = SumFunctionOnSet(f, S) + SumFunctionOnSet(f, B)
<1> DEFINE Sum(s) == SumFunctionOnSet(f, s)
           F == {s \in SUBSET S : Sum(s \cup B) # Sum(s) + Sum(B)}
<1>1. ASSUME F # {}
      PROVE  FALSE
  <2>1. PICK A \in F : \A i \in A : A \ {i} \notin F
    <3> F \subseteq SUBSET S
      OBVIOUS
    <3> HIDE DEF F
    <3> QED BY <1>1, Smallest
  <2>2. /\ A \in SUBSET S /\ IsFiniteSet(A) /\ IsFiniteSet(A \cup B)
        /\ Sum(A \cup B) # Sum(A) + Sum(B)
    BY <2>1, FS_Subset, FS_Union
  <2>3. Sum(B) \in Nat
    BY SumNat
  <2>4. A # {}
    <3> SUFFICES ASSUME A = {}
                 PROVE  FALSE
      OBVIOUS
    <3>1. A \cup B = B
      OBVIOUS
    <3>2. Sum(A \cup B) = Sum(B) /\ Sum(A) = 0
      BY <3>1, EmptySum
    <3> HIDE DEF Sum
    <3> QED BY <2>2, <2>3, <3>2
  <2>5. PICK i \in A : TRUE
    BY <2>4
  <2>6. (A \cup B) \ {i} = (A \ {i}) \cup B
    BY <2>2, <2>5
  <2>7. Sum(A \cup B) = f[i] + Sum((A \ {i}) \cup B)
    <3>1. i \in A \cup B /\ \A x \in A \cup B : f[x] \in Nat
      BY <2>2
    <3> QED BY <2>2, <2>6, <3>1, SumTake
  <2>8. Sum(A) = f[i] + Sum(A \ {i})
    <3>1. \A x \in A : f[x] \in Nat
      BY <2>2
    <3> QED BY <2>2, <3>1, SumTake
  <2>9. Sum((A \ {i}) \cup B) = Sum(A \ {i}) + Sum(B)
    BY <2>1, <2>2, <2>5
  <2>10. Sum(A \ {i}) \in Nat /\ f[i] \in Nat
    <3>1. IsFiniteSet(A \ {i}) /\ \A x \in A \ {i} : f[x] \in Nat
      BY <2>2, FS_RemoveElement
    <3> QED BY <2>2, <3>1, SumNat
  <2> HIDE DEF Sum
  <2> QED BY <2>2, <2>3, <2>7, <2>8, <2>9, <2>10
<1> QED BY <1>1

\* A sum over places is one over what is there, once each.
LEMMA SumPlaces ==
  ASSUME NEW f, NEW q, OnceIn(q), NEW I, I \subseteq DOMAIN q, IsFiniteSet(I),
         NEW p, \A i \in I : f[q[i]] \in Nat /\ p[i] = f[q[i]],
         NEW T, \A y : y \in T <=> \E i \in I : y = q[i]
  PROVE  IsFiniteSet(T) /\ SumFunctionOnSet(p, I) = SumFunctionOnSet(f, T)
<1> DEFINE At(s) == {q[i] : i \in s}
           F == {s \in SUBSET I : ~(IsFiniteSet(At(s))
                                    /\ SumFunctionOnSet(p, s) = SumFunctionOnSet(f, At(s)))}
<1>1. ASSUME F # {}
      PROVE  FALSE
  <2>1. PICK A \in F : \A i \in A : A \ {i} \notin F
    <3> F \subseteq SUBSET I
      OBVIOUS
    <3> HIDE DEF F
    <3> QED BY <1>1, Smallest
  <2>2. /\ A \in SUBSET I /\ IsFiniteSet(A)
        /\ ~(IsFiniteSet(At(A)) /\ SumFunctionOnSet(p, A) = SumFunctionOnSet(f, At(A)))
    BY <2>1, FS_Subset
  <2>3. A # {}
    <3>1. At({}) = {}
      OBVIOUS
    <3> HIDE DEF At
    <3> QED BY <2>2, <3>1, EmptySum, FS_EmptySet
  <2>4. PICK i \in A : TRUE
    BY <2>3
  <2>5. IsFiniteSet(At(A \ {i}))
        /\ SumFunctionOnSet(p, A \ {i}) = SumFunctionOnSet(f, At(A \ {i}))
    BY <2>1, <2>2, <2>4
  <2>6. At(A) = At(A \ {i}) \cup {q[i]} /\ At(A) \ {q[i]} = At(A \ {i})
    BY <2>2, <2>4 DEF OnceIn
  <2>7. IsFiniteSet(At(A))
    <3> HIDE DEF At
    <3>1. IsFiniteSet(At(A \ {i}) \cup {q[i]})
      BY <2>5, FS_AddElement
    <3> QED BY <2>6, <3>1
  <2>8. SumFunctionOnSet(p, A) = p[i] + SumFunctionOnSet(p, A \ {i})
    <3>1. \A j \in A : p[j] \in Nat
      BY <2>2
    <3> QED BY <2>2, <2>4, <3>1, SumTake
  <2>9. SumFunctionOnSet(f, At(A)) = f[q[i]] + SumFunctionOnSet(f, At(A) \ {q[i]})
    <3>1. q[i] \in At(A) /\ \A x \in At(A) : f[x] \in Nat
      BY <2>2, <2>4
    <3> HIDE DEF At
    <3> QED BY <2>7, <3>1, SumTake
  <2>10. p[i] = f[q[i]]
    BY <2>2, <2>4
  <2> HIDE DEF At
  <2> QED BY <2>2, <2>5, <2>6, <2>7, <2>8, <2>9, <2>10
<1>2. I \in SUBSET I /\ T = At(I)
  OBVIOUS
<1> QED BY <1>1, <1>2

-----------------------------------------------------------------------------
(***************************************************************************)
(* What is left of the cache, and its items, make up its size; no item     *)
(* has been used later than the cache.                                     *)
(***************************************************************************)

Items(h) == {x \in Images : InCache(h, x)}

Counted(h) ==
  /\ size[h] \in Nat \cup {-1}
  /\ \/ lru[h] = <<>> /\ available[h] = -1
     \/ /\ available[h] \in Nat
        /\ available[h] + SumFunctionOnSet(SizeOf, Items(h)) = size[h]

NotedLast(h) ==
  \A x \in Images, c \in Channels : InCache(h, x) => used[h][x][c] <= sync[h][c]

Counts ==
  /\ available \in [Hosts -> Int] /\ size \in [Hosts -> Int] /\ mini \subseteq Channels
  /\ \A h \in Hosts : Counted(h) /\ NotedLast(h)

\* A cache with the same items in another order, or none of any.
LEMMA CountedStays ==
  ASSUME NEW h \in Hosts, Counted(h), \A y : InCache(h, y)' <=> InCache(h, y),
         lru[h] = <<>> => lru'[h] = <<>>,
         available'[h] = available[h], size'[h] = size[h]
  PROVE  Counted(h)'
<1>1. Items(h)' = Items(h)
  BY DEF Items
<1> QED BY <1>1 DEF Counted

LEMMA CountedEmpty ==
  ASSUME NEW h \in Hosts, lru'[h] = <<>>, size'[h] \in Nat \cup {-1}, available'[h] = size'[h]
  PROVE  Counted(h)'
<1>1. Items(h)' = {}
  BY DEF Items, InCache
<1>2. SumFunctionOnSet(SizeOf, Items(h)') = 0
  BY <1>1, EmptySum
<1> QED BY <1>2 DEF Counted

\* A worker notes serials that are later than all its channel has noted.
LEMMA NotedLater ==
  ASSUME Inv, NEW c \in Channels, NEW n \in Nat, Top(c) <= n
  PROVE  \A h \in Hosts : sync[h][c] \in Nat /\ sync[h][c] <= n
<1>1. Top(c) \in Nat
  BY TopType DEF Inv
<1>2. \A h \in Hosts : sync[h][c] \in Nat /\ sync[h][c] <= Top(c)
  BY DEF Inv, Typed, CacheTypes, SerialsGiven, NotedInCache
<1> QED BY <1>1, <1>2

\* The serial of a message that is to be marshalled is later.
LEMMA TopBelow ==
  ASSUME Inv, NEW c \in Channels, msg[c] = Idle
  PROVE  Serial(c) \in Nat /\ Top(c) <= Serial(c)
<1>1. last[c] \in Nat /\ Top(c) = last[c] /\ Serial(c) = last[c] + 1
  BY DEF Inv, Typed, SendTypes, Top, Serial, Idle
<1> QED BY <1>1

LEMMA TouchCounts ==
  ASSUME Inv, Kept, Counts, NEW h \in Hosts, NEW c \in Channels, NEW x \in Images, NEW n \in Nat,
         InCache(h, x), Touch(h, c, x, n), Top(c) <= n,
         UNCHANGED <<available, size, mini, frozen, generation>>
  PROVE  Counts'
<1>1. \A g \in Hosts : \A y : InCache(g, y)' <=> InCache(g, y)
  BY TouchKept
<1>2. \A g \in Hosts : lru[g] = <<>> => lru'[g] = <<>>
  BY DEF Touch, InCache, Inv, Typed, CacheTypes
<1>3. \A g \in Hosts : Counted(g)'
  BY <1>1, <1>2, CountedStays DEF Counts
<1>4. ASSUME NEW g \in Hosts, NEW y \in Images, NEW d \in Channels, InCache(g, y)'
      PROVE  used'[g][y][d] <= sync'[g][d]
  <2>1. /\ used \in [Hosts -> [Images -> [Channels -> Nat]]]
        /\ sync \in [Hosts -> [Channels -> Nat]]
        /\ used' = [used EXCEPT ![h][x][c] = n] /\ sync' = [sync EXCEPT ![h][c] = n]
    BY DEF Touch, Inv, Typed, CacheTypes
  <2>2. used[g][y][d] <= sync[g][d] /\ used[g][y][d] \in Nat /\ sync[g][d] \in Nat
    BY <1>1, <1>4, <2>1 DEF Counts, NotedLast
  <2>3. sync[h][c] \in Nat /\ sync[h][c] <= n
    BY NotedLater
  <2>4. CASE g = h /\ d = c
    <3>1. sync'[g][d] = n /\ used'[g][y][d] \in {n, used[g][y][d]}
      BY <2>1, <2>4
    <3> QED BY <2>2, <2>3, <2>4, <3>1
  <2>5. CASE ~(g = h /\ d = c)
    <3>1. sync'[g][d] = sync[g][d] /\ used'[g][y][d] = used[g][y][d]
      BY <2>1, <2>5
    <3> QED BY <2>2, <3>1
  <2> QED BY <2>4, <2>5
<1>5. \A g \in Hosts : NotedLast(g)'
  BY <1>4 DEF NotedLast
<1> QED BY <1>3, <1>5 DEF Counts

\* What changes no cache, or the serials only.
LEMMA RestCounts ==
  ASSUME Counts, UNCHANGED <<lru, used, sync, available, size, mini>>
  PROVE  Counts'
<1>1. \A h \in Hosts : Counted(h)' /\ NotedLast(h)'
  BY DEF Counts, Counted, NotedLast, Items, InCache
<1> QED BY <1>1 DEF Counts

LEMMA HitCounts ==
  ASSUME Inv, Kept, Counts, NEW c \in Channels, NEW x \in Images,
         MarshallUpgrade(c, x), InCache(host[c], x)
  PROVE  Counts'
<1>1. /\ UNCHANGED <<available, size, mini, frozen, generation>> /\ msg[c] = Idle
      /\ host[c] \in Hosts /\ Touch(host[c], c, x, Serial(c))
  BY DEF MarshallUpgrade, Ready, Kept, Resting
<1>2. Serial(c) \in Nat /\ Top(c) <= Serial(c)
  BY <1>1, TopBelow
<1> QED BY <1>1, <1>2, TouchCounts

LEMMA SwitchToUrgentCounts ==
  ASSUME Inv, Kept, Counts, NEW c \in Channels, SwitchToUrgent(c)
  PROVE  Counts'
<1>1. /\ UNCHANGED <<available, size, mini, frozen, generation>>
      /\ host[c] \in Hosts /\ msg[c].phase = "build"
  BY DEF SwitchToUrgent, pipeVars, Inv, Connected
<1>2. CASE msg[c].op # NoOp /\ InCache(host[c], msg[c].op.id)
  <2>1. /\ msg[c].op.id \in Images /\ last[c] + 2 \in Nat
        /\ Top(c) <= last[c] + 2
    BY <1>1, <1>2 DEF Inv, Typed, SendTypes, Marshalling, Ops, Top, Serial
  <2>2. Touch(host[c], c, msg[c].op.id, last[c] + 2)
    BY <1>2 DEF SwitchToUrgent
  <2> QED BY <1>1, <1>2, <2>1, <2>2, TouchCounts
<1>3. CASE ~(msg[c].op # NoOp /\ InCache(host[c], msg[c].op.id))
  BY <1>1, <1>3, RestCounts DEF SwitchToUrgent
<1> QED BY <1>2, <1>3

\* The items, and what an addition takes from them.
LEMMA ItemsCounted ==
  ASSUME Inv, Kept, NEW h \in Hosts, NEW k \in 0..Len(lru[h])
  PROVE  LET n == Len(lru[h])
             gone == {lru[h][i] : i \in (n - k + 1)..n}
             kept == {lru[h][i] : i \in 1..(n - k)}
         IN  /\ Items(h) = kept \cup gone /\ kept \cap gone = {}
             /\ IsFiniteSet(kept) /\ IsFiniteSet(gone)
             /\ kept \subseteq Images /\ gone \subseteq Images
             /\ \A x \in Images : SizeOf[x] \in Nat
             /\ SumFunctionOnSet([i \in 1..n |-> SizeOf[lru[h][i]]], (n - k + 1)..n)
                  = SumFunctionOnSet(SizeOf, gone)
<1> DEFINE n == Len(lru[h])
           gone == {lru[h][i] : i \in (n - k + 1)..n}
           kept == {lru[h][i] : i \in 1..(n - k)}
<1>1. /\ n \in Nat /\ lru[h] \in Seq(Images) /\ DOMAIN lru[h] = 1..n
      /\ \A i \in 1..n : lru[h][i] \in Images
      /\ OnceIn(lru[h])
  BY ElementOfSeq, LenProperties DEF Inv, Typed, CacheTypes, Kept, Filled
<1>2. /\ (n - k + 1)..n \subseteq 1..n /\ 1..(n - k) \subseteq 1..n
      /\ \A i \in 1..n : i \in 1..(n - k) \/ i \in (n - k + 1)..n
      /\ \A i \in 1..(n - k) : i \notin (n - k + 1)..n
      /\ IsFiniteSet((n - k + 1)..n) /\ IsFiniteSet(1..(n - k))
  <2>1. n - k + 1 \in Int /\ n \in Int /\ 1 \in Int /\ n - k \in Int
    BY <1>1
  <2>2. IsFiniteSet((n - k + 1)..n) /\ IsFiniteSet(1..(n - k))
    BY <2>1, FS_Interval
  <2> HIDE DEF n
  <2> QED BY <1>1, <2>2
<1>3. \A x \in Images : SizeOf[x] \in Nat
  BY ImagesAssumption
<1>4. \A i \in 1..n : SizeOf[lru[h][i]] \in Nat
  BY <1>1, <1>3
<1> HIDE DEF n
<1>5. ASSUME NEW I, I \subseteq 1..n, IsFiniteSet(I)
      PROVE  /\ IsFiniteSet({lru[h][i] : i \in I})
             /\ SumFunctionOnSet([i \in 1..n |-> SizeOf[lru[h][i]]], I)
                  = SumFunctionOnSet(SizeOf, {lru[h][i] : i \in I})
  <2>1. PICK q, p, T : q = lru[h] /\ p = [i \in 1..n |-> SizeOf[q[i]]] /\ T = {q[i] : i \in I}
    OBVIOUS
  <2>2. /\ I \subseteq DOMAIN q /\ OnceIn(q)
        /\ \A i \in I : SizeOf[q[i]] \in Nat /\ p[i] = SizeOf[q[i]]
    BY <1>1, <1>4, <1>5, <2>1
  <2>a. \A y : y \in T <=> \E i \in I : y = q[i]
    BY <2>1
  <2>b. PICK f : f = SizeOf
    OBVIOUS
  <2>c. I \subseteq DOMAIN q
    BY <2>2
  <2>d. OnceIn(q)
    BY <2>2
  <2>e. \A i \in I : f[q[i]] \in Nat /\ p[i] = f[q[i]]
    BY <2>2, <2>b
  <2>f. IsFiniteSet(I)
    BY <1>5
  <2>g. IsFiniteSet(T) /\ SumFunctionOnSet(p, I) = SumFunctionOnSet(f, T)
    BY <2>a, <2>c, <2>d, <2>e, <2>f, SumPlaces
  <2>3. IsFiniteSet(T) /\ SumFunctionOnSet(p, I) = SumFunctionOnSet(SizeOf, T)
    BY <2>b, <2>g
  <2> QED BY <2>1, <2>3
<1>6. /\ IsFiniteSet(kept) /\ IsFiniteSet(gone)
      /\ SumFunctionOnSet([i \in 1..n |-> SizeOf[lru[h][i]]], (n - k + 1)..n)
           = SumFunctionOnSet(SizeOf, gone)
  BY <1>2, <1>5
<1>7. kept \subseteq Images /\ gone \subseteq Images /\ kept \cap gone = {}
  <2>1. \A i, j \in 1..n : lru[h][i] = lru[h][j] => i = j
    BY <1>1 DEF OnceIn
  <2> QED BY <1>1, <1>2, <2>1
<1>8. Items(h) = kept \cup gone
  BY <1>1, <1>2 DEF Items, InCache
<1> QED BY <1>3, <1>6, <1>7, <1>8 DEF n

LEMMA AddCounts ==
  ASSUME Inv, Kept, Counts, NEW c \in Channels, NEW x \in Images,
         MarshallUpgrade(c, x), ~InCache(host[c], x)
  PROVE  Counts'
<1>a. PICK h \in Hosts : h = host[c]
  BY DEF MarshallUpgrade, Ready
<1>1. /\ UNCHANGED <<size, mini>> /\ msg[c] = Idle /\ Add(h, c, x) /\ ~InCache(h, x)
  BY <1>a DEF MarshallUpgrade, Ready, Kept, Resting
<1>2. CASE generation[h] # gen[c]
  BY <1>1, <1>2, RestCounts DEF Add
<1>3. CASE generation[h] = gen[c]
  <2> DEFINE k == Evictions(h, c, x)
             n == Len(lru[h])
             fits == Room(h, x, k) >= 0
             gone == {lru[h][i] : i \in (n - k + 1)..n}
             kept == {lru[h][i] : i \in 1..(n - k)}
             f == IF fits THEN [NoSync EXCEPT ![c] = Serial(c)] ELSE used[h][x]
  <2>1. /\ available' = [available EXCEPT ![h] = Room(h, x, k) + (IF fits THEN 0 ELSE SizeOf[x])]
        /\ used' = [used EXCEPT ![h][x] = f]
        /\ sync' = [sync EXCEPT ![h][c] = IF fits \/ k > 0 THEN Serial(c) ELSE @]
    BY <1>1, <1>3 DEF Add
  <2>2. k \in 0..n
    BY EvictionsBounded DEF Inv
  <2>3. /\ Items(h) = kept \cup gone /\ kept \cap gone = {}
        /\ IsFiniteSet(kept) /\ IsFiniteSet(gone)
        /\ kept \subseteq Images /\ gone \subseteq Images
        /\ \A y \in Images : SizeOf[y] \in Nat
        /\ SumFunctionOnSet([i \in 1..n |-> SizeOf[lru[h][i]]], (n - k + 1)..n)
             = SumFunctionOnSet(SizeOf, gone)
    BY <2>2, ItemsCounted
  <2>4. Room(h, x, k) = available[h] - SizeOf[x] + SumFunctionOnSet(SizeOf, gone)
    BY <2>3 DEF Room
  <2>5. \A y : InCache(h, y)' <=> (fits /\ y = x) \/ \E i \in 1..(n - k) : lru[h][i] = y
    BY <1>1, <1>3, Added
  <2>6. /\ \A g \in Hosts \ {h} : lru'[g] = lru[g] /\ available'[g] = available[g]
        /\ lru[h] = <<>> /\ available[h] = -1 => lru'[h] = <<>> /\ available'[h] = -1
    BY <1>1, <1>3, Added
  <2>7. PICK s \in Nat : s = Serial(c) /\ \A g \in Hosts : sync[g][c] \in Nat /\ sync[g][c] <= s
    BY <1>1, TopBelow, NotedLater
  <2>8. \A y \in kept \cup gone : SizeOf[y] \in Nat
    BY <2>3
  <2>9. /\ SumFunctionOnSet(SizeOf, kept) \in Nat /\ SumFunctionOnSet(SizeOf, gone) \in Nat
        /\ SumFunctionOnSet(SizeOf, Items(h)) =
             SumFunctionOnSet(SizeOf, kept) + SumFunctionOnSet(SizeOf, gone)
    <3> HIDE DEF kept, gone, k, n
    <3>1. SumFunctionOnSet(SizeOf, kept) \in Nat /\ SumFunctionOnSet(SizeOf, gone) \in Nat
      BY <2>3, <2>8, SumNat
    <3>2. SumFunctionOnSet(SizeOf, kept \cup gone) =
            SumFunctionOnSet(SizeOf, kept) + SumFunctionOnSet(SizeOf, gone)
      BY <2>3, <2>8, SumUnion
    <3> QED BY <2>3, <3>1, <3>2
  <2>10. Items(h)' = kept \cup (IF fits THEN {x} ELSE {})
    <3>1. \A y : y \in kept <=> \E i \in 1..(n - k) : lru[h][i] = y
      OBVIOUS
    <3> HIDE DEF kept, gone, k, n, fits
    <3> QED BY <2>3, <2>5, <3>1 DEF Items
  <2>11. x \notin kept /\ SizeOf[x] \in Nat
    <3> HIDE DEF kept, gone, k, n, fits
    <3> QED BY <1>1, <2>3 DEF Items
  <2> HIDE DEF kept, gone, k, n, fits
  <2>12. fits => SumFunctionOnSet(SizeOf, Items(h)') = SizeOf[x] + SumFunctionOnSet(SizeOf, kept)
    <3> SUFFICES ASSUME fits
                 PROVE  SumFunctionOnSet(SizeOf, Items(h)')
                          = SizeOf[x] + SumFunctionOnSet(SizeOf, kept)
      OBVIOUS
    <3>1. PICK S : S = kept \cup {x}
      OBVIOUS
    <3>2. S \ {x} = kept /\ x \in S /\ \A y \in S : SizeOf[y] \in Nat
      BY <2>8, <2>11, <3>1
    <3>3. IsFiniteSet(S)
      BY <2>3, <3>1, FS_AddElement
    <3>4. SumFunctionOnSet(SizeOf, S) = SizeOf[x] + SumFunctionOnSet(SizeOf, kept)
      BY <3>2, <3>3, SumTake
    <3>5. Items(h)' = S
      BY <2>10, <3>1
    <3> QED BY <3>4, <3>5
  <2>13. ~fits => SumFunctionOnSet(SizeOf, Items(h)') = SumFunctionOnSet(SizeOf, kept)
    <3> SUFFICES ASSUME ~fits
                 PROVE  SumFunctionOnSet(SizeOf, Items(h)') = SumFunctionOnSet(SizeOf, kept)
      OBVIOUS
    <3>1. Items(h)' = kept
      BY <2>10
    <3> QED BY <3>1
  <2>14. available \in [Hosts -> Int]
    BY DEF Counts
  <2>15. available'[h] = Room(h, x, k) + (IF fits THEN 0 ELSE SizeOf[x])
    BY <2>1, <2>14
  <2>16. Counted(h)'
    <3>1. size[h] \in Nat \cup {-1} /\ size' = size
      BY <1>1 DEF Counts, Counted
    <3>2. CASE lru[h] = <<>> /\ available[h] = -1
      BY <2>6, <3>1, <3>2 DEF Counted
    <3>3. CASE /\ available[h] \in Nat
               /\ available[h] + SumFunctionOnSet(SizeOf, Items(h)) = size[h]
      <4>1. CASE fits
        <5>1. available'[h] = available[h] - SizeOf[x] + SumFunctionOnSet(SizeOf, gone)
              /\ available'[h] >= 0
          BY <2>4, <2>9, <2>11, <2>15, <3>3, <4>1 DEF fits
        <5>2. available'[h] \in Nat
              /\ available'[h] + SumFunctionOnSet(SizeOf, Items(h)') = size[h]
          BY <2>9, <2>11, <2>12, <3>3, <4>1, <5>1
        <5> QED BY <3>1, <5>2 DEF Counted
      <4>2. CASE ~fits
        <5>1. available'[h] = available[h] + SumFunctionOnSet(SizeOf, gone)
          BY <2>4, <2>9, <2>11, <2>15, <3>3, <4>2
        <5>2. available'[h] \in Nat
              /\ available'[h] + SumFunctionOnSet(SizeOf, Items(h)') = size[h]
          BY <2>9, <2>13, <3>3, <4>2, <5>1
        <5> QED BY <3>1, <5>2 DEF Counted
      <4> QED BY <4>1, <4>2
    <3> QED BY <3>2, <3>3 DEF Counts, Counted
  <2>17. available' \in [Hosts -> Int]
    <3>1. available'[h] \in Int
      BY <2>16 DEF Counted
    <3>2. available' = [available EXCEPT ![h] = available'[h]]
      BY <2>1, <2>14
    <3> QED BY <2>14, <3>1, <3>2
  <2>18. /\ used \in [Hosts -> [Images -> [Channels -> Nat]]]
         /\ sync \in [Hosts -> [Channels -> Nat]]
    BY DEF Inv, Typed, CacheTypes
  <2>19. ASSUME NEW g \in Hosts, NEW d \in Channels
         PROVE  /\ sync[g][d] \in Nat /\ sync'[g][d] \in Nat /\ sync[g][d] <= sync'[g][d]
                /\ g = h /\ d = c /\ fits => sync'[g][d] = s
    <3>1. sync'[g][d] = IF g = h /\ d = c /\ (fits \/ k > 0) THEN s ELSE sync[g][d]
      BY <2>1, <2>7, <2>18
    <3> QED BY <2>7, <2>18, <3>1
  <2>20. ASSUME NEW g \in Hosts, NEW y \in Images, NEW d \in Channels, InCache(g, y)'
         PROVE  used'[g][y][d] <= sync'[g][d]
    <3>1. CASE g # h \/ y # x
      <4>1. InCache(g, y)
        <5>1. CASE g # h
          BY <2>6, <2>20, <5>1 DEF InCache
        <5>2. CASE g = h
          <6>1. y \in Items(h)'
            BY <2>20, <5>2 DEF Items
          <6> QED BY <2>3, <2>10, <3>1, <5>2, <6>1 DEF Items
        <5> QED BY <5>1, <5>2
      <4>2. used[g][y][d] <= sync[g][d] /\ used[g][y][d] \in Nat
        BY <2>18, <4>1 DEF Counts, NotedLast
      <4>3. used'[g][y][d] = used[g][y][d]
        BY <2>1, <2>18, <3>1
      <4> QED BY <2>19, <4>2, <4>3
    <3>2. CASE g = h /\ y = x
      <4>1. fits
        <5>1. x \in Items(h)'
          BY <2>20, <3>2 DEF Items
        <5> QED BY <2>10, <2>11, <5>1
      <4>2. used'[h][x] = f
        BY <2>1, <2>18
      <4>3. f = [NoSync EXCEPT ![c] = s]
        BY <2>7, <4>1
      <4>4. used'[h][x][d] = IF d = c THEN s ELSE 0
        BY <4>2, <4>3 DEF NoSync
      <4>5. d = c => sync'[h][d] = s
        BY <2>19, <4>1
      <4> QED BY <2>7, <2>19, <3>2, <4>4, <4>5
    <3> QED BY <3>1, <3>2
  <2>21. \A g \in Hosts : NotedLast(g)'
    BY <2>20 DEF NotedLast
  <2>22. ASSUME NEW g \in Hosts, g # h
         PROVE  Counted(g)'
    <3>1. /\ lru'[g] = lru[g] /\ available'[g] = available[g] /\ size'[g] = size[g]
          /\ \A y : InCache(g, y)' <=> InCache(g, y)
      BY <1>1, <2>6, <2>22 DEF InCache
    <3>2. Counted(g)
      BY DEF Counts
    <3> QED BY <3>1, <3>2, CountedStays
  <2> QED BY <1>1, <2>16, <2>17, <2>21, <2>22 DEF Counts
<1> QED BY <1>2, <1>3

LEMMA ResetCounts ==
  ASSUME Inv, Kept, Counts, NEW c \in Channels, MarshallReset(c)
  PROVE  Counts'
<1>a. PICK h \in Hosts : h = host[c]
  BY DEF MarshallReset, Ready
<1>1. /\ lru' = [lru EXCEPT ![h] = <<>>] /\ available' = [available EXCEPT ![h] = size[h]]
      /\ sync' = [sync EXCEPT ![h][c] = Serial(c)] /\ UNCHANGED <<used, size, mini>>
  BY <1>a DEF MarshallReset
<1>2. /\ lru \in [Hosts -> Seq(Images)] /\ sync \in [Hosts -> [Channels -> Nat]]
      /\ available \in [Hosts -> Int] /\ size \in [Hosts -> Int]
      /\ size[h] \in Nat \cup {-1}
  BY DEF Inv, Typed, CacheTypes, Counts, Counted
<1>3. lru'[h] = <<>> /\ available'[h] = size'[h] /\ available' \in [Hosts -> Int]
  BY <1>1, <1>2
<1>4. Counted(h)'
  BY <1>1, <1>2, <1>3, CountedEmpty
<1>5. NotedLast(h)'
  BY <1>3 DEF NotedLast, InCache
<1>6. ASSUME NEW g \in Hosts, g # h
      PROVE  Counted(g)' /\ NotedLast(g)'
  <2>1. lru'[g] = lru[g] /\ available'[g] = available[g] /\ sync'[g] = sync[g]
    BY <1>1, <1>2, <1>6
  <2>2. Counted(g) /\ NotedLast(g)
    BY DEF Counts
  <2>3. \A y : InCache(g, y)' <=> InCache(g, y)
    BY <2>1 DEF InCache
  <2>4. Counted(g)'
    BY <1>1, <2>1, <2>2, <2>3, CountedStays
  <2> QED BY <1>1, <2>1, <2>2, <2>3, <2>4 DEF NotedLast
<1> QED BY <1>1, <1>2, <1>3, <1>4, <1>5, <1>6 DEF Counts

LEMMA MarshallMigrateDataCounts ==
  ASSUME Inv, Kept, Counts, NEW c \in Channels, MarshallMigrateData(c)
  PROVE  Counts'
<1>1. /\ lru' = [lru EXCEPT !["source"] = <<>>]
      /\ available' = [available EXCEPT !["source"] = -1]
      /\ UNCHANGED <<used, sync, size, mini>>
  BY DEF MarshallMigrateData
<1>2. lru \in [Hosts -> Seq(Images)] /\ available \in [Hosts -> Int]
  BY DEF Inv, Typed, CacheTypes, Counts
<1>3. /\ lru'["source"] = <<>> /\ available'["source"] = -1
      /\ lru'["target"] = lru["target"] /\ available'["target"] = available["target"]
      /\ available' \in [Hosts -> Int]
  BY <1>1, <1>2 DEF Hosts
<1>4. /\ Counted("source") /\ Counted("target") /\ NotedLast("target")
  BY DEF Counts, Hosts
<1>5. Counted("source")' /\ NotedLast("source")'
  BY <1>1, <1>3, <1>4 DEF Counted, NotedLast, InCache
<1>6. \A y : InCache("target", y)' <=> InCache("target", y)
  BY <1>3 DEF InCache
<1>7. Counted("target")'
  BY <1>1, <1>3, <1>4, <1>6, CountedStays DEF Hosts
<1>8. NotedLast("target")'
  BY <1>1, <1>4, <1>6 DEF NotedLast
<1> QED BY <1>1, <1>3, <1>5, <1>7, <1>8 DEF Counts, Hosts

LEMMA HandleMigrateDataCounts ==
  ASSUME Inv, Kept, Counts, NEW c \in Channels, HandleMigrateData(c)
  PROVE  Counts'
<1>1. /\ sync' = [sync EXCEPT !["target"] = Later(@, moved[c].sync)]
      /\ size' = [size EXCEPT !["target"] = IF moved[c].freezer THEN CacheSize ELSE @]
      /\ UNCHANGED <<lru, used, available, mini>> /\ host[c] = "moving"
  BY DEF HandleMigrateData
<1>2. /\ sync \in [Hosts -> [Channels -> Nat]] /\ moved[c].sync \in [Channels -> Nat]
      /\ used \in [Hosts -> [Images -> [Channels -> Nat]]]
      /\ size \in [Hosts -> Int] /\ CacheSize \in Nat
  BY ImagesAssumption DEF Inv, Typed, CacheTypes, PipeTypes, Counts
<1>3. /\ size' \in [Hosts -> Int] /\ size'["source"] = size["source"]
      /\ size'["target"] \in {size["target"], CacheSize}
      /\ ~moved[c].freezer => size'["target"] = size["target"]
      /\ sync'["source"] = sync["source"] /\ sync'["target"] = Later(sync["target"], moved[c].sync)
  BY <1>1, <1>2 DEF Hosts
<1>4. \A h \in Hosts : Counted(h) /\ NotedLast(h) /\ \A y : InCache(h, y)' <=> InCache(h, y)
  BY <1>1 DEF Counts, InCache
<1>5. Counted("source")'
  BY <1>1, <1>3, <1>4, CountedStays DEF Hosts
<1>6. Counted("target")'
  <2>1. CASE moved[c].freezer
    <3>1. lru["target"] = <<>> /\ available["target"] = -1
      BY <1>1, <2>1 DEF Kept, Filled, Inv, ResetsFollowed, WillReset
    <3>2. size'["target"] \in Nat \cup {-1}
      BY <1>2, <1>3, <1>4 DEF Counted, Hosts
    <3> QED BY <1>1, <3>1, <3>2 DEF Counted
  <2>2. CASE ~moved[c].freezer
    BY <1>1, <1>3, <1>4, <2>2, CountedStays DEF Hosts
  <2> QED BY <2>1, <2>2
<1>7. \A d \in Channels : sync'["target"][d] \in Nat /\ sync["target"][d] <= sync'["target"][d]
  BY <1>2, <1>3 DEF Later, MaxOf, Hosts
<1>8. NotedLast("target")'
  <2> SUFFICES ASSUME NEW y \in Images, NEW d \in Channels, InCache("target", y)
               PROVE  used'["target"][y][d] <= sync'["target"][d]
    BY <1>4 DEF NotedLast, Hosts
  <2>1. /\ used["target"][y][d] <= sync["target"][d]
        /\ used["target"][y][d] \in Nat /\ sync["target"][d] \in Nat
    BY <1>2, <1>4 DEF NotedLast, Hosts
  <2> QED BY <1>1, <1>7, <2>1
<1>9. NotedLast("source")'
  BY <1>1, <1>3, <1>4 DEF NotedLast, Hosts
<1> QED BY <1>1, <1>3, <1>5, <1>6, <1>8, <1>9 DEF Counts, Hosts

LEMMA InitCounts == ASSUME Init PROVE Counts
<1>1. /\ \A h \in Hosts : lru[h] = <<>> /\ available[h] = size[h]
      /\ size \in [Hosts -> Nat \cup {-1}] /\ available = size /\ mini \subseteq Channels
  BY ImagesAssumption, ChannelsAssumption DEF Init
<1>2. \A h \in Hosts : Items(h) = {} /\ NotedLast(h)
  BY <1>1 DEF Items, NotedLast, InCache
<1>3. \A h \in Hosts : SumFunctionOnSet(SizeOf, Items(h)) = 0
  BY <1>2, EmptySum
<1>4. \A h \in Hosts : Counted(h)
  BY <1>1, <1>3 DEF Counted
<1> QED BY <1>1, <1>2, <1>4 DEF Counts

LEMMA NextCounts ==
  ASSUME Inv, Kept, Counts, [Next]_vars
  PROVE  Counts'
<1>1. ASSUME NEW c \in Channels, NEW x \in Images, MarshallUpgrade(c, x)
      PROVE  Counts'
  BY <1>1, HitCounts, AddCounts
<1>2. ASSUME NEW c \in Channels,
             \/ MarshallPixmapSync(c) \/ BeginSend(c) \/ SendUrgent(c) \/ SendMain(c)
             \/ Client(c)
      PROVE  Counts'
  BY <1>2, RestCounts DEF MarshallPixmapSync, BeginSend, SendUrgent, SendMain, Client,
     Invalidate, DrawImage, cacheVars, pipeVars
<1>3. ASSUME NEW c \in Channels,
             \/ MarshallReset(c) \/ SwitchToUrgent(c)
             \/ MarshallMigrateData(c) \/ HandleMigrateData(c)
      PROVE  Counts'
  BY <1>3, ResetCounts, SwitchToUrgentCounts, MarshallMigrateDataCounts,
     HandleMigrateDataCounts
<1>4. UNCHANGED vars => Counts'
  BY RestCounts DEF vars
<1> QED BY <1>1, <1>2, <1>3, <1>4 DEF Next, Worker

LEMMA CountsMean == ASSUME Inv, Kept, Counts PROVE CacheSound
<1> SUFFICES ASSUME NEW h \in Hosts
             PROVE  /\ \A i, j \in DOMAIN lru[h] : lru[h][i] = lru[h][j] => i = j
                    /\ available[h] >= 0 =>
                         available[h] + SumFunctionOnSet(SizeOf, {x \in Images : InCache(h, x)})
                           = size[h]
                    /\ lru[h] # <<>> => available[h] >= 0
                    /\ \A c \in Channels, i \in DOMAIN lru[h] :
                         used[h][lru[h][i]][c] <= sync[h][c]
  BY DEF CacheSound
<1>1. Counted(h) /\ NotedLast(h) /\ OnceIn(lru[h])
  BY DEF Counts, Kept, Filled
<1>2. \A i \in DOMAIN lru[h] : lru[h][i] \in Images /\ InCache(h, lru[h][i])
  BY ElementOfSeq, LenProperties DEF Inv, Typed, CacheTypes, InCache
<1>3. \A c \in Channels, i \in DOMAIN lru[h] : used[h][lru[h][i]][c] <= sync[h][c]
  BY <1>1, <1>2 DEF NotedLast
<1>4. lru[h] # <<>> => available[h] >= 0
  BY <1>1 DEF Counted
<1>5. available[h] >= 0 =>
        available[h] + SumFunctionOnSet(SizeOf, {x \in Images : InCache(h, x)}) = size[h]
  BY <1>1 DEF Counted, Items
<1> QED BY <1>1, <1>3, <1>4, <1>5 DEF OnceIn

LEMMA TypesHold == ASSUME Inv, Kept, Followed, Counts PROVE TypeOK
<1>1. stage \in [Channels -> {"wait", "draw"}] /\ images \subseteq Images
  BY DEF Followed, Staged
<1>2. /\ lru \in [Hosts -> Seq(Images)]
      /\ used \in [Hosts -> [Images -> [Channels -> Nat]]]
      /\ sync \in [Hosts -> [Channels -> Nat]]
      /\ frozen \in [Hosts -> BOOLEAN]
      /\ generation \in [Hosts -> Nat]
      /\ initiator \in [Hosts -> [client : Channels \cup {Nobody}, message : Nat]]
      /\ era \in [Images -> Nat]
  BY DEF Inv, Typed, CacheTypes
<1>3. /\ host \in [Channels -> Hosts \cup {"moving", "closed"}]
      /\ gen \in [Channels -> Nat]
      /\ syncDue \in [Channels -> BOOLEAN]
      /\ resetDue \in [Channels -> BOOLEAN]
      /\ moved \in [Channels -> [freezer : BOOLEAN, sync : [Channels -> Nat]]]
  BY DEF Inv, Typed, PipeTypes
<1>4. /\ last \in [Channels -> Nat] /\ net \in [Channels -> Seq(Message)]
      /\ msg \in [Channels ->
           [phase : {"idle", "build", "urgent", "main"}, op : Ops,
            evicted : SUBSET Entries, clear : SUBSET Entries, waits : SUBSET Waits,
            sync : [Channels -> Nat]]]
  BY DEF Inv, Typed, SendTypes, NetTypes, Marshalling, Phases
<1>5. done \in [Channels -> Nat]
  BY DEF Kept, Numbered
<1> QED BY <1>1, <1>2, <1>3, <1>4, <1>5 DEF TypeOK, Counts

LEMMA CountsAlways == Spec => [](Inv /\ Kept /\ Followed /\ Counts)
<1>1. Init => Inv /\ Kept /\ Followed /\ Counts
  BY InitInv, InitKept, InitFollowed, InitCounts
<1>2. Inv /\ Kept /\ Followed /\ Counts /\ [Next]_vars => Inv' /\ Kept' /\ Followed' /\ Counts'
  BY NextInv, NextKept, NextFollowed, NextCounts
<1> QED BY <1>1, <1>2, PTL DEF Spec

\* dcc_pixmap_cache_unlocked_hit and dcc_pixmap_cache_unlocked_add: the pixels that are
\* left and those of the items make up the size of the cache, an image is an item once,
\* and no item has a later serial than the cache.
THEOREM CacheAlwaysSound == Spec => []CacheSound
<1>1. Inv /\ Kept /\ Counts => CacheSound
  BY CountsMean
<1> QED BY <1>1, CountsAlways, PTL

\* PixmapCache and DisplayChannelClient: the cache, what the channels have of it, their
\* messages and the memory of the client keep their types.
THEOREM CacheTyped == Spec => []TypeOK
<1>1. Inv /\ Kept /\ Followed /\ Counts => TypeOK
  BY TypesHold
<1> QED BY <1>1, CountsAlways, PTL

=============================================================================

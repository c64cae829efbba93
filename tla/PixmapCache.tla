---------------------------- MODULE PixmapCache ----------------------------
(***************************************************************************)
(* The pixmap cache of one client.  The display channels of the client     *)
(* (one per QXL device, each in a worker thread of its own) share one      *)
(* cache on the server (pixmap-cache.c, red_worker.c) and one on the       *)
(* client (spice-glib, channel-display.c).  The server decides what either *)
(* holds: an image is sent once with CACHE_ME and named by its id after    *)
(* that.  The channels are separate streams, so a message that removes an  *)
(* image waits until the other channels have handled the messages that     *)
(* use it.                                                                 *)
(*                                                                         *)
(* One action is one section under PixmapCache.lock, or one step of a      *)
(* client coroutine between two places where it may yield.  A message is   *)
(* the part of it the cache is about: its serial, the serials it waits     *)
(* for, the images it invalidates, and the image it draws.                 *)
(*                                                                         *)
(* Drawables go out as video here (marshall_qxl_drawable returns after     *)
(* red_marshall_stream_data), so the one message with an image of the      *)
(* cache is the upgrade of a stream that ended: one image, never lossy.    *)
(***************************************************************************)
EXTENDS Integers, Sequences, FiniteSets, FiniteSetsExt, Functions

CONSTANTS
  Channels,     \* common.id of the display channels there may be
  OpenChoices,  \* sets of them that the client may have connected
  Images,       \* descriptor.id of cacheable images
  SizeOf,       \* pixels of an image
  CacheSize,    \* pixmap_cache_size, as the client asks for
  MiniChoices,  \* sets of channels that may have negotiated the mini header
  Migration,    \* whether the client may be migrated to another server
  MaxSerial,    \* bound: messages of a channel, in MaxSerial[c]
  Nobody        \* no channel

ASSUME ImagesAssumption == SizeOf \in [Images -> Nat \ {0}] /\ CacheSize \in Nat
ASSUME ChannelsAssumption ==
  /\ OpenChoices \subseteq SUBSET Channels
  /\ MiniChoices \subseteq SUBSET Channels
  /\ Nobody \notin Channels
ASSUME BoundsAssumption ==
  /\ Migration \in BOOLEAN
  /\ MaxSerial \in [Channels -> Nat]

Hosts == {"source", "target"}    \* the server, and the one migrated to

VARIABLES
  \* PixmapCache, one on each host
  lru,          \* ids of the items, most recently used first
  used,         \* NewCacheItem.sync: last serial of a channel that used it
  sync,         \* PixmapCache.sync: last serial of a channel that used any
  available,    \* pixels left; -1 when frozen or not yet set up
  size,         \* PixmapCache.size; -1 before it is known
  frozen,       \* PixmapCache.freezed
  generation,   \* PixmapCache.generation
  initiator,    \* generation_initiator, [client, message]
  \* RedChannelClient and DisplayChannelClient
  mini,         \* the channels with is_mini_header
  host,         \* the server the channel is on, "moving", or "closed"
  last,         \* send_data.last_sent_serial
  gen,          \* pixmap_cache_generation
  syncDue,      \* pending_pixmaps_sync: PIXMAP_SYNC is in the pipe
  resetDue,     \* PIXMAP_RESET is in the pipe
  moved,        \* migrate data on its way, [freezer, sync]
  msg,          \* the message the worker is at
  \* the connections, and the client
  net,          \* messages sent and not yet handled
  stage,        \* "wait" before the first one's invalidations, "draw" after
  done,         \* SpiceChannelPrivate.last_message_serial
  images,       \* ids of the images in the client's cache
  era           \* history: how often an image has left the server's cache

cacheVars == <<lru, used, sync, available, size, frozen, generation,
               initiator, era>>
pipeVars == <<mini, gen, syncDue, resetDue, host, moved>>
clientVars == <<net, stage, done, images>>
vars == <<lru, used, sync, available, size, frozen, generation,
          initiator, mini, host, last, gen, syncDue, resetDue, moved, msg,
          net, stage, done, images, era>>

-----------------------------------------------------------------------------
(* Messages.                                                               *)

NoSync == [d \in Channels |-> 0]

\* What the client does with the image of a message: "put" it in its cache
\* (CACHE_ME), "get" it from there (FROM_CACHE), or neither.  The era tells
\* the entry of the server's cache the message was made with from others.
Op(kind, x) == [kind |-> kind, id |-> x, era |-> era[x]]
NoOp == [kind |-> "none"]
Ops == [kind : {"put", "get"}, id : Images, era : Nat] \cup {NoOp}
Entries == Images \X Nat
Waits == Channels \X Nat

\* No message is being marshalled.
Idle == [phase |-> "idle", op |-> NoOp, evicted |-> {}, clear |-> {},
         waits |-> {}, sync |-> NoSync]

\* red_channel_client_get_message_serial: the serial the message will have,
\* one more while the urgent list before it is not sent.
Serial(c) == last[c] + (IF msg[c].phase = "urgent" THEN 2 ELSE 1)

\* The greatest serial any marshalling of c has used so far.
Top(c) == IF msg[c].phase = "idle" THEN last[c] ELSE Serial(c)

\* Variant: a channel also waits for itself.
WaitsOfAll(c, s) == {<<d, s[d]>> : d \in {d \in Channels : s[d] # 0}}

\* wait.wait_list for a free list or a reset with these serials.
WaitsOf(c, s) == {<<d, s[d]>> : d \in {d \in Channels \ {c} : s[d] # 0}}

MaxOf(a, b) == IF a > b THEN a ELSE b
MinOf(a, b) == IF a < b THEN a ELSE b
Later(s, t) == [d \in Channels |-> MaxOf(s[d], t[d])]

Init ==
  /\ lru = [h \in Hosts |-> <<>>]
  /\ used = [h \in Hosts |-> [x \in Images |-> NoSync]]
  /\ sync = [h \in Hosts |-> NoSync]
  /\ size = [h \in Hosts |-> IF h = "source" THEN CacheSize ELSE -1]
  /\ available = size
  /\ frozen = [h \in Hosts |-> FALSE]
  /\ generation = [h \in Hosts |-> 0]
  /\ initiator = [h \in Hosts |-> [client |-> Nobody, message |-> 0]]
  /\ mini \in MiniChoices
  /\ \E open \in OpenChoices :
       host = [c \in Channels |-> IF c \in open THEN "source" ELSE "closed"]
  /\ last = [c \in Channels |-> 0]
  /\ gen = [c \in Channels |-> 0]
  /\ syncDue = [c \in Channels |-> FALSE]
  /\ resetDue = [c \in Channels |-> FALSE]
  /\ moved = [c \in Channels |-> [freezer |-> FALSE, sync |-> NoSync]]
  /\ msg = [c \in Channels |-> Idle]
  /\ net = [c \in Channels |-> <<>>]
  /\ stage = [c \in Channels |-> "wait"]
  /\ done = [c \in Channels |-> 0]
  /\ images = {}
  /\ era = [x \in Images |-> 0]

-----------------------------------------------------------------------------
(* The server cache, under its lock.  h is the host, c the channel.        *)

InCache(h, x) == \E i \in DOMAIN lru[h] : lru[h][i] = x
Without(s, x) ==
  LET i == CHOOSE j \in DOMAIN s : s[j] = x
  IN  SubSeq(s, 1, i - 1) \o SubSeq(s, i + 1, Len(s))

\* Variant: a hit does not record which message uses the item.
TouchUnrecorded(h, c, x, serial) ==
  /\ lru' = [lru EXCEPT ![h] = <<x>> \o Without(@, x)]
  /\ used' = used
  /\ sync' = [sync EXCEPT ![h][c] = serial]

\* dcc_pixmap_cache_unlocked_hit, for an item that is there.
Touch(h, c, x, serial) ==
  /\ lru' = [lru EXCEPT ![h] = <<x>> \o Without(@, x)]
  /\ used' = [used EXCEPT ![h][x][c] = serial]
  /\ sync' = [sync EXCEPT ![h][c] = serial]

\* dcc_pixmap_cache_unlocked_add takes items from the tail until x fits,
\* and gives up at one this message uses.  What it evicted stays evicted.
Room(h, x, k) ==
  LET n == Len(lru[h])
  IN  available[h] - SizeOf[x]
        + SumFunctionOnSet([i \in 1..n |-> SizeOf[lru[h][i]]], (n - k + 1)..n)
StopsAt(h, c, x, k) ==
  LET n == Len(lru[h])
  IN  \/ Room(h, x, k) >= 0
      \/ k = n
      \/ used[h][lru[h][n - k]][c] = Serial(c)
Evictions(h, c, x) ==
  CHOOSE k \in 0..Len(lru[h]) :
    /\ StopsAt(h, c, x, k)
    /\ \A j \in 0..(k - 1) : ~StopsAt(h, c, x, j)

\* Variant: the free list keeps the last released item only.
ReleasedLast(h, m, k) ==
  LET n == Len(lru[h])
  IN  [m EXCEPT
         !.evicted = {<<lru[h][i], era[lru[h][i]]>> : i \in (n - k + 1)..MinOf(n, n - k + 1)},
         !.sync = [d \in Channels |->
                     Max({@[d]} \cup {used[h][lru[h][i]][d] : i \in (n - k + 1)..n})]]

\* display_channel_push_release, for the last k items.
Released(h, m, k) ==
  LET n == Len(lru[h])
  IN  [m EXCEPT
         !.evicted = @ \cup {<<lru[h][i], era[lru[h][i]]>> : i \in (n - k + 1)..n},
         !.sync = [d \in Channels |->
                     Max({@[d]} \cup {used[h][lru[h][i]][d] : i \in (n - k + 1)..n})]]

\* Variant: the message lacks CACHE_ME for an image that got in.
AddUnmarked(h, c, x) ==
  LET k == Evictions(h, c, x)
      fits == Room(h, x, k) >= 0
      kept == SubSeq(lru[h], 1, Len(lru[h]) - k)
  IN  \/ /\ generation[h] # gen[c]
         /\ syncDue' = [syncDue EXCEPT ![c] = TRUE]
         /\ msg' = [msg EXCEPT ![c].phase = "build"]
         /\ UNCHANGED <<lru, used, sync, available, era>>
      \/ /\ generation[h] = gen[c]
         /\ lru' = [lru EXCEPT ![h] = IF fits THEN <<x>> \o kept ELSE kept]
         /\ available' = [available EXCEPT ![h] =
                            Room(h, x, k) + (IF fits THEN 0 ELSE SizeOf[x])]
         /\ used' = [used EXCEPT ![h][x] = IF fits THEN [NoSync EXCEPT ![c] = Serial(c)]
                                           ELSE @]
         /\ sync' = [sync EXCEPT ![h][c] = IF fits \/ k > 0 THEN Serial(c) ELSE @]
         /\ msg' = [msg EXCEPT ![c] = Released(h, [@ EXCEPT !.phase = "build"], k)]
         /\ era' = [y \in Images |->
                      era[y] + (IF InCache(h, y) /\ ~\E i \in DOMAIN kept : kept[i] = y
                                THEN 1 ELSE 0)]
         /\ UNCHANGED syncDue

\* dcc_pixmap_cache_unlocked_add.  A channel that has not followed the last
\* reset adds nothing; otherwise items are evicted, and x gets in if it fits.
Add(h, c, x) ==
  LET k == Evictions(h, c, x)
      fits == Room(h, x, k) >= 0
      kept == SubSeq(lru[h], 1, Len(lru[h]) - k)
  IN  \/ /\ generation[h] # gen[c]
         /\ syncDue' = [syncDue EXCEPT ![c] = TRUE]
         /\ msg' = [msg EXCEPT ![c].phase = "build"]
         /\ UNCHANGED <<lru, used, sync, available, era>>
      \/ /\ generation[h] = gen[c]
         /\ lru' = [lru EXCEPT ![h] = IF fits THEN <<x>> \o kept ELSE kept]
         /\ available' = [available EXCEPT ![h] =
                            Room(h, x, k) + (IF fits THEN 0 ELSE SizeOf[x])]
         /\ used' = [used EXCEPT ![h][x] = IF fits THEN [NoSync EXCEPT ![c] = Serial(c)]
                                           ELSE @]
         /\ sync' = [sync EXCEPT ![h][c] = IF fits \/ k > 0 THEN Serial(c) ELSE @]
         /\ msg' = [msg EXCEPT ![c] = Released(h, [@ EXCEPT !.phase = "build",
                      !.op = IF fits THEN Op("put", x) ELSE NoOp], k)]
         /\ era' = [y \in Images |->
                      era[y] + (IF InCache(h, y) /\ ~\E i \in DOMAIN kept : kept[i] = y
                                THEN 1 ELSE 0)]
         /\ UNCHANGED syncDue

-----------------------------------------------------------------------------
(* A worker that marshals and sends a message (display_channel_send_item). *)

\* The worker can take another item off the pipe.
Ready(c) ==
  /\ host[c] \in Hosts
  /\ last[c] < MaxSerial[c]
  /\ msg[c].phase = "idle"

\* red_display_marshall_upgrade: fill_bits, for an image with CACHE_ME.
MarshallUpgrade(c, x) ==
  /\ Ready(c)
  /\ IF InCache(host[c], x)
     THEN /\ Touch(host[c], c, x, Serial(c))
          /\ msg' = [msg EXCEPT ![c].phase = "build", ![c].op = Op("get", x)]
          /\ UNCHANGED <<available, syncDue, era>>
     ELSE Add(host[c], c, x)
  /\ UNCHANGED <<size, frozen, generation, initiator, mini, gen, resetDue, host,
                 moved, last, clientVars>>

\* The message is one that draws nothing, and waits for these serials.  If it
\* is INVAL_ALL_PIXMAPS, clear has all the entries there have been, else none.
Control(waits, clear) ==
  [Idle EXCEPT !.phase = "build", !.waits = waits, !.clear = clear]

\* PIPE_ITEM_TYPE_PIXMAP_SYNC.
MarshallPixmapSync(c) ==
  LET h == host[c]
  IN  /\ Ready(c)
      /\ syncDue[c]
      /\ syncDue' = [syncDue EXCEPT ![c] = FALSE]
      /\ gen' = [gen EXCEPT ![c] = generation[h]]
      /\ msg' = [msg EXCEPT ![c] =
                   Control({<<initiator[h].client, initiator[h].message>>}, {})]
      /\ UNCHANGED <<cacheVars, mini, resetDue, host, moved, last, clientVars>>

\* dcc_pixmap_cache_reset, for PIPE_ITEM_TYPE_PIXMAP_RESET.
MarshallReset(c) ==
  LET h == host[c]
  IN  /\ Ready(c)
      /\ resetDue[c]
      /\ resetDue' = [resetDue EXCEPT ![c] = FALSE]
      /\ lru' = [lru EXCEPT ![h] = <<>>]
      /\ frozen' = [frozen EXCEPT ![h] = FALSE]
      /\ available' = [available EXCEPT ![h] = size[h]]
      /\ generation' = [generation EXCEPT ![h] = @ + 1]
      /\ gen' = [gen EXCEPT ![c] = generation'[h]]
      /\ initiator' = [initiator EXCEPT ![h] = [client |-> c, message |-> Serial(c)]]
      /\ sync' = [sync EXCEPT ![h][c] = Serial(c)]
      /\ msg' = [msg EXCEPT ![c] = Control(WaitsOf(c, sync'[h]),
                     UNION {{x} \X (0..(era[x] - 1)) : x \in Images})]
      /\ UNCHANGED <<used, size, era, mini, syncDue, host, moved, last,
                     clientVars>>

\* What goes over the connection of c with the next serial.
Send(c, op) ==
  /\ net' = [net EXCEPT ![c] = Append(@,
       [serial |-> last[c] + 1,
        waits |-> msg[c].waits \cup
                    (IF msg[c].evicted = {} THEN {} ELSE WaitsOf(c, msg[c].sync)),
        inval |-> msg[c].evicted, clear |-> msg[c].clear, op |-> op])]
  /\ last' = [last EXCEPT ![c] = @ + 1]
  /\ UNCHANGED <<stage, done, images>>

\* display_begin_send_message, with nothing to free or with the free list as
\* sub-messages of the message (display_channel_send_free_list_legacy).  From
\* "idle", it is a message that has nothing to do with the cache.
BeginSend(c) ==
  /\ Ready(c) \/ msg[c].phase = "build"
  /\ msg[c].evicted = {} \/ c \notin mini
  /\ Send(c, msg[c].op)
  /\ msg' = [msg EXCEPT ![c] = Idle]
  /\ UNCHANGED <<cacheVars, pipeVars>>

\* display_channel_send_free_list: a message of its own, the urgent one,
\* takes the serial, and the image of the main one is hit again.
SwitchToUrgent(c) ==
  /\ msg[c].phase = "build"
  /\ msg[c].evicted # {} /\ c \in mini
  /\ msg' = [msg EXCEPT ![c].phase = "urgent"]
  /\ IF msg[c].op # NoOp /\ InCache(host[c], msg[c].op.id)
     THEN Touch(host[c], c, msg[c].op.id, last[c] + 2)
     ELSE UNCHANGED <<lru, used, sync>>
  /\ UNCHANGED <<available, size, frozen, generation, initiator, era, pipeVars,
                 last, clientVars>>

SendUrgent(c) ==
  /\ msg[c].phase = "urgent"
  /\ Send(c, NoOp)
  /\ msg' = [msg EXCEPT ![c].phase = "main", ![c].evicted = {}]
  /\ UNCHANGED <<cacheVars, pipeVars>>

\* red_channel_client_restore_main_sender, when the urgent one is out.
SendMain(c) ==
  /\ msg[c].phase = "main"
  /\ Send(c, msg[c].op)
  /\ msg' = [msg EXCEPT ![c] = Idle]
  /\ UNCHANGED <<cacheVars, pipeVars>>

-----------------------------------------------------------------------------
(* Migration of the client, channel by channel.                            *)

\* display_channel_marshall_migrate_data and pixmap_cache_freeze.  The code copies sync
\* and size after it has unlocked the cache (red_worker.c:5606-5610); nothing changes a
\* frozen cache's, so this is one step.
MarshallMigrateData(c) ==
  /\ Migration
  /\ Ready(c) /\ host[c] = "source"
  /\ host' = [host EXCEPT ![c] = "moving"]
  /\ moved' = [moved EXCEPT ![c] = [freezer |-> ~frozen["source"], sync |-> sync["source"]]]
  /\ frozen' = [frozen EXCEPT !["source"] = TRUE]
  /\ lru' = [lru EXCEPT !["source"] = <<>>]
  /\ available' = [available EXCEPT !["source"] = -1]
  /\ era' = IF frozen["source"] THEN era ELSE [x \in Images |-> era[x] + 1]
  /\ Send(c, NoOp)
  /\ UNCHANGED <<used, sync, size, generation, initiator, mini, gen,
                 syncDue, resetDue, msg>>

\* Variant: the new channel starts with a sync pending.
HandleMigrateDataPending(c) ==
  /\ host[c] = "moving"
  /\ net[c] = <<>>
  /\ host' = [host EXCEPT ![c] = "target"]
  /\ sync' = [sync EXCEPT !["target"] = Later(@, moved[c].sync)]
  /\ size' = [size EXCEPT !["target"] = IF moved[c].freezer THEN CacheSize ELSE @]
  /\ resetDue' = [resetDue EXCEPT ![c] = moved[c].freezer]
  /\ gen' = [gen EXCEPT ![c] = 0]
  /\ syncDue' = [syncDue EXCEPT ![c] = TRUE]
  /\ UNCHANGED <<lru, used, available, frozen, generation, initiator, era,
                 mini, moved, last, msg, clientVars>>

\* Variant: the cache is in use before the reset is sent.
HandleMigrateDataActive(c) ==
  /\ host[c] = "moving"
  /\ net[c] = <<>>
  /\ host' = [host EXCEPT ![c] = "target"]
  /\ sync' = [sync EXCEPT !["target"] = Later(@, moved[c].sync)]
  /\ size' = [size EXCEPT !["target"] = IF moved[c].freezer THEN CacheSize ELSE @]
  /\ available' = [available EXCEPT !["target"] = size'["target"]]
  /\ resetDue' = [resetDue EXCEPT ![c] = moved[c].freezer]
  /\ gen' = [gen EXCEPT ![c] = 0]
  /\ syncDue' = [syncDue EXCEPT ![c] = FALSE]
  /\ UNCHANGED <<lru, used, frozen, generation, initiator, era,
                 mini, moved, last, msg, clientVars>>

\* display_channel_handle_migrate_data, once the client has read the data
\* off one connection and forwarded it on the other.
HandleMigrateData(c) ==
  /\ host[c] = "moving"
  /\ net[c] = <<>>
  /\ host' = [host EXCEPT ![c] = "target"]
  /\ sync' = [sync EXCEPT !["target"] = Later(@, moved[c].sync)]
  /\ size' = [size EXCEPT !["target"] = IF moved[c].freezer THEN CacheSize ELSE @]
  /\ resetDue' = [resetDue EXCEPT ![c] = moved[c].freezer]
  /\ gen' = [gen EXCEPT ![c] = 0]
  /\ syncDue' = [syncDue EXCEPT ![c] = FALSE]
  /\ UNCHANGED <<lru, used, available, frozen, generation, initiator, era,
                 mini, moved, last, msg, clientVars>>

-----------------------------------------------------------------------------
(* The client.  Its channels are coroutines of one thread.                 *)

First(c) == net[c][1]

\* The first message is handled.
Finish(c) ==
  /\ stage' = [stage EXCEPT ![c] = "wait"]
  /\ net' = [net EXCEPT ![c] = Tail(@)]
  /\ done' = [done EXCEPT ![c] = First(c).serial]

\* wait_for_channel, for every entry of the list.
Waited(m) == \A w \in m.waits : done[w[1]] >= w[2]

\* The sub-messages of a message, or a list, or INVAL_ALL_PIXMAPS: the
\* channel waits, then removes images.
Invalidate(c) ==
  /\ net[c] # <<>> /\ stage[c] = "wait"
  /\ Waited(First(c))
  /\ images' = IF First(c).clear # {} THEN {}
               ELSE {x \in images : ~\E e \in First(c).inval : e[1] = x}
  /\ IF First(c).op = NoOp THEN Finish(c)
     ELSE stage' = [stage EXCEPT ![c] = "draw"] /\ UNCHANGED <<net, done>>
  /\ UNCHANGED <<cacheVars, pipeVars, last, msg>>

\* image_get waits until the image is there.
Served(op) == op.kind = "get" => op.id \in images

\* canvas_get_image_internal.
DrawImage(c) ==
  /\ net[c] # <<>> /\ stage[c] = "draw"
  /\ Served(First(c).op)
  /\ images' = images \cup {First(c).op.id}
  /\ Finish(c)
  /\ UNCHANGED <<cacheVars, pipeVars, last, msg>>

Worker(c) ==
  \/ \E x \in Images : MarshallUpgrade(c, x)
  \/ MarshallPixmapSync(c)
  \/ MarshallReset(c)
  \/ BeginSend(c)
  \/ SwitchToUrgent(c)
  \/ SendUrgent(c)
  \/ SendMain(c)
  \/ MarshallMigrateData(c)
  \/ HandleMigrateData(c)

Client(c) == Invalidate(c) \/ DrawImage(c)

Next == \E c \in Channels : Worker(c) \/ Client(c)

Spec == Init /\ [][Next]_vars

-----------------------------------------------------------------------------
(* Properties.                                                             *)

Message == [serial : Nat, waits : SUBSET Waits, inval : SUBSET Entries,
            clear : SUBSET Entries, op : Ops]

TypeOK ==
  /\ lru \in [Hosts -> Seq(Images)]
  /\ used \in [Hosts -> [Images -> [Channels -> Nat]]]
  /\ sync \in [Hosts -> [Channels -> Nat]]
  /\ available \in [Hosts -> Int]
  /\ size \in [Hosts -> Int]
  /\ frozen \in [Hosts -> BOOLEAN]
  /\ generation \in [Hosts -> Nat]
  /\ initiator \in [Hosts -> [client : Channels \cup {Nobody}, message : Nat]]
  /\ mini \subseteq Channels
  /\ host \in [Channels -> Hosts \cup {"moving", "closed"}]
  /\ last \in [Channels -> Nat]
  /\ gen \in [Channels -> Nat]
  /\ syncDue \in [Channels -> BOOLEAN]
  /\ resetDue \in [Channels -> BOOLEAN]
  /\ moved \in [Channels -> [freezer : BOOLEAN, sync : [Channels -> Nat]]]
  /\ msg \in [Channels ->
       [phase : {"idle", "build", "urgent", "main"}, op : Ops,
        evicted : SUBSET Entries, clear : SUBSET Entries, waits : SUBSET Waits,
        sync : [Channels -> Nat]]]
  /\ net \in [Channels -> Seq(Message)]
  /\ stage \in [Channels -> {"wait", "draw"}]
  /\ done \in [Channels -> Nat]
  /\ images \subseteq Images
  /\ era \in [Images -> Nat]

\* The client has one display channel.
Alone == \E c \in Channels : \A d \in Channels : host[d] # "closed" <=> d = c

\* A wait is for a message that is sent or about to be sent: a wait for a
\* serial that no message of the other channel will have, or of the channel
\* itself, would stop it for good.
WaitsAreReal ==
  \A c \in Channels : \A i \in DOMAIN net[c] : \A w \in net[c][i].waits :
    w[1] \in Channels \ {c} /\ w[2] <= Top(w[1])

\* What the client has still to do on channel c.
Remaining(c) == ({msg[c].op} \cup {net[c][i].op : i \in DOMAIN net[c]}) \ {NoOp}

\* What a message removes from the client's cache.
Removes(m) == m.inval \cup m.clear

\* When a channel removes an image from the client's cache, every message, of
\* any channel, that was made with this entry of the server's cache is handled:
\* later, it would not find the image, or would leave one behind that the
\* server does not know of.
UsesHandled ==
  \A c \in Channels :
    net[c] # <<>> /\ stage[c] = "wait" /\ Waited(First(c)) =>
      \A d \in Channels : \A op \in Remaining(d) :
        <<op.id, op.era>> \notin Removes(First(c))

\* It is so unless one of several channels has the mini header: its urgent list takes
\* the serial that the cache has noted for the image of the main message.
UsesBeforeRemoval == mini = {} \/ Alone => UsesHandled

\* A removal of x is on its way to the client, or in a worker's hands; after
\* a migration a reset is, from the time the old cache is frozen on.
Leaving(x) ==
  \/ frozen["source"] /\ generation["target"] = 0
  \/ \E c \in Channels :
       \/ \E e \in msg[c].evicted : e[1] = x
       \/ msg[c].clear # {}
       \/ \E i \in DOMAIN net[c] :
            /\ i = 1 => stage[c] = "wait"
            /\ net[c][i].clear # {} \/ \E e \in net[c][i].inval : e[1] = x

\* The client keeps no image that the server has forgotten: what it holds is
\* in the server's cache, or is about to be removed.
NothingForgotten ==
  mini = {} \/ Alone =>
    \A x \in images : (\E h \in Hosts : InCache(h, x)) \/ Leaving(x)

\* Nothing is on its way to the client, or in the hands of a worker.
Quiet(h) ==
  \A c \in Channels : /\ net[c] = <<>> /\ msg[c] = Idle /\ ~resetDue[c]
                      /\ host[c] \in {h, "closed"}

\* A client with one display has every image the server counts on.
Mirror ==
  \A h \in Hosts : Quiet(h) /\ Alone => \A x \in Images : InCache(h, x) => x \in images

\* The accounts of the server's cache, and the order of its serials.
CacheSound ==
  \A h \in Hosts :
    /\ \A i, j \in DOMAIN lru[h] : lru[h][i] = lru[h][j] => i = j
    /\ available[h] >= 0 =>
         available[h] + SumFunctionOnSet(SizeOf, {x \in Images : InCache(h, x)}) = size[h]
    /\ lru[h] # <<>> => available[h] >= 0
    /\ \A c \in Channels, i \in DOMAIN lru[h] : used[h][lru[h][i]][c] <= sync[h][c]

\* The client channel c can go on.
Able(c) ==
  /\ net[c] # <<>>
  /\ IF stage[c] = "wait" THEN Waited(First(c)) ELSE Served(First(c).op)

\* As long as a message is on its way, a channel of the client can handle
\* one, or a worker is about to send one: the channels never all wait for each
\* other, or for an image that nobody is going to send.
NeverStuck ==
  (\E c \in Channels : net[c] # <<>>) =>
    \E c \in Channels : Able(c) \/ msg[c].phase # "idle"
=============================================================================

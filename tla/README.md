# A verification project for the SPICE server of zhicloud

The repository holds a remote-desktop system: a SPICE server in two versions
(`src/spice-server/spice-0.12.5` and its successor `spice-0.12.6-ffmpeg`), the SPICE
client library the terminals use (`src/thin_client/spice-glib-0.26`), a Qt client
(`src/zhicloud_client`) and a watchdog test (`src/testwatch`). Most of its lines are
vendored or generated. The program's own control logic is in
`spice-0.12.6-ffmpeg/server`; below, a file without a directory is in there.

This project models that server, component by component, checks the models with TLC and
proves what it can with TLAPS. Four parts are done, which together are the server's
concurrency: the *character device* through which the clients and the guest's agent talk to
each other (one thread, nested callbacks), the *dispatcher* through which the threads call
each other (threads and a socket), the *display worker* between the guest's processors,
the main thread and the clients (who wakes whom), and the *pixmap cache* that several workers
share and a client mirrors (several streams without a common order).

Contents: [Inventory](#inventory), [Plan](#plan), [The character device](#the-character-device),
[The dispatcher](#the-dispatcher), [The display worker](#the-display-worker), [The pixmap
cache](#the-pixmap-cache), [Runs](#runs), [Mutants](#mutants), [Findings](#findings),
[Proofs](#proofs), [What is not modelled](#what-is-not-modelled).

## Inventory

The server is a library inside QEMU. QEMU's main loop calls it (timers, watches and calls
of the VM's devices); one worker thread per graphics device draws and encodes; encoders may
have threads of their own. Within a thread everything is callbacks, and the difficulty is
that callbacks nest.

**Character device** (`char_device.c`, 1035 lines). State: the write queue and the buffer
being written, the ring of attached clients, each with send tokens, a queue of messages, a
timer and its own tokens; flags `running`, `active`, `wait_for_migrate_data`; two recursion
counters. Operations: add and remove a client, set and add tokens, get, add and release a
write buffer, wake up, start, stop, reset, destroy, marshal and restore for migration. It
calls its user through eight callbacks, and the user calls it back from inside them. Hard:
reentrancy (a send may free a read buffer, whose release wakes the device up, which reads
and sends again), token conservation, queues that must drain or have their client removed.
Correct when: one read loop and one write loop at a time; messages in order and without
gaps; no wakeup lost; tokens neither lost nor minted; no buffer of a client that is gone.

**Agent port** (`reds.c`: `VDIPortState`, the callbacks at lines 395-850, 860-1000,
1290-1340, 2900-2990). State: the pool of read buffers, the state of the message being read,
filters, the buffer being received from a client, `plug_generation`,
`client_agent_started`, saved migration data. Hard: the agent is detached and attached while
a client's message is half received; migration data comes before, after or without the agent.

**Main channel** (`main_channel.c`). Connected to the agent by agent data and token
messages; also network test, mouse mode, and the migration handshake between server, client
and target. **Channels and clients** (`red_channel.c`). State per channel client: a pipe of
items, the item being sent, the ack window, a ping timer and a connectivity monitor, the
migration wait. Hard: a send can fail anywhere and disconnects; disconnecting releases
items; `red_channel_client_disconnect` is reached from many stacks.

**Agent message filter** (`agent-msg-filter.c`). A state machine over chunks of agent
messages: forward, discard, or protocol error. A pure algorithm with a simple reference.

**Dispatcher, main dispatcher, red dispatcher** (`dispatcher.c`, `main_dispatcher.c`,
`red_dispatcher.c`). A remote procedure call over a socket pair between the threads: typed
messages, an optional acknowledgement, a lock for the senders; asynchronous commands with
cookies on top. Hard: deadlock and order.

**Display worker** (`red_worker.c`, `display-channel.c`, `cursor-channel.c`, `tree.c`). 8650
lines; most are about the drawing tree, surfaces and drawables. Its control: a loop that polls
the dispatcher and the clients' sockets, empties two command rings into the pipes of two
channels, and pushes the pipes; the handlers of the dispatcher's messages, some of which run
that machinery again until a ring is empty or a pipe is sent. State: `running`, the poll
timeout, two retry counters, the pipes, windows and half-sent messages; outside of it the rings
with their notification requests, the red dispatcher's `pending` bits and the socket. Hard: the
worker may sleep only when someone is going to wake it, and three parties that hold no lock of
it may. Correct when: no command is slept over, a flush or a stop is answered when and only when
it is done, and no message crosses a stop or a start.

**Pixmap cache** (`pixmap-cache.c`, `cache_item.tmpl.c`, and its users in `red_worker.c`): one cache
shared by the display channels of a client, each in a thread of its own, and mirrored by
the client. Items with, per channel, the serial of the last message that used them; from these
a removal knows what the client must have handled before. Hard: the channels are separate streams;
marshalling is not atomic; the client migrates channel by channel. Correct when: an image leaves
the client's cache after its last use, the client keeps nothing the server has forgotten and
has everything the server counts on, and nobody waits for what does not come. 

**GLZ dictionary** (`glz_encoder_dictionary.c`): a ring of image segments shared by encoder
threads under a lock, with freeing at a distance. **Streams and encoders** (`stream.c`,
`mjpeg_encoder.c`, `gstreamer_encoder.c`, `ffmpeg_encoder.c`, `*_encoder.c`): rate control and
compression. **Memory slots** (`red_memslots.c`): translation of guest addresses.

**spicevmc** and **smartcard** (`spicevmc.c`, `smartcard.c`): two other users of the
character device, without flow control and with one client. **Inputs** (`inputs_channel.c`):
mouse-motion acknowledgements. **Sound** (`snd_worker.c`): frames that travel between QEMU and
the channel. **Timer queue** (`spice_timer_queue.c`): an ordered set of timers with lazy
re-arming, for the worker thread.

**Link handshake and transport** (`reds_stream.c`, part of `reds.c`), **QXL parsing,
recording, replay**, **canvases**, **server 0.12.5**, **client library**, **desktop client**
and **watchdog** have no shared state of interest here, or are the subject of other projects.

`PROJECT.json` has one row for each of these, and the list of hazards: what in this code is
hard to test, at the line where it bites, with the property that watches it.

## Plan

The order of work was: the most important behaviour first. Done:

1. `CharDevice`: the device, the agent callbacks and as much of the main channel as they
   reenter. Proofs: type correctness; one read loop and one write loop; and every other safety
   property.
2. `Dispatcher`: an implementation of an abstract remote procedure call `Rpc`, by a refinement
   mapping, checked and proved.
3. `Worker`: the worker's loop and handlers, with the red dispatcher's side of wakeups,
   out-of-memory calls, updates, flushes, stops and starts, and the acknowledgement window of
   `red_channel.c`. Its queue of messages is what `Rpc` promises: whole messages, in order, one
   synchronous caller at a time. Proofs: all its safety properties, with
   the limits of its pipes and windows.
4. `PixmapCache`: the cache, the marshalling around it, the client's channels and its cache,
   migration. Proofs: all its safety properties.

Left, in this order:

5. `AgentPort`: chunked reads from the guest, the protocol error of the read filter inside the
   read loop, saved migration data, the filters of `agent-msg-filter.c` as operators checked
   against a reference.
6. `MainDispatcher`: two `Dispatcher`s composed. The worker sends to the main dispatcher from
   handlers the main thread waits for; is there a full socket at which both wait?
7. Display channels that connect and disconnect while others use the pixmap cache.
8. `AgentFlow`: the promise of `CharDevice`, a bounded lossless channel in both directions, and
   `CharDevice` shown to implement it for one client.
9. `GlzDictionary` (its window is shared by encoder threads, but in this fork only the images of
   ended streams are encoded at all), `TimerQueue`, motion acknowledgements, memory slots, pings
   and the connectivity monitor, spicevmc as a second instance of the device.

Runs use one or two clients, channels, processors or senders, windows and pools of one or two,
and at most three to five messages: every queue, pool and window is then at its limit within a
few steps.

## The character device

### Modules

| module | contents |
| --- | --- |
| `CharDevice` | state, one action per step of each function, `Spec`, the type invariant and the invariants |
| `MCCharDevice` | environments restricted to one direction, fairness and liveness |
| `CharDeviceClaims` | statements of the source's comments and assertions that the code does not keep |
| `CharDevice_proofs` | `TypeCorrect`; the loops: `LoopsGuarded`, `OneReaderAlways`, `OneWriterAlways` |
| `CharDeviceWriting` | writing to the guest: `OwnersAlways`, `ScheduledAlways`, `WaitsAlways`, `SelfTokensAlways` |
| `CharDeviceReading` | queues to the clients: `QueuesAlways`, `SingleAlways`, `NoTokensAlways`, `WatchedAlways` |
| `CharDeviceBuffers` | read buffers and messages: `RefsInvAlways`, `RefsAlways`, `GapAlways`, `WakeupsAlways` |
| `CharDeviceTokens` | the clients' tokens: `ClientTokensAlways`, `AgreeAlways`, `TokensAgreeAlways` |

### How the model corresponds to the code

All this code runs in one thread, so atomicity is not the difficulty: nesting is. The model
therefore keeps the **C call stack** as a sequence of frames, innermost first. An event of the
main loop (a message from a client, a timer, a call of QEMU) is possible only when the stack
is empty (`Idle`); otherwise the innermost frame takes its next step (`Running`). A function
that may be interrupted by a nested call is cut into steps exactly at its calls that can
nest: `sif->read`, `sif->write`, `send_msg_to_client`, `unref_msg_to_client`, the release of a
write buffer, the pipe of the main channel. Steps in between are atomic, as in the code.

| code | model |
| --- | --- |
| `spice_char_device_read_from_device` | frames `read?`, `read`, `read0`; `ReadRefused` to `ReadEnd` |
| `spice_char_device_send_msg_to_clients` | `todo`, `SendNow`, `SendLater`, `SendOverflow`, `SendDone` |
| `spice_char_device_send_to_client_tokens_absorb`, `..._client_send_queue_push` | frames `absorb`, `push`, `pushed`, `shrink` |
| `spice_char_device_write_to_device`, its timer | frames `write?`, `write`, `wrote`, `wrote0`; `WriteRetry` |
| `spice_char_device_write_buffer_get` / `_add` / `_release` | `BufGet`, `BufAdd`, `BufGiveBack`, `MouseEvent`, `Release` |
| `spice_char_device_client_add` / `_remove` | `AddClient`; frames `free`, `removed` |
| `spice_char_device_start`, `_stop`, `_reset`, `_state_destroy` | `Start` (frames `start`, `startW`, `startR`), `Stop`, frames `reset`, `reset2`, `destroy` |
| `spice_char_device_wakeup` | `Wakeup`: the frames `write?` then `read?` |
| `reds.c`: callbacks, `reds_reset_vdp`, `attach_to_red_agent`, `reds_on_main_agent_*`, `reds_handle_migrate_data` | `Unref`, `SendMsg`, `RemoveClient`, `Detach`, `Attach`, `ClientAdd`, `TokensSet`, `Restore*` |
| `red_channel.c`: push, send, error, pipe_clear, disconnect | `PushItem`, frames `flush` and `hangup` |

A read buffer (`VDIReadBuf`) is a member of `Bufs` with its reference count; a message is the
serial number of its read. A write buffer is a record of origin, client and token price.
Tokens are numbers. The two recursion counters are kept up to "more than one", which is all
the code distinguishes. `pipe_clear` walks the pipe newest first, as the ring is built.
The variables `handed`, `credit`, `lastRead` and `peerTokens` record history or the client's
side; no guard of the server reads them (`peerTokens` limits what a well-behaved client
sends).

The environment: QEMU attaches and detaches the agent, starts and stops the VM, and may call
`wakeup` from inside `read` and `write`; `write` takes all, some or none of a buffer; the guest
writes messages; clients connect, grant tokens, send messages they have tokens for, stop
reading and disappear; any write to a socket may fail.

A step whose guard is a `spice_assert` (marked so), or that would dereference NULL, is
disabled: the process aborts. This is why the runs say `CHECK_DEADLOCK FALSE`: after an abort,
and when a bounded environment has nothing left to do, nothing happens. That such stops do not
hide anything is what the [findings](#findings) are about.

### Bounds

`MaxMsgs` bounds what the guest writes, `MaxSend` the tokens a client has granted at a time
(the unlimited `~0` is `MaxSend` too), `MaxPending` the write queue at the moment a client
connects (each disconnection may leave one notification there). `MaxQueue`, `Window`,
`Interval` and `SelfTokens` are the code's own parameters with small values: the code uses
them only in comparisons, so 1 and 2 reach both sides of each. `Bufs` has two buffers
where a full pool and a partly used pool differ, one where only exhaustion matters. Where the
guest writes to the clients there is one message more than buffers (`send` and `drain`: one buffer
and two messages, `multi`: two and three), so that the pool runs out while the guest's data waits.

## The dispatcher

| module | contents |
| --- | --- |
| `Rpc` | what `dispatcher.h` promises: messages served once, whole and in order; who waits for what |
| `Dispatcher` | `dispatcher.c`: a mutex, a socket pair of bounded capacity, the loops of both sides; the properties |
| `MCDispatcher` | an instance with a type of each kind |
| `Dispatcher_proofs` | the inductive invariant, the invariants and the refinement, for all constants |

Here atomicity is the difficulty: each sending thread and the receiving thread takes one step
at a time, and a step is a system call on one *word* of the socket, the smallest piece the code's
loops could be left with. `dispatcher_send_message` is `Ask` (the call and its assertions), `Lock`,
`Write` for each word of type and body, `ReadAck`, `Unlock`; `dispatcher_handle_recv_read` with
`dispatcher_handle_single_read` is `Wake`, `ReadType` (poll and read), `ReadBody`, `Handle`, then
`WriteAck` or `AsyncDone`, and `NoMessage`, which leaves the loop. A type is a member of `Types`
with its registered size (`Size`, in words, possibly 0 as for `RedWorkerMessageWakeup`) and
its kind (`AckOf`). The content of a body is its name: the number of its message and its place in
it. The receiver looks at nothing else of a word than whether it can be read as a type.

`posts`, `handled` and `completed` are histories; no guard of the code reads them, except that
`posts` says what a word's content is and bounds the environment (`MaxPosts`).

In the refinement mapping `Lock` is the abstract `Post`: the order of the mutex is the order of
service. `Handle` is `Serve`, `AsyncDone` is `Complete`, `Unlock` is `Return`. All other steps
stutter. The abstract guards are where the content is: `Serve` may only deliver
`Meaning(n)`, the unbroken body of the next message, and `Return` of an acknowledged call
requires that it was served.

The receiver's handlers do nothing to the socket here. That they may send through another
dispatcher, and then wait, is the subject of `MainDispatcher`.

## The display worker

| module | contents |
| --- | --- |
| `Worker` | the worker's loop and handlers, the guest's processors, stops and starts, two channels with their clients; the properties |
| `MCWorker` | which channels have a client and which processors are on line |
| `Worker_proofs` | the inductive invariants, `PendingBacked`, `StopLeavesNothing`, `AssertionsHold`; `NoCommandLost`: the worker does not sleep over a command; `FlushComplete`: an update or a flush sees every command it owes; `WorkerTypes`: the limits |

One action is one step of one thread between two places where another thread, or a client, can
make a difference. `pc` says where the worker is:

| code (`red_worker.c` unless named) | model |
| --- | --- |
| `red_worker_main`: poll, events, process, push | `Poll`, `HandleChannel`, `HandleDispatcher`, `EventsDone`, `PushAll` |
| `red_process_cursor`, `red_process_commands` | `call`; `TakeNone`, `TakeCommand`, `TakeEmpty`, `AskNotification` |
| `handle_dev_wakeup`, `_oom`, `_start` | `HandleWakeup`, `HandleOom` with `ReturnOom`, `HandleStart` |
| `handle_dev_update`, `flush_all_qxl_commands` and the two flushes | `HandleFlush`, `ReturnFlush`, `FlushWait`, `FlushTimeout` |
| `handle_dev_stop`, `red_channel_wait_all_sent` | `HandleStop`, `StopWait`, `StopTimeout`, `StopSent` |
| `red_channel.c`: push, receive, ack window, disconnect | `Push`, `Serve`, `Credit`, `Dropped` |
| `red_dispatcher.c`: wakeup, oom, set_pending | `TestPending`, `SetPending`, `Notify` (three steps, as the bits are not atomic) |
| `red_dispatcher.c`: synchronous requests, stop, start | `Request`, `StopVm`, `StartVm` |

The rings and the processors are QEMU's and the guest's; `PushCommand` is the ring's contract
(notify if asked to). A command is counted, not named: it adds an item to a pipe or none. (The code
may push several for one drawing, the surfaces and images it needs before it; they count as one, so
`PipeMax` and the pipe are in commands.) A channel's client is a record: items in the pipe, a
message half written (`blocked`), messages in the socket, read and not acknowledged (`seen`),
acknowledgements on their way (`acks`). `owed` is a history: how many of the commands that were in
a ring when a synchronous request was sent have not been taken. With `stream` the display's client
has the full-screen stream of this fork, whose frames may be left out and whose deadline keeps poll
from waiting.

The handlers that flush are one, `HandleFlush("flush")`: destroying surfaces, resetting the
cursor and the image cache and the like differ in what they do with surfaces, which is not
modelled. `pc = "crashed"` is a NULL dereference.

## The pixmap cache

| module | contents |
| --- | --- |
| `PixmapCache` | the caches of two hosts, the workers that marshal, the connections, the client; the properties |
| `MCPixmapCache` | sizes, bounds, symmetry |
| `PixmapCache_proofs` | the inductive invariants; `WaitsCorrect`, `RemovalsWait`, `ForgottenNever`, `MirrorAlways`, `CacheAlwaysSound`, `CacheTyped` |

One action is one section under the cache's lock, or one step of a client coroutine between two
places where it may yield. A message is reduced to what the cache is about: serial, serials it
waits for, images it removes, image it uses.

| code (`red_worker.c` unless named) | model |
| --- | --- |
| `dcc_pixmap_cache_unlocked_hit`, `_add`; `display_channel_push_release` | `Touch`, `Add` with `Room`, `Evictions`; `Released` |
| `red_display_marshall_upgrade` with `fill_bits` | `MarshallUpgrade` |
| `display_begin_send_message`, the two `display_channel_send_free_list` | `BeginSend`; `SwitchToUrgent`, `SendUrgent`, `SendMain` |
| `pixmap_cache_freeze`, `dcc_pixmap_cache_reset`, sync items | `MarshallMigrateData`, `MarshallReset`, `MarshallPixmapSync` |
| `display_channel_handle_migrate_data` | `HandleMigrateData` |
| spice-glib `channel-display.c`, `spice-channel.c` (waits, cache) | `Invalidate`, `DrawImage`, `Waited`, `Served`, `done` |

In this fork drawables go out as video frames (`marshall_qxl_drawable` returns after
`red_marshall_stream_data`), so the one live caller of `fill_bits` is the upgrade of a stream
that ended, with one image that is never lossy. This is why a message has at most one image, and
why replacing lossy by lossless items does not appear.

`MarshallMigrateData` is one step, though the code copies `sync` and `size` into the message after
`pixmap_cache_freeze` has unlocked the cache (5606-5610): nothing changes those of a frozen cache.

`era` is a history: it counts how often an image has left the server's cache, so that the
properties can tell an old entry from one made later with the same id. No guard reads it.

## Runs

The two directions of the character device hardly share state, so a run restricts the
*environment* (never the device) to one of them; `Spec` of `CharDevice` is the union, about
which the theorems speak.

| run | instance | shows |
| --- | --- | --- |
| `send` | 1 client, 1 buffer, 2 messages, fair | the reentrant read path has one loop and queues nothing for a single client, over connects, disconnects, detaches, stops, failing sockets, with the only buffer in use while data waits; and all that the guest writes is read |
| `write` | 1 client, window 2, agent-connected tokens | one write loop; something always continues a write; tokens of the client and of the server are conserved and agreed on; seamless migration waits for one client only |
| `reset` | the same with an old client, fair | a detached agent resets the device instead of destroying it: owners of buffers, the tokens of the client and of the server, the retry timer and the pending mouse event survive it |
| `multi` | 2 clients, 2 buffers, 3 messages | queues: order, no gap, a timer watches each, tokens and queues exclude each other; no wakeup and no reference is lost when two clients use up the buffers, also when the agent leaves and comes back |
| `drain` | 2 clients, 1 buffer, 2 messages, fair | a queue drains or its client is shut down |
| `dispatcher` | 2 senders, up to 5 messages of 3 kinds, a socket of 2 words, fair | the dispatcher implements `Rpc`; the stream never loses its place; an acknowledgement is its reader's; who has the mutex gets out |
| `worker` | 4 starts: a client of the display, the same with a stream, a client of the cursor, or no client and 2 processors | no pending bit without its message, no sleep over a command, no message on the wrong side of a stop, nothing left in a pipe when a stop is answered, a flush answered only when all it asks for is processed |
| `worker_live` | 1 display client, 1 processor, fair | every command is processed when the client reads and the guest pauses; every stop is answered, whatever the client does |
| `pixmap` | 1 or 2 channels, 4 images of sizes 1, 1, 2, 3 in a cache of 2, both headers, with migration, 3 and 2 messages | the client's cache follows the server's, and an image leaves it only after its last use |

The properties, in words, stand above their definitions. Some remarks:

*`NoLostWakeup`* and *`WriteScheduled`* are safety forms of progress: when nothing is running,
either there is nothing to do or something is armed that will do it. They need no fairness,
and fail as soon as one of the "a wakeup was called meanwhile" branches is dropped.

*`TokensAgree`* relates the two ends of a connection, counting tokens in flight. It speaks of
clients with the capability `AGENT_CONNECTED_TOKENS`, which `write` has; of others, with which
`reset` is run, it would not be true (see [further observations](#further-observations)).
*`ClientTokensConserved`* holds for both.

*`FlushSeesAll`* and *`StopFlushes`* are the two halves of a synchronous call: not answered too
early. *`StopAnswered`* is: answered.

*`NoLostCommand`* is an action property: no step makes a sleeping worker forget a ring
(`Forgotten`), except the step of `red_push` that finds the connection of a full pipe's client
failed. That step is the finding `claim_wake`; a client that fails anywhere else is no excuse.

*`QueuesDrain`* is run with clients that do not grant zero tokens: each such grant starts the
timer anew (`char_device.c:374-377`), so a client that repeats it would never be timed out.

*`UsesBeforeRemoval`* and *`NothingForgotten`* carry the premise that no channel uses the mini
header or the client has one display. Without it they are refuted (further observations). Every
combination of headers and channels is explored for the other properties; of the list that takes
the serial meant for its image `WaitsAreReal` says only that the serials waited for are sent.
*`Mirror`* is for a client with one display channel; what two channels can do to an image that one
evicts and the other adds is the finding `claim_stuck`.

The socket of `dispatcher` holds less than its longest message (three words), so senders block
in the middle of a message while others wait for the mutex, and the receiver blocks in the
middle of a body. `MaxPosts = 4` (one more may be asked for meanwhile) lets an acknowledged
message follow, precede and meet messages of each other kind from both senders.
Its `CHECK_DEADLOCK FALSE` is for the end: all calls made, the receiver polls in vain.

In `worker` the dispatcher's socket holds one message, so senders block on each other, and the
pipe's limit (2) is above the window (1) as the code asserts. Rings of one command are full and
empty in turn; `owed` needs no more, since a ring is emptied in order. The initial states open one
channel each, because the two channels meet only in flushes and stops; `cursor` and display flushes
run in all of them. `MCSymmetry` of `pixmap` exchanges the two images of one pixel, which is sound
for invariants. The two channels send three and two messages: eviction, re-adding and a use from
the other side need that, as does a reset followed by a sync. The image of three pixels, larger
than the cache, makes an add give up after it has evicted all others. The runs of `Worker` and
`PixmapCache` say `CHECK_DEADLOCK FALSE` because a guest may have nothing to do while the worker
sleeps, and because channels stop at `MaxSerial`.

`multi` uses symmetry in clients and buffers, which is sound there: it checks invariants only,
and no constant or definition names a client or a buffer.

### Fairness

`WF_vars(Running)`: a function that is on the stack continues; C code that has been called
returns. `SF_vars(WriteRetry)` and `SF_vars(WaitTimeout(c))`: a timer that is armed again and
again goes off; the main loop runs every timer that is due, but a timer may be cancelled and
re-armed in between, hence strong fairness. `SF_vars(Writable(c))`, `SF_vars(FlushSend(c))`: a
client that stays connected takes data in the end, and the watch calls back.
`SF_vars(WriteAll)`: the guest's port takes a whole buffer in the end. Nothing is assumed of
attaching, connecting, granting tokens or starting: liveness properties carry as premise
that the device stays usable and, for reading, that some client keeps tokens.

For the dispatcher, `WF_vars(SenderStep(s))` and `WF_vars(Receiver)`: every thread is scheduled and
handlers return. Weak fairness is enough, as a blocked system call stays possible once it is;
nothing is assumed of who gets the mutex, and so `HolderReturns` speaks only of the thread that
has it.

For the worker, `WF_vars(Worker)` and `WF_vars(Io(v))`: threads run, an I/O that was begun goes
on. A timeout of the code (`FlushTimeout`, `StopTimeout`) is an alternative to the wait, at any
time, and no fairness of its own is assumed: when a wait changes nothing, the timeout is the one
step of the worker that does, so it is taken; while the client takes data, the wait may go on,
and ends because the pipe does. `RingsDrain` has `ClientsRead` and `GuestPauses` as premises
rather than fairness of the specification: nobody guarantees them, and without the second the
guest can keep the worker at one ring for ever.

## Mutants

Some definitions stand next to a faulty variant (`InRead` and `InReadNever`, `Enqueue` and
`EnqueueFirst`, `Unref` and `UnrefQuietly` in `CharDevice`, `Lock` and `LockIgnoresHolder` in
`Dispatcher`, `AskNotification` and `AskOnce` in `Worker`, `Touch` and `TouchUnrecorded` in
`PixmapCache`, ...). Nothing uses the variant. Each property of a passing run has one that
breaks it when put in the place of the original (`PROJECT.json`, "mutants"): the property does
depend on that code.

## Findings

Three runs are expected to fail; each checks one statement the source makes.

- `claim_send` (`SendAssert`): `char_device.c:280` asserts that a client with tokens has an
  empty queue. With two clients, `..._client_send_queue_push` unrefs a message (line 354) while
  the rest is still queued; the last reference wakes the device up, and the nested read loop
  reaches the assertion with tokens left and a queue.
- `claim_wake` (`WakeEnsured`): `red_worker.c:8531-8532` asserts window sizes "to ensure wakeup
  by ack message". A worker that stops processing over a full pipe has not asked its ring for a
  notification; it relies on the client. If the write in `red_push` finds the connection failed,
  the client is disconnected, its pipe emptied and its watch removed after the rings have been
  looked at, and the worker polls without a timeout over the commands left. Any later event or
  push into another ring wakes it; a guest that waits for room in the full ring does not push.
- `claim_stuck` (`NeverStuck`): `red_worker.c:3640-3642` orders compression before insertion "to
  prevent starvation in the client between pixmap_cache and global dictionary (in cases of
  multiple monitors)". The client can starve without a dictionary: an image that is added again
  starts with fresh serials (line 3483), so nothing orders the second insertion after the
  removal of the first. The client, which handles the insertion first, removes the new image and
  waits for ever when it is used next.

### Further observations

The models show further disagreements of the same kind, or were made around them. They have no
run of their own. In the character device and the agent port:

- `reds.c:956` asserts that no buffer is being received. A client destroyed in the middle of an
  agent message leaves one, and the next client's first message aborts.
- `reds.c:668-669` relies on protection against recursion; `red_channel_client_disconnect` has
  none, and goes on with a freed stream after the nested wakeup has disconnected the channel
  already (`red_channel.c:1864-1869`).
- `reds.c:409-411` resets the device so as not to lose track of tokens; for clients without
  `AGENT_CONNECTED_TOKENS`, messages sent before they learnt of the detachment are received into
  plain memory (`reds.c:945-953`) and their tokens are never returned.
- `pending_mouse_event` (`reds.c:815`) survives the destruction of the device: the next agent's
  device takes a token for an event that was the last one's.

- `char_device.c:355` decrements `send_queue_size` only after the unref at 354; a nested read
  loop can remove a client for an overflow (`char_device.h:167`) its queue does not have.
- `char_device.c:370-378`: if absorbing tokens empties the queue and uses all of them up, the
  timer is not cancelled, and a client that owes nothing is removed (`char_device.h:71`:
  "till they receive tokens, or till a timeout").
- `char_device.c:313` says messages are discarded when no client is attached; after the last
  client is removed (line 813) nothing reads until another wakeup.
- `char_device.c:885`: releasing the current buffer during a reset may queue the pending mouse
  event again, after the queue was emptied (`char_device.h:151`: "Resets write/read queues").
- A reset (`char_device.c:888-894`) frees what is queued for a client and gives it the tokens back:
  the client stays, and messages it was to get are never sent. `NoGap` starts anew there.
- `char_device.c:654` asserts that the owner of a released buffer is attached; a buffer that
  is being received when the agent is detached and attached again violates it.
- `reds.c:1297-1298`: migration data for an agent that was unplugged in the meantime is
  ignored; if the agent was attached again before, the device waits for ever.
- `reds.c:1310` asserts `plug_generation == 0` when there is no agent state; an agent attached
  and detached before the data arrives makes it 1.

In the display worker:

- After `flush_cursor_commands` has given up (`red_worker.c:6487`) `cursor_channel` is NULL;
  `handle_dev_stop` (line 7822) passes it on without a test and `red_channel_wait_all_sent`
  dereferences it (`pc = "crashed"`; `StopAnswered` allows for it).
- The full-screen stream of this fork is never renewed or stopped while its client stays
  (`red_worker.c:8554-8555`, `display-channel.c:311-330`): its deadline is past, so the worker
  polls without waiting.
- `handle_dev_destroy_surface_wait_async` (line 7933) does not flush the rings, its synchronous
  counterpart does.
- A guest that pushes without a pause can keep the worker at one ring (the premise
  `GuestPauses`).

In the pixmap cache:

- With the mini header, the list of removals is a message of its own that takes the serial the
  cache has noted for the image of the main message; the image is hit again with the next serial
  (`red_worker.c:5189-5194`), but the cache is unlocked in between, and a channel that evicts
  the image there tells the client to wait for too small a serial. Hence the premise of
  `UsesBeforeRemoval`.
- A client's cache may for a moment hold more than its size, when insertions overtake the
  removals that make room.

`WaitsForOneClient`, `BuffersHaveOwners` and the others are stated so that they hold in spite of
these: where a claim is narrower than a comment, its definition says so.

## Proofs

The theorems about `CharDevice` are about `Spec`, for every value of the constants under
`ConstantsOK`: any finite number of clients (finite because `ResetQueues` counts the queues a
buffer is in), any set of buffers, any window, both kinds of clients, one or several of them.

**`TypeCorrect`** (`CharDevice_proofs`): `Spec => []TypeOK`. `TypeOK` is inductive. It is
split into eight groups of variables (`DeviceTypes`, `WriteTypes`, ...), with one lemma for
each group that an unchanged group keeps its type, and one lemma for each action that proves
the groups the action touches. Its conjunct `todo # {} => msg # None` is what makes it more
than a type: a read buffer is handed to clients only while the read loop holds it.

**`OneReaderAlways`, `OneWriterAlways`** (`CharDevice_proofs`): `Spec => []OneReader` and
`Spec => []OneWriter`. The inductive invariant is `LoopInv`: for each of the two loops, at most
one frame of the stack belongs to it, and its counter is zero exactly when there is none. It
needs the counters as well as the stack: that a second loop is not entered follows from the
counter, that the counter is right follows from the stack. The argument is about stacks:
pushing frames of no loop, popping one, or replacing one leaves the loops of a stack as
they are (`Same`, `SamePush`, `SamePop`, `QuietFrames`); most actions do only that. The
exceptions (begin, nested call, turn and end of each loop) are proved one by one in
`ReadLoop` and `WriteLoop`. `LoopsMean` turns `LoopInv` into the two invariants.

**`OwnersAlways`, `ScheduledAlways`, `WaitsAlways`** (`CharDeviceWriting`): `BuffersHaveOwners`,
`WriteScheduled` and `WaitsForOneClient`, from one inductive invariant, `WritingInv`, which TLC
checked first. The properties speak of rest, or of the queue and the current buffer alone; what
keeps them true lies on the stack, so the invariant is about stacks too. Each action is described
by the frames it may put on the stack and take from it (`Moves`), which tells in one step what
happens to every statement about frames (`MovesFrames`, `MovesOrderly`). `RemovalInv` says in
which order the parts of a removal can lie there (`Orderly`: nothing of `free` is left when
`removed`, `gone` or `destroy` go on), and that a reset finds a device that neither runs nor
writes. `MigrationInv` is about a device that waits: nothing is written, the queue holds client
buffers only, and its one client is there unless it is just being removed. `ScheduleInv`: outside
a write (`WriteFrames`) the queue is behind a current buffer that has its retry, and `wrote0` has
a current buffer. Most actions keep all this because they are `Calm` (no frame of a removal, no
change of device, clients or queue) and `Lazy`; the others have a lemma each.

**`SelfTokensAlways`** (`CharDeviceWriting`): `SelfTokensConserved`, by the invariant `SelfInv`. The
number of server buffers in the queue is a cardinality of positions (`Count`), for which
`CharDevice_proofs` has the rules of appending, removing and concatenation (`CountSteps`,
`CountRemove`, `CountConcat`); no sum over a sequence is needed.

**`SingleAlways`, `NoTokensAlways`, `WatchedAlways`** (`CharDeviceReading`): `SingleClientNoQueue`,
`QueueMeansNoTokens` and `QueueWatched`. The first two speak of a queue and of tokens; neither is
inductive, because the code between two frames leaves a queue half served. The invariant has the
parts `MessageInv` and `QueueInv` (`QueuesAlways`). `MessageInv` says where the calls of the
reading side can lie: a removal, a reset, the end of the device and a send loop are called by the
main loop or by each other, never over a read or a send loop (`Rooted`), so none of them meets a
message that is just being handed out; a message is handed only to attached clients; a detached
one has no queue. `QueueInv`: the recorded size of
a queue is its length, or one more while a send loop is between its two steps (`SizesMatch`); a
client that could be sent what waits for it is being served by a send loop (`QueuesServed`); what
the read loop may still read is what the client with the most tokens can be sent (`Budget`), which
is why a single client is never queued for (`NothingQueued`). `WatchInv` says of a client with a
queue, whose channel works and whose removal has not begun (`Served`), that its timer runs or that
the call that absorbs its tokens, on the stack, will start it: at rest the timer runs.

**`RefsAlways`** (`CharDeviceBuffers`): `RefsMatch`. The invariant `RefsInv` (`RefsInvAlways`) is the
property in terms of counts: the references of a buffer are the places that hold it in the pipes
and queues (`Places`, a set of pairs), the frames `pushed` with it (`Count`) and the read loop. What
one operation on one sequence does to each of these terms is a lemma (`PipeSteps`, `QueueSteps` and the
like); each action is then an equation of integers. A reset drops many references at once:
`ResetQueues` takes from a buffer as many as there are places in the queues.

**`GapAlways`** (`CharDeviceBuffers`): `NoGap`. `GapInv`: for each client whose channel works, the
messages handed to it, those that wait and the one the read loop is about to hand to it are all
that was read since it was added, and the queue holds them in the order of reading. It needs
`RefsInv`: only a buffer without references is read into, so a queued message is not overwritten by
a later one; and it needs `Rooted`, for the order of what is sent at once and what is queued.

**`WakeupsAlways`** (`CharDeviceBuffers`): `NoLostWakeup`. A nested call of the read loop only leaves
a note, so the invariant `WakeInv` gives, for each client that could be sent something now (`Eager`:
it has tokens, the device has data and there is a free buffer), the frame that will ask the device:
a call of the read loop that has not begun or is at work, a read loop that has found nothing but
has its note (`reading = 2`), or tokens that are being absorbed (`Awake`). Most steps are `Drowsy`:
they make nobody eager and take no such frame away. A buffer that becomes free calls the device
(`UnrefWakes`); that it does become free when the last reference goes is again `RefsInv`.

**`ClientTokensAlways`** (`CharDeviceTokens`): `ClientTokensConserved`. A sum over a queue would be a
recursive function, so the law counts places: a buffer that waits in the queue costs one token, and
only a restored one, which goes to `cur` at once, costs more (`PartsInv`). `SumsInv` is the law itself
for a client that is not on its way out (`Going`). Most steps are `Dull`: they touch nothing that the
sum is of. The law holds while the agent is away, too: what a client with half a message has taken
remains counted in `held`, whether the device was reset meanwhile or not.

**`TokensAgreeAlways`** (`CharDeviceTokens`): `TokensAgree`. The tokens in a pipe are again a set of
places (`OnTheWay`), so that appending an item, sending the first one and dropping the last one each
are an equation of cardinalities (`TokensSteps`). The law is not inductive: it says nothing of a
client that has not started the agent, and then a client sends the start. `AgreeInv` adds what is
true before: only the one client of the target of a migration is attached then, it has its whole
window, nothing of it is in the device and nothing is on its way to it (`Fresh`). Whoever else was
attached when the agent left is being removed with the device (`Going`). Most steps tell a client
nothing (`Silent`).

**`DispatcherImplementsRpc`** (`Dispatcher_proofs`): `Spec => ImplementsRpc`, for any senders (even
infinitely many), types, sizes, capacities and bounds under `TypesAssumption` and
`BoundsAssumption`. `DispatcherInvariant` is the inductive invariant, in five parts. `Holding`: the
thread between `Lock` and `Unlock` is the mutex's holder and its message is the last posted.
`Stream`: the words in the socket are consecutive, begin with the word the receiver expects and
end just before the word the holder writes next. That alone is not inductive, since an empty
socket says nothing about who is ahead; so `Stream` adds that every word, and the expected one,
comes before the writer's. `Reading`: the body so far is the beginning of the right message's
body. `Answers`: only the last posted message can be an unserved acknowledged one, its sender then
still holds the mutex, and of socket and receiver at most one holds its answer. The two ways the
stream moves, by a word at either end, are the lemmas `StreamGrows` and `StreamShrinks`; each action
has its lemma. `DispatcherTypes`, `StreamFramed`, `AcksAnswerHolder` follow from the invariant, and
the refinement maps each action to its abstract one under it.

**`WaitsCorrect`** (`PixmapCache_proofs`): `Spec => []WaitsAreReal`, for any channels, images,
sizes, bounds and with or without migration. A wait comes from the serials the cache has noted,
and those travel: into the free list of a message being marshalled, into the migration data,
into the target's cache, into the initiator of a reset. The invariant says of each of these
places that its serials are at most `Top`, the greatest serial any marshalling of the channel
has used, which never falls; that the free list of a message never makes its own channel wait,
by `WaitsOf`. The initiator of a generation is another channel than one that has to follow it.

**`RemovalsWait`** (`PixmapCache_proofs`): `Spec => []UsesBeforeRemoval`, with the same constants. A
use is a message that the client has still to draw; `Noted` says where its serial is to be found.
While the entry it draws is in the server's cache, it is noted with the item. When the entry
leaves, the serial is in the free list of the message that removes it, and then in that message's
waits. When the cache is frozen, it is in the migrate data, on the target in `sync`, and at the
reset in the reset's waits. That the removal and the use mean the same entry, and not an earlier or
a later one of the same image, takes the eras: what is removed has an era that is over (`Dated`).
`Noted` is about the removals of other channels; a channel does not wait for itself, and need not,
since it draws in front of its removals (`InOrder`). `Noted` is kept only if no channel uses the
mini header. The other premise of the property, that only one channel is open, needs `InOrder`
alone. `Filled` is what keeps a frozen cache out of it: of the two caches one is empty.

**`PendingBacked`, `StopLeavesNothing`, `AssertionsHold`** (`Worker_proofs`): for any processors,
rings, windows, sockets and queue. The common invariant `Inv` has the parts `Typed` (what the
proofs need of types), `JobFollowed` (which job the worker is at when it clears the bit of an
out-of-memory call), `PendingMeansMessage` itself, `SyncQueued` (a synchronous message is the
last of the queue and is the one waited for), `SyncHandled` (while it is handled the queue is
empty; a stopped machine's worker is not running and has no start to come) and `Drained` (what a
stop has drained stays so). `StopFlushes` needs the last three together: clients and events may
push, but nothing fills a pipe while `running` is false. `AssertionsHold` adds `Ordered`: a start
is the first message of its queue, because it is sent to an empty one; a worker that is not
running is stopped, is stopping, or has a start in front of it; and no processor is inside an I/O
while the machine stands still.

**`NoCommandLost`** (`Worker_proofs`): `Spec => NoLostCommand`. The property speaks of steps into a
state in which the worker sleeps; the invariant `Awake` gives, at every moment of the loop and for
each ring, the reason why the ring will be looked at (`Covered`): the worker has yet to come to it
in this turn, will not sleep after this turn, has a notification on its way (a suppressed one is on
its way too, by `PendingMeansMessage`), has armed the next push, or found the pipe full. Two of
these need an argument of their own. That a ring which is not polled any more is armed rests on the
retry counter (`Watched`). That a full pipe is as good as a wakeup is `FullPipePushed`: a push that
begins with a full pipe ends with a client that will be heard of, since the window, smaller than
the pipe by `WorkerAssumption`, or the socket is used up first; or the connection fails and the
client is dropped, the exception `NoLostCommand` makes and `claim_wake` is about. The invariant
holds on that path too, by excusing a ring whose client is gone; the action property then follows
from where the worker can begin to sleep (`OnlyPushPolls`, `PushForgets`) and from what clients and
processors cannot undo while it sleeps (`ClientKeeps`, `GuestKeeps`).

**`FlushComplete`** (`Worker_proofs`): `Spec => FlushSeesAll`, an action property. The commands owed
are the oldest of their ring (`OwedInRing`), so that a ring seen empty owes none; `Seen` says of
the handler which rings it has done. Both stay true because only the worker takes commands, and
because nobody sends another request, stops or starts the machine while one is waited for.

**`WorkerTypes`** (`Worker_proofs`): `Spec => []TypeOK`, where the type is the smaller part: no
ring, pipe, socket or window exceeds its limit. The invariant `Limits` says it of each channel in
terms of one sum (`Within`): what the socket holds, what the client has read and not acknowledged,
a message half written, and a window for each acknowledgement on its way, are at most two windows
and one message. A channel begins a message only while it owes less than two windows, and an
acknowledgement pays for exactly one of them, so the sum is bounded although none of its parts
knows of the others; with `Window * a =< 2 * Window + 1` at most three acknowledgements travel
(`AcksFew`). A pipe gets its item over the limit from `TakeCommand` alone, which looks at the pipe
before it takes a command. That the retries do not count on
past their limit is `Tried`: the step that asks for a notification runs at the last retry only.

**`ForgottenNever`** (`PixmapCache_proofs`): `Spec => []NothingForgotten`, with the constants of
`RemovalsWait` and on top of its invariant. An entry is an image with its era. `Followed` says of
every entry that a message has still to draw (`Used`) that it is in a cache now or `Gone`, which
means that its era is over and its removal is in a message being marshalled or on its way, or
that a frozen cache has a reset to come; and it says of every image that the client holds that it is
in a cache or has a `Gone` entry. The step that could break it is the client's: a removal takes
effect while another channel has still to draw the entry, and the image comes back for good. That is
what `UsesBeforeRemoval` excludes, so `RemovalsWait` is a lemma of this proof.

**`MirrorAlways`** (`PixmapCache_proofs`): `Spec => []Mirror`, the other direction, for one channel.
`Mirror` speaks of a system at rest; `Present` says of every cached image, at any moment, that the
client has it or a message that draws it is on its way, and that each removal on its way comes no
later than the last such message (`ToCome`). Messages are compared by their serials: what is being
marshalled has the greatest. A message that draws an image and removes an earlier entry of it does
the removal first, as the client does. `OneKind`: no message has both a free list and a reset.

**`CacheAlwaysSound`, `CacheTyped`** (`PixmapCache_proofs`): `CacheSound` and `TypeOK`. The sizes are
summed by `SumFunctionOnSet`, a fold over a set that is defined by `CHOOSE`. What it computes needs
an induction over finite sets, for which the provers have no theorem to use; a smallest
counterexample serves instead: among the subsets for which a law fails, the strict inclusion of
finite sets, which is well founded, has a minimal one, and without one of its elements the law holds
(`Smallest`). So the function the fold is defined by exists and is unique (`SumsExist`,
`SumsAgree`); it does not matter which element is taken first (`SumTake`); a sum over two disjoint
sets is the sum of both (`SumUnion`), and one over places of a sequence without repetition is one
over what lies there (`SumPlaces`). `Counts` is the invariant: what is left of the pixels and the
items' sizes make up the size, or the cache is empty and at -1, being frozen or not yet set up; and
no item has been used later than the cache has noted. `ItemsCounted` splits the items into those
an eviction keeps and those it removes, so that `AddCounts` is an equation of four sums.

What is only model-checked is liveness, which TLAPS does not do under fairness here:
`HolderReturns`, `GuestDataRead`, `QueuesDrain`, `WritesFinish`, `MouseReported`, `StopAnswered`
and `RingsDrain`. Every other property of a passing run, invariant or action property, is a
theorem.

To repeat: `tlc -workers 2 -config CharDevice_send.cfg MCCharDevice` and the like (the claims:
module `CharDeviceClaims`), `tlapm CharDevice_proofs.tla` and so for each module with proofs.

## What is not modelled

In the character device and its surroundings:

- Reads from the guest are whole messages: partial chunk reads, the header states of
  `VDIPortState` and the protocol error that detaches the agent from inside the read loop
  are left to `AgentPort`; so is `current_read_buf`, unreffed by `reds_reset_vdp`.
- The pool of write buffers (`write_bufs_pool`) is allocation only.
- Marshalling; `Restore` takes any tokens the source can have sent.
- An `AGENT_START` in flight while the agent leaves and comes back; `pending_mouse_event`
  surviving the destruction of the device (`MouseReported` leaves the case out).
- Messages from a client that violates its tokens: `write_buffer_get` returns NULL there.
- Two clients that send agent messages at the same time (the write runs have one client).
- `NotifyWritable = TRUE` is in the model, and in the theorems, but the agent's device does
  not have the flag, and no run sets it.

In the dispatcher: failing system calls (both ends of the pair live as long as the process),
registration, and `dispatcher_read_message`, which nothing calls.

In the display worker: what commands draw; connecting clients, several clients per channel,
pings, interrupted system calls; the freeing of memory after an out-of-memory call (the model
keeps its flushing); asynchronous commands and monitors; more than one display.

In the pixmap cache: channels that connect or disconnect while others use it, references, other
messages with images (see above), lossy images, changes of the cache's size.

The GLZ dictionary: only images of ended streams are encoded in this fork, by the one worker
thread per display; the hazards of its window remain, and are in the plan.

Most of the repository's lines cannot add to these models: they are fonts and skins, generated
marshallers, two complete clients' user interfaces, codecs and canvases, and a second, older
copy of the same server.

The other components have a row with the reason in `PROJECT.json`.

# A verification project for the TXW81x FPV firmware

This directory holds TLA+ modules that model the concurrent core of the
camera firmware under `src/TXW81x_FPV-v2.5.4.7-35376/`, the TLC configurations that
check them on small instances, and TLAPS proofs of theorems about them for every
size of instance. `PROJECT.json` maps each definition to the lines it is
translated from.

## 1. The system

The firmware runs on one C-SKY core under the AliOS Rhino kernel. Tasks are
preemptive; a critical section is a pair `disable_irq` / `enable_irq`, or a mutex.
Delayed works run on the thread of the main work queue. Everything the camera does
(video, audio, network, recording) is a set of tasks that exchange frames through
named *streams*.

| component | files (below `sdk/app` unless said otherwise) | state | operations | who it meets |
|---|---|---|---|---|
| stream registry and life cycle | `algorithm/stream_frame` | lists `g_s` and `d_s`; per stream `used`, `ref`, `open_ref`, `s_list`, arrays | open, open again, look up, bind, close; marker and cleaner works | every task of the pipeline, the work queue |
| stream data path | `algorithm/stream_frame` | per frame a reference count; per stream the lists of free and used frames and nodes | get a frame, send, receive, free, hold, force delete | producers and consumers, the life cycle's teardown |
| DHCP server | `dhcpd_eloop` | the entry list, the next address | discover, request, expiry | the event loop |
| OTA server | `update` | the running flag, the sockets, the received size | accept, receive, write, answer, close | event loop, one update task per client |
| intercom | `intercom` | ring of encoded packets with its sending cursor; play list, lost packets, playing position | encode, send, send again, receive, play | four tasks and a peer device |
| RTSP/RTP server | `spook` | sessions, streams, frames, TCP connections | RTSP methods, frame delivery | event loop, encoder tasks |
| recording | `record`, `media`, `remoteControl` | status, exit flag, open file, frames, index | start, stop, append, next file, finish | command task, stream layer, SD card |
| playback | `avi`, `new_avi`, `playback` | position, index | open, seek, play | stream layer, SD card |
| picture and audio pipeline | `decode`, `scale3Stream`, `newaudio`, `audio_app`, `mp3`, `amr_app` | one work or task per stage | take a frame, transform it, pass it on | stream layer |
| user interface | `ui`, `lvImg`, `interface_management` | LVGL objects | key and timer callbacks | stream layer |
| kernel, drivers | `csky`, `sdk/osal`, `sdk/hal`, `sdk/driver`, `sdk/chip` | | | all |

What is hard here: calls of several tasks that interleave between two critical
sections of one API call; reads and writes of shared counters outside any critical
section; an object that one task still uses while another, or a delayed work, tears
it down; pools that run empty; packets that are lost, repeated and reordered between
two intercom devices. The `hazards` of `PROJECT.json` list the places.

What makes each part correct:

* **life cycle** - the counts `ref` and `open_ref` are exactly the references and
  opens there are; nothing reachable is freed; a name is live once; what is closed is
  reclaimed.
* **data path** - a frame goes back to its source exactly when its last reference is
  dropped and never while a consumer has it; nodes are neither lost nor duplicated.
* **DHCP** - two clients never share an address, one client has one entry.
* **intercom** - the ring holds the newest packets, so that a request is answered with
  the packet it names; a packet is played at most once, and in order while playing goes
  on; none stays for ever in the play list.
* **OTA** - the flag keeps updates apart; firmware reported as complete comes from one client;
  the server is ready again after any failure.
* **recording** - a stop ends the thread; nothing is left of a recording when the next
  one starts; a closed file has its index and is not written again.

## 2. Modules

| module | what it models | with |
|---|---|---|
| `StreamLifecycle` | registry, open, bind, close, the marker and cleaner works | `MCStreamLifecycle`, `StreamLifecycleProofs`, `StreamSerialProofs` |
| `StreamData` | frames and list nodes between open streams | `MCStreamData`, `StreamDataProofs` |
| `FrameOwnership` | what the data path promises about a frame | implemented by `StreamData` |
| `UtList` | `DL_APPEND`, `DL_DELETE`, `DL_FOREACH` of `utlist.h`, on explicit links | used by `FrameLists` |
| `FrameLists` | one source whose frames are in linked lists, under the AMR decoder | `MCFrameLists`, `FrameListsProofs` |
| `DhcpPool` | the address table of the DHCP server and its clients | `MCDhcpPool`, `DhcpPoolProofs` |
| `IntercomNet` | the packets and the request on the air, which may be lost | extended by both ends |
| `IntercomSender` | the talking end: encoder, ring of packets, retransfer task, key | part of `IntercomLink` |
| `IntercomReceiver` | the listening end: loss check, play list, decoder | part of `IntercomLink` |
| `IntercomLink` | both ends over the net | `MCIntercomLink`, `IntercomProofs` |
| `TcpUpdate` | the OTA server, its clients and the sockets between them | `MCTcpUpdate`, `TcpUpdateProofs` |
| `RecordSession` | the recording thread, its files and the commands that start and stop it | `MCRecordSession`, `RecordSessionProofs` |

Definitions marked `\* mutant` are used by nothing: each is a plausible error in the
definition that follows it, and shows that a property notices it.

### Tasks, critical sections and races

Tasks have priorities, and those the kernel wrapper creates have time slices
(`csi_kernel_task_new`): a task can be switched away between any two instructions
outside a critical section. In `StreamLifecycle` and `StreamData` a section between
`disable_irq` and `enable_irq` is one step and every access outside such a section is a
step of its own; `TcpUpdate` has no critical sections and tests and sets its flag in two
steps. Where a task is between two steps is its `pc`, and any other task, or the work
queue, may run there. No switch is excluded in any run or any theorem.

With every switch allowed the code has races. The models go through them: each race is a
condition on a step, and the ghost variable `raced` (`harmed` in `FrameLists`) remembers
that it happened. The properties say what holds in every state that no race of the kinds
they name came before; that is: *nothing but these does harm*. The races are written as
narrowly as the harm, so that a window which is entered and left without a conflict does
not count.

| race | module | `stream_frame.c` | what happens |
|---|---|---|---|
| `"torn"` | `StreamLifecycle` | 396, 503 | `open_ref++` of a new stream, or `ref--` of the last close, stores over a change that came since its load |
| `"freed"` | `StreamLifecycle` | 504, 598 | the cleaner unlinks a stream that a closer, or a bind that failed, gave its reference to up and is still to write to |
| `"early"` | `StreamLifecycle` | 385, 397 | an open finds a stream that its creator has put into `g_s` and not yet issued, and takes it |
| `"twin"` | `StreamLifecycle` | 392, 603 | a stream is created under a name that somebody else created since it was looked for |
| `"torn"` | `StreamData` | 716 | `data->ref++` stores over a hold, or a free, that came since its load |
| `"reused"` | `StreamData` | 828 | a filtered frame is looked up in a node that somebody took since it went back |
| `"cut"` | `StreamData` | 489 | a node is appended to a queue while the close unlinks the head of it |
| `"freed"` | `StreamData` | 692-729, 1042 | the arrays of a stream are freed with a node that a sender, who found it open, has in hand or has appended since it was drained |
| `harmed` | `FrameLists` | `amr_app.c` 296 | a frame is appended again to a list that has it beside others |
| `raced` | `TcpUpdate` | `ota.c` 279-283 | a task sets the flag over one that was set since its test |

One of these is a finding with a run that must find the violation, because it contradicts
a comment of the source: `data_torn_window`. The other finding, `lifecycle_leak`, is a find
that is taken back (section 3): no race of this table, and excused by no property.
What a race leads to afterwards (a count that drifts, memory used after it was freed)
has no bound, and no property says more of it: where a run has the constraint
`NoRace` or `UpToHarm`, TLC checks the states in which the race has just
happened and does not go on from there.

## 3. `StreamLifecycle`

State and code: `list[s]` says whether stream structure `s` is in `g_s`, in `d_s` or
not allocated, and `newer` keeps the order of `g_s`, which matters because
`find_stream` takes the first stream of a name. `used`, `ref`, `open_ref`, `name` and
`s_list` are the fields. `lists` and `frames` stand for the arrays and for
`src_d_list_u` not being empty. `hold[t][s]` is ghost: the handles task `t` was given
and not yet closed; `lost` is ghost too, the placeholders a failing `malloc` left
without an owner. `tmp` is the register of an unprotected `++` or `--`.

Each API call is a chain of actions, named for the function and the section:
`open_stream_find` (the locked search), `open_stream_check` (the locked look at
`used`), `open_stream_create`, `open_stream_new_load/store/issue` (the unprotected
lines 396 and 397), `open_stream_init` (building the lists), then the bind to the
debug stream that every `open_stream` ends with; `bind_find`, `bind_check`,
`bind_link`, `bind_drop`, with `bind_undo` for a failing `malloc` and `bind_create`,
`bind_new` for a destination that does not exist; `close_stream_drop` (the locked
decision), `close_stream_load/store` and `close_stream_mark`. The works of the work
queue run on one thread, whose place is `gpc`: `mark_visit` to `mark_again` are a visit
of one stream by the marker, `clean_unlink` and `clean_free` the cleaner.

`crash` is the firmware using a null pointer, after which nothing happens any more: every
search compares the names of the streams it passes, and the marker sets the name of a
condemned stream to NULL while it is still in `g_s` (line 1070); and `open_stream` builds
its lists in the stream that `creat_stream` did not return (line 404). A search that
passes such a stream may also go on, since address 0 can be read on some builds. The
liveness properties take a crash for an end.

Properties (`Corrupted` is one of the races `"torn"`, `"freed"`, `"early"`):

* `RefExact`, `OpenRefExact`: `ref` and `open_ref` equal the number of references and
  opens, enumerated one by one (`Refs`, `Opens`) from who holds, binds or is looking
  at the stream, or `Corrupted`. The counts are the only thing that tells the marker what
  it may free.
* `NoDanglingReference`: what anybody refers to is in `g_s`, or `Corrupted`.
* `NoListsBuiltTwice`, `HandlesAreBuilt`: the arrays of a stream and those who use it,
  likewise. `HandlesAreBuilt` names the one case in which a handle is to a stream without
  lists: its opener has set `used` (385, 397) and is about to build them (400).
* `OneLiveStreamPerName`: also excused by a `"twin"`.
* `ClosedAtZero` is the comment on `open_ref` in `stream_frame.h:148`, and `lifecycle_leak`
  finds it violated: `find_stream` raises `open_ref` before the open has succeeded.
  A task that opens a stream in use raises it to 2; the holder closes, finds another
  open and only lowers the counts; the first task finds the stream in use and gives its
  open back. `open_ref` is 0 and `used` still `STREAM_ISUED`: nobody has a handle, so
  nobody closes the stream, and every `open_stream` of the name is refused.
* `ClosedIsReclaimed`, `UnreferencedIsFreed`: liveness.

Bounds: two tasks, two stream structures, two names (one is the debug stream that
every open binds to), one handle of a task on a stream (`MaxHold`). Two tasks are what
each of the races needs; two structures let a name be created again while its old
stream is still being reclaimed, and a stream be bound to another. Calls are made until a
race corrupts the counts (`Call`). With the constraint `NoRace` TLC does not go on from
a state with a race or a crash either; that a name created twice (`"twin"`) does no harm
to the counts afterwards is proved and not run (section 11). `lifecycle` leaves the frames to `lifecycle_reclaim`, which
has one task, a producer, because it checks liveness.

Fairness (`FairSpec`): every task inside a call runs on, consumers return frames, and
the two works are scheduled every 5 ms for ever (`stream_work_queue_start`), each marker
pass visiting every stream of `g_s`; it is strong for the works because visits of other
streams come between. The scheduler is priority based with time slices and no task of the
pipeline runs without sleeping. No fairness is assumed of calls: an application need not
close anything.

## 4. `StreamData`, `FrameOwnership`

One task works on each stream, as in every user of the layer: a task is named by its
stream, sends its frames, receives from it and closes it, and may give back later what
it received. The lists are sets of frames and nodes (`src_d_list_f`, `src_d_list_u`,
`d_list_f`), the receive queue `d_list_u[s]` is a sequence. `data[n]` is the frame that
node `n` points to and `ref[f]` the reference count. `filling`, `got` and `held` are
ghosts: who has which frame in hand. `send_each`, `send_pop`, `send_load`,
`send_store`, `send_append`, `send_finish` are one pass of `send_data_to_stream` over
`s_list`; `recv_real_data`, then `recv_keep` or `recv_filter` and `recv_free`;
`close_stream`, then `close_head`, `close_drain` and `close_drain_node` for each node, and
`close_end`. The loop over the queue is not locked: `close_head` looks whether there is a
second node and `close_drain` moves the head of the list (489), so what a sender appended
in between may be cut off, and what it appends behind the last node is not looked at.
`recycle` is the second critical section of `default_free_data_func`, and `free_end` the
callback after it (78), when the source may have taken the frame again. `mark` is the part
of the marker that frees the arrays, `open_stream` builds new ones.

Each of these holds up to the first of the four races of section 2:

* `FrameRefExact`: the count on a frame is the number of references that exist: the
  sending call, the nodes that carry it, what was received and what is held.
* `ReadersKeepTheirs`: a frame somebody may read is on `src_d_list_u` or being filled
  (`SharedIsOut`). Without the exception this is what the comment on `hold_data` promises,
  and `data_torn_window` finds it violated.
* `Conserved`: no node and no frame is in two places or none.
* `Implements`: with the phase of a frame taken from the list it is in and its shares
  from the references to it, every step that leaves no race behind is one of
  `FrameOwnership`: a frame goes back to its source after the last reader gave it up and
  its memory is freed only while it is free.
* `FramesComeBack`, `ClosedIsFreed`: liveness.

Bounds: a fan of one source with two frames and two destinations, one of them with two
nodes (`data_fan`): a frame has several readers at once, a queue is longer than one and
a destination runs out of nodes. A chain of three streams (`data_chain`): a task is both
consumer and producer, and may be closed while it is either. `Closers`, `Switched` and
`Holders` limit which streams are closed, which are disabled and enabled, and which tasks
hold in a run. The list `s_list` is a constant here; binding
is the subject of `StreamLifecycle`.

Assumptions that come from the users of the layer and not from its code: one task per
stream; a task that closes a stream has no frame of it that it got and did not send or
delete (`close_stream`). `FairSpec` assumes that tasks inside a call go on, that
consumers keep receiving and freeing, as their loops do, and that the marker runs.

## 5. `UtList`, `FrameLists`

`StreamData` takes lists for sets. That is right as long as no frame is put into a list
it is in already. The AMR decoder is the one user that does (`amr_app.c:294-303`): it
holds a frame and sends it again until a destination had room, and each send appends
it to `src_d_list_u`. `FrameLists` therefore has the links themselves, as the macros
of `utlist.h` leave them. `ListsAreWhole` says that each list, followed along its links
from its head, is exactly the set of frames it should hold, and that the arrays are
freed only when nobody has a frame.

Sending again breaks it, and not always. `DL_APPEND` of the only frame of a list leaves
the list as it was; beside other frames it overwrites the link of the frame to the one
before it, and the next `DL_DELETE` of it takes those others along. `harmed` remembers
such an append (`Spoils`), and `WholeUnlessHarmed` says that nothing else loses a frame: not
the sends that found nobody, not the timeout, the stop or the close, whoever frees which
frame when. `lists_held` shows it for three frames, each sent up to three times, and section 11
proves it for any number of both (the loop of the code sends up to 1000 times). A frame other than the decoder's own is on
the list whenever its reader is slow, so the harm is within reach of the code, and no
property here denies it. The decoder is reduced to what it does with frames, the
destination to a set of frames it will free in any order.

## 6. `DhcpPool`

Everything the server does runs in one event loop, so a datagram or a timer call is one
step: `discover`, `request`, `check_expired`, and `start_eloop` when the Wi-Fi mode
changes. `get_ip` is `dhcpd_get_ip` with the four cases of its code (known client,
wanted address, free address, pool full) and the failing `os_zalloc`. An entry keeps
its age in ticks instead of the time of last use. The clients are the environment:
`leased[m]` is the address client `m` uses and `since[m]` how long ago it asked for it;
it stops using the address when the lease time is over, counted from its request
(RFC 2131). Answers may be lost; a question is answered before the same client asks
again.

`KeysUnique` (`UniqueMac` and `UniqueIp`) makes the lookups of the code, which stop at the first entry
that fits, deterministic; `LeaseRecorded` says that the server knows of every lease in
use; together they give `NoSharedAddress`. `AbandonedComesBack` is liveness under the
500 ms timer. Bounds: three clients, a pool of two addresses in a network of four, so
that the pool runs full and clients ask for addresses outside of it; a lease of two
ticks, so that an entry is young, at the boundary and expired.

## 7. The intercom

Two devices talk in half duplex: the one whose key is pressed sends packets of ADPCM
(`udp_sfd`), the other plays them and asks for lost ones (`ack_sfd`). All lines are of
`intercom_adpcm.c`.

*Talking end* (`IntercomSender`). The encoder and the retransfer task hold `send_mutex`
for all of an iteration, so an iteration is one step: `EncodeFrame`, `EncodeSilence`,
`EncodeNothing` for the encoder, `RetransferCheck` for the other; `PushKey` changes the
mode between any two. `ring`, `front` and `rear` are the ring of encoded packets, `use`
and `src` the two lists of manage nodes, `manage_cur_pop` and `manage_cur_push` the
cursors of what was sent and what was encoded last. `Grab` and `MakeRoom` are
`get_ringbuf_manage` and the deletion before a push. The 8-bit `cnt` of
`retransfer_check` keeps its width as `CntMod`. `Restart` is the device switched off and
on, with a new identity.

*Listening end* (`IntercomReceiver`). `intercom_recv` has the higher priority and blocks
only between packets: a packet is a step, `RecvRepeat`, `RecvLate`, `RecvFresh` or
`RecvNoRoom`, each with the whole of `lose_packet_check` and `insert_into_useList`. The
decoder's period is `Flush` or `Wake` followed by `PlayPacket`, `PlayEmpty`, `Conceal`
or `NoFrame`; packets come in between any two of them. The loop over `del_node_num` in
`Wake` (1742-1749) never runs: the variable is only ever set to 0. `lastPlayed`, `anew`,
`played` and `astray` are ghosts. With `numofwait` past its limit playing can start on an
empty list, and the position is then what lies beside the head of the list (`Beside`).

The other end may be switched off and on at any time (`PowerCycle`). A packet of a new
identity takes as many entries from the play list as the decoder last counted
(1284-1288), and there may be fewer by then: the code takes the head of the list for an
entry and puts it on the list of free ones. `astray` remembers that; the listening end can
do anything from there, so it takes no further step in the model and nothing is claimed
of it. Everything up to there is checked.

*Net* (`IntercomNet`). A set of packets on the air: it loses, reorders and, as the other
end sends again, repeats. `MaxDelay` bounds how many newer packets overtake one.

Properties: `KeepsNewest` (the ring holds exactly the newest packets, each in the slot
its node points to), `NothingWaits` (the one-packet buffer of `intercom_send` is never
asked for more), `PlayedOnce` (at most once), `PlaysOn` (in order while playing goes on),
`Drains` (no entry stays for ever).

`PlaysOn` compares a packet with the one played last, also over stops and identities, and
excepts two cases. One is a start: the decoder stops after a gap, or because the list ran
empty, and starts again with the first entry, which may be older than what it played
before (`anew`; also after an empty packet was taken from a nearly full list). The other is a
jump. A packet that was overtaken or sent again may come in behind
one that is already played, if the decoder jumped over a gap to reach that (line 1577):
`play_sort` is still the position before the gap, so the packet is not taken for late. It
then stands first in the list and behind the playing position; the decoder makes up frames
until it stops and starts anew. But when the list fills up meanwhile, line 1581 sets the
position to the first entry, and playing goes back. TLC shows it when the last
disjunct of `PlaysOn` is taken away and `IntercomDrains.cfg` has five packets, `MaxDelay = 1`
and `NearFull = 2`: packet 3 is played after packet 4. The branch that would
go back at once is commented out in the source (lines 1579-1580); the mutant `ToTheHead`
of `Position` puts it in, and the run then finds `PlaysOn` violated.

Bounds: a ring of three slots, of which two are in use, so that with three packets the
oldest is deleted and its node used again; two sessions in `intercom_link`, because the
change of identity empties the play list; a play list of two so that it fills. The
distances at which the code takes a number for a new start, for late or for
far ahead (8, 10, 20, 20 in the code) are 3 to 5, so that each is reached and not reached. `SortWrap` keeps
its value: three packets do not run over 16 bits, and that case is not covered.
`intercom_drains` has one session of four packets, a longer play list and `SortJump = 1`:
four are needed to play one, jump over two and get the third afterwards. Packets come
behind newer ones there by being lost and sent again (`MaxDelay = 0`), which keeps the
liveness check small. The first packet of `intercom_drains` may be empty (`Empties`), those
of `intercom_link` are not, so that the two sessions stay within reach.

Assumptions: the ring has more than two slots (with two or fewer the deletion takes the
only packet, the one to be sent); when a device is switched on again, what it sent last
has left the air (`Restart`).

Fairness: the decoder's timer wakes it, `WF(Flush \/ Wake)`; and as its frames come back
from the speaker again and again, it does not find none for ever,
`SF(PlayPacket \/ PlayEmpty \/ Conceal)`. Nothing is assumed of the net or the talker.

## 8. `TcpUpdate`

`tcpServerAccept` is the callback of the event loop, one step; a task runs from socket
call to socket call, except at the flag: `Start` is the test of `tcp_update_running`
(`ota.c:279`) and `SetRunning` its setting (`ota.c:283`), and any other task may run in
between. `RecvHeader` to `RecvBody` are the transfer of `tcpNetUpgrade`,
`LoseHeader`, `LoseInfo`, `LoseBody` and `WriteFails` its failures, `CloseInner`,
`Clear` and `CloseOuter` the way out. `sock` says which client is behind a socket
number: a number is used again after `CloseInner` (line 122), and `CloseOuter` closes it
once more, which may hang up another client; `accept` may fail and the task is started
all the same. `flash[b]` is the task that wrote byte `b`.

Two tasks can both find no update running. `raced` remembers that one of them set the flag
over the other's, until an update ends with no other under way. `OneUpdate` says that
updates exclude each other but for that, and that the flag is never up without an update;
`WholeUnlessRaced` that a file counted complete was written by its own task, all of it.
`FlagComesBack` has no exception. These are what the rest of the device relies on.
`FlagComesBack` needs the clients to hang up: the code sets no timeout, so a client that
falls silent keeps the flag and the server busy until the connection breaks. Fairness is
`WF(Proceed(t))`, the steps of a task that wait for nobody.

Bounds: three clients on two sockets, so that a client finds no socket free, a number is
used again while the task that closed it still holds it, and a second and a third update follow a broken
one; files of at most two bytes in pieces of one or two, so that the last piece ends at
the size or runs over it.

## 9. `RecordSession`

`Stop` and `Start` are the two sides of `record_control_event`. The thread is a chain of
steps that end where it sleeps, writes to the card or takes a lock: `Open`, `Loop`, the
return of `new_sd_save_avi2` without a file (`Refused`, `NoFile`), `MakeFile`, a round of
its loop (`NoPicture`, `Picture`, `PictureFails`, then `RestOfRound`), `End`,
`CloseStreams`, `Exit`. `card` is the set of files; a file knows whether it has pictures,
whether its index was written, and whether a failing write or the power spoilt it.
`create_video_file` takes one more than the largest number found (`NextNo`). `PowerCut`
keeps the card and loses everything else.

`IdleIsClean`, `PicturesAreIndexed`, `NoOverwrite` and `StopObeyed` are described at their
definitions. What the model shows that is not a property: a stop that comes before the
thread has set `sd_save_flag` is lost; when the thread cannot be created the status says
for ever that it runs; and with `DirFails = TRUE` a directory that can only be read half
way gives a new recording the name of an old one, so `NoOverwrite` fails. The run has
`DirFails = FALSE`, and `NoOverwrite` is proved under that assumption; the two invariants
hold and are proved either way.

Bounds: up to four files, two of which may be on the card before, so that there are gaps;
a file is full after two pictures; `MaxInsert`, how often a late picture is repeated, is
one (the repeats are made by a closed library); one power cut. Fairness is
`WF(Thread)`: the thread is scheduled, and the card answers or fails.

## 10. Runs

| run | shows |
|---|---|
| `lifecycle` (passes: `TypeOK`, `RefExact`, `OpenRefExact`, `NoDanglingReference`, `NoListsBuiltTwice`, `HandlesAreBuilt`, `OneLiveStreamPerName`) | two tasks open, look up, bind and close streams under two names while the marker and the cleaner run, switched between any two steps: counts, handles, lists and names agree, and nothing reachable is freed, in every state that no torn count, write to a freed stream, early open or (for the names) double creation came before |
| `lifecycle_reclaim` (passes: `NoListsBuiltTwice`, `ClosedIsReclaimed`, `UnreferencedIsFreed`) | under the fairness of the scheduler and the 5 ms works every closed stream of a task that also sends frames becomes reusable or is freed, and is not built again before its frames came back |
| `lifecycle_leak` (violates: `ClosedAtZero`) | an open that finds a stream in use raises open_ref until it gives it back; the last close in between takes itself for one of several, and the stream stays in use at 0 opens, with nobody to close it |
| `data_fan` (passes: `FrameRefExact`, `ReadersKeepTheirs`, `Implements`) | a source sends two frames to two destinations that receive, filter, hold, free, are disabled and close meanwhile, switched between any two steps: up to the first race the reference counts are exact, nobody loses a frame he may read, and the data path implements FrameOwnership: a frame goes back only after its last reader gave it up |
| `data_chain` (passes: `Conserved`, `FramesComeBack`, `ClosedIsFreed`) | in a chain of three streams no list node or frame is lost or in two places up to the first race, and under the fairness of the tasks and of the marker every frame sent comes back and every closed stream is freed, or a race came in between |
| `data_torn_window` (violates: `SharedIsOut`) | a task switch inside the unprotected data->ref++ of the sender loses the reference that hold_data took |
| `lists_held` (passes: `WholeUnlessHarmed`) | a decoder that holds each frame and sends it up to three times until it is taken: the links of the two lists hold exactly the free and the used frames up to the first time a frame is appended again beside others, and the arrays are freed after use |
| `dhcp_leases` (passes: `TypeOK`, `KeysUnique`, `LeaseRecorded`, `NoSharedAddress`, `AbandonedComesBack`) | three clients discover, request, renew, fall silent and ask for addresses of their choice on a pool of two: entries stay unique, no address is used twice, and with the 500 ms timer running the address of a client that fell silent becomes free |
| `intercom_link` (passes: `KeepsNewest`, `NothingWaits`, `PlayedOnce`) | the talking end sends three packets in each of two sessions over a net that loses, overtakes and repeats, and is switched off and on whatever the listening end still plays: the ring keeps the newest packets for requests, no packet is left waiting, and the listening end plays each packet at most once |
| `intercom_drains` (passes: `Drains`, `PlaysOn`) | four packets, lost and sent again behind newer ones: as long as the decoder is woken and now and then finds a free frame, every packet of the play list leaves it, and playing never goes back while it goes on, except where the list is nearly full |
| `update_session` (passes: `TypeOK`, `OneUpdate`, `WholeUnlessRaced`, `FlagComesBack`) | three clients connect on two sockets, send firmware, fall silent and hang up, their tasks switched between any two steps: two updates run only when both tested the flag before either set it, what is reported as complete otherwise was written by one client, and when all clients are gone the server is ready again |
| `record_session` (passes: `TypeOK`, `IdleIsClean`, `PicturesAreIndexed`, `NoOverwrite`, `StopObeyed`) | the thread records up to four files while stops and starts come at any time, the card and the streams fail and the power is cut: nothing of a recording is left behind, closed files have their index and are never written again, and a stop ends the thread |

## 11. Proofs

`StreamLifecycleProofs` proves `TypeCorrect`: the variables of the registry keep their
types and, which is what most of the proof is about, a task in the middle of a call
has the stream, the destination and the name its next step works on (`LocalsOK`). It
holds for every number of tasks, streams and names, in every state. The
invariant `TypeOK` is inductive as it stands; its parts are proved one by one for each
action, and `Inside`, `Call` and `GcStep` put them together.

Its second part proves that the reference counts are exact (`RefsAreExact`,
`OpensAreExact`) and that nothing reachable is freed (`NothingDangles`), with a switch
allowed between any two steps. `CountsInvariance` is `[](Corrupted \/ IInv)`: `IInv` is kept
by every step that does not corrupt the counts, and a corrupted state stays one.

- *Counting.* `Refs(s)` and `Opens(s)` are sums of cardinalities. `TokensChange` and
  `UsingChange` say how one of them changes when one task or one source moves, and
  `TaskStep` and `GcCounts` turn that into an equation for a whole step. They are
  proved once, by splitting the set at the task or source that moves.
- *The invariant.* `RefExact` is not inductive: a store into a count must find it as the
  load did, or the race has happened; what a task relies on at each place is `TaskInv`; two closes must not work on one stream (`Distinct`),
  the marker must find its stream as it left it (`Marked`), and a condemned stream must
  stay without references until it is unlinked (`Condemned`), which is why it needs
  `NoDanglingReference` and `hold[t][s] > 0 => used[s] = ISUED` too.
- *The steps.* `Move` shows for a step of one task what the other tasks, the marker and
  the cleaner keep; `Turn` and `Quiet` are its special cases for steps that leave the
  bindings, or also `used`, alone. Each action then has a lemma that says where its
  task was and is, that the counts balance, and what it now relies on. `Create` and
  `Collect` do the same for `creat_stream` and for the work queue.

`StreamSerialProofs` builds on that invariant and proves what the exact counts are good for:

- `NothingIsBuiltTwice`: only one task can take a stream to `ISUED`, and one is taken only
  when its arrays are gone (`FreshInv`).
- `HandlesAreWhole`: a handle is handed out only while `used` is `ISUED`, and from there to
  the lists there is one task on its way (`BuiltInv`).
- `NamesAreUnique`: a live stream is the newest of its name, so a search that misses the name
  finds no live one (`NameInv`); what comes between the search and the creation is the race
  `"twin"`.

`StreamDataProofs` proves all safety properties of the data path for any streams, bindings,
frames and nodes, again with a switch allowed between any two steps: the counts
(`CountsExact`), that nothing readable is reused (`ReadersAreSafe`), conservation
(`NothingIsLost`) and the refinement (`Refinement`). They follow from `Invariance`, which is
`[]Sound`: `TypeOK` and `IInv` hold until the first race.

- *The invariant.* A step that gives up a reference must know that it is there, so
  `IInv` says what a task has in hand at each place (`TaskInv`), that each node and each
  frame is in one place (`PlaceInv`), and that no reader is owed or carries a frame it
  already has (`Once`): without it a second node for the same reader would make no
  new share. `FramesCounted` and `SharedIsOut` are parts of it.
- *Counting.* `Refs(f)` is a set of pairs, so that a reference which moves from a call to
  a queue, from there to a task or from use to use is a set with one element added,
  taken or exchanged: `RefsGain`, `RefsLoss`, `RefsMove`.
- *The races.* `NotTorn`, `NotReused`, `NotCut` and `NotFreed` say what a step that left no
  race behind found: the count as it was loaded, the node as it was given back, the queue no
  longer than it was, no sender under way to a stream whose arrays go.
- *The steps.* Each action has a lemma with the name of the action that proves `IInv'`;
  `OthersKeep`, `NodeGoesBack` and `Dropped` are what several of them share.
- *Refinement.* `PhaseIs` and `SharesIs` give the mapped state of a frame; then each
  action is matched with the step of `FrameOwnership` it is (`TakeStep`, `PublishStep`,
  `ShareStep`, `GiveUpStep`, `RecycleStep`, `DestroyStep`, `CreateStep`) or shown to
  leave the mapped state alone (`IdleStep`).

`IntercomProofs` proves of the intercom, with no assumption but those of the
modules, that the ring keeps the newest packets (`RingKeepsNewest`), that nothing waits
to be sent (`SendsAtOnce`) and that playing goes back only at a start or in a nearly full
list (`InOrder`); and that no packet is played twice (`NothingTwice`), if
`MaxDelay < 2 * ENCODED_BUF_NUM`.

- *Talking end* (`SenderInv`). The nodes are in one of the two lists, once; the used
  ones stand for the slots from `front` on, around the end of the ring (`Around`); both
  cursors are on the last. `EnqueueIs` computes what the four parts of an iteration of
  the encoder do together to these lists, and the lemmas after it take the parts of the
  invariant one by one.
- *Listening end* (`ReceiverInv`). The list fits; all on the air and in the ring is of the
  identity the talking end has now, and what is in the list or was played is of that or of an
  earlier one (`Sessions`), so that a packet of a new identity was never there before.
- *At most once* (`OnceInv`). The number of a packet is computed from how many came
  after it (`Numbered`); as long as a number has not come round, the table of the listening
  end still has the packet it took under it (`Remembered`), so it refuses the copy. This is where
  the assumption comes in: the code remembers as many numbers as there are, and a copy
  that arrives a round late carries the number of another packet. Nothing in the code
  excludes that; with its ring of 15 a packet would have to be overtaken by thirty others
  on one Wi-Fi link.
- *Order* (`Forward`). Short of a start the playing position is past the packet last played. Only
  a nearly full list takes the position back (`PositionIs`); a packet is made up only where the
  list is not nearly full or is empty, because otherwise the position is that of the first entry.
  Nothing is assumed of the net or of the settings.

`FrameListsProofs` proves `WholeUnlessHarmed` for any number of frames and of tries
(`ListsStayWhole`).

- *Lists.* `Holds(head, m, S)` says that the links of `m` string the set `S` together from
  `head`: there is a numbering of `S` that the links follow. `AppendHolds` and `DeleteHolds` are
  the two macros on such a list, `HoldsElsewhere` that a write to other frames leaves it alone.
- *Walks.* `Walked` and `Opened` are recursive functions over the number of steps.
  `Stepwise` and `LeastOf` stand in for induction: a claim that holds at 0 and is passed on has
  no least counterexample. With them `WalkHolds` shows that a walk of a list that holds `S`
  meets `S`, and `OpenedHolds` that the list built by `open_stream` holds all frames.
- *The invariant.* `Whole` (each list holds its set) is kept by a deletion only if the frame
  is in that list, so `RefsAre` and `Where` say for each frame how many references it has and
  who has them. A send that does no harm appends a frame that is in no list, or the only
  one of its list, which stays as it was.

`DhcpPoolProofs` proves that two clients never use the same address
(`AddressesAreExclusive`), for any set of clients, network, pool and lease time. The
inductive invariant is `TypeOK /\ UniqueMac /\ UniqueIp /\ LeaseRecorded`:
`NoSharedAddress` alone says nothing about the entries, from which the next lease is
given. The heart is the lemma `GetIpStep`: `dhcpd_get_ip`, called with an address
nobody else has or with none, changes the entry of this client only, leaves both keys
unique and the entry fresh. The expiry timer keeps `LeaseRecorded` because an entry is
never older than the lease it records, and deletes only what is older than the lease
time.

`TcpUpdateProofs` proves, for any number of clients, sockets and sizes, that updates
exclude each other (`UpdatesExclude`) and that a task which counts its file complete
wrote all of it (`CompleteIsOwn`), both but for the race between test and set. The
invariant adds to `TypeOK` and `OneUpdate` that the bytes below the `offset` of a task in the
transfer are its own (`Mine`) that the loop goes on only below the size (`Short`)
and that the task of a client yet to come does nothing (`NotYet`); that no other task can write meanwhile is `OneUpdate` again.

`RecordSessionProofs` proves that a recording leaves nothing behind
(`RecordingLeavesNothing`) and that closed files have their index (`FilesAreIndexed`),
for any limit, timeout and number of files, and also when the directory cannot be read
(`DirFails`). The invariant adds to `TypeOK` and `PicturesAreIndexed` what holds at each
place of the thread (`Control`: which streams are open, whether a file is, what is held)
and that a file with pictures was counted (`Counted`), from which the end of a round
decides whether to write the index. `OldFilesStay` is the action property `NoOverwrite` for a
directory that is read to its end (`~DirFails`): the numbers on the card are bounded, so there is a largest
one (`Greatest`), `NextNo` is past it (`NewNumber`), and what else a step does to the card
keeps the names (`MarkKeeps`).

Assumptions are the named `ASSUME`s of the modules: `Null` is none of the values it
stands in for, the sets of tasks, streams and nodes are finite, the debug stream is a
name, the pool lies in the network, address 0 does not, the lease time is positive, the
ring of the intercom has more than two slots, socket numbers and bounds are natural
numbers.

So every invariant and every safety property a passing run checks is the subject of a
theorem. Two theorems have an assumption of their own, `NothingTwice` and `OldFilesStay`,
given above; those of the stream layer have none. Only model-checked are the liveness properties
`ClosedIsReclaimed`, `UnreferencedIsFreed`, `FramesComeBack`, `ClosedIsFreed`, `AbandonedComesBack`,
`Drains`, `FlagComesBack` and `StopObeyed`: fairness speaks of `ENABLED`, which is out of
the prover's reach. What the runs `data_torn_window` and `lifecycle_leak` show are
counterexamples, not theorems.

## 12. What is not modelled

`PROJECT.json` lists every component. Left out for good: vendored and generated code
(freetype2, paho, the kernel, fonts), closed libraries (Wi-Fi, codecs, the heap), and
code that only drives hardware. Within the modelled components: the callbacks of the
users (`func`), except where they decide something (the two filters are a free
choice); the contents of frames; broadcast commands, which change no state of the
layer; wording of log lines; the bytes of a DHCP message; of the intercom the full duplex
variant, `intercom_suspend` and `intercom_resume`, which nobody calls, and the request
to send; of the recorder the layout of the AVI headers and index entries,
`bbm_sd_save_avi`, `avi_save_stream` and the photo commands; of the update the flash
writer, which is external and either takes a piece or fails. What follows a memory error
(after `Corrupted`, a race of the data path, `harmed` or `astray`) is not modelled: its
first step is, and nothing is claimed of the rest. `StreamData` takes `s_list` for a set: two
tasks that bind one source to one destination at the same time bind it twice
(`stream_frame.c:565`, which `StreamLifecycle` has), and each frame then comes twice.

## 13. Plan

1. Components not modelled yet: the RTSP session machine of `spook`, the playback control of
   `playback`, and the read-ahead cache of `usbd_mass_speed_optimize`.
2. The settings under which the jump of a nearly full play list never goes back: what is
   received late must then be bounded in time, which the model does not have.

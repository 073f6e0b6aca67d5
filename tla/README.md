# A verification project for rtspYolov5

The repository takes video from RTSP cameras, hands it to the hardware decoders
of a Jetson board and runs a YOLOv5 network on the pictures. This directory
holds TLA+ models of its control logic, TLC configurations that check them on
small instances, and TLAPS proofs of the results that hold for every size.

## 1. Inventory

Two processes work together.

`rtsp_bin` (`rtsp/`) is one thread around the event loop of the `connet`
library (which is not in the repository). It keeps a table of cameras, talks
RTSP to each, and writes every RTP packet as a fixed block of 1616 bytes to the
unix socket `/tmp/sockUnix`; blocks with command 88 and 89 carry changes of the
window layout and lost cameras.

`dec_bin` (`decoder/`) reads the socket. Its main thread assembles frames and
queues them at the hardware decoders, one capture thread per channel takes the
pictures out, converts them and runs the network, and one worker thread runs
the small event scheduler in `decoder/osal`.

| Component | State | Operations | Interacts with | What makes it correct |
|---|---|---|---|---|
| decoder buffer `dec_buf.c` | heap, head, tail | append, extend, reset, consume | called by stream.c | no write outside the heap; a queue of bytes |
| packet dispatch `rtpPkgProcess.c` | window count, per-channel flags | layout (88), camera lost (89), RTP data | socket, buffer, scheduler | hidden and lost channels are clean; indices in range |
| frame assembly `stream.c` | buffer, PKG_STARTED, enPPS, slice counters | unpack H.264/H.265, do_decode | buffer, output plane | whole frames in order; recovery after loss |
| output plane `nvdec.c` | queued and finished buffers, got_error | initBuf, qBuffer, dqBuffer, abort | device, main thread, capture thread | buffers go round; no wait for ever |
| scheduler `osal/`, `alltasks.c` | tasks, event bits, timers, mutex | add, start, clear, update, handle | worker and main thread | no event lost; periodic tasks live; mutex returned |
| timer list and message box `osal/timers.c`, `osal/msg.c` | doubly linked list, cache of records, wall clock | add, stop, update; push, pull | scheduler; the message box has no caller | each alarm rings once and in time; each task gets its messages in order; a pulled record is not reused while it is read |
| capture thread `nvdec.c`, `renderer.c` | capture plane, dma buffers | first event, set capture, transform, infer, requeue | device, CUDA, freeDecoder | buffers go round; nothing used after it is freed |
| EGL/CUDA cache `nvdec.c` 1017-1092 | cached fd, image, resource | post-process, clean-up | capture thread, freeDecoder | the image is the current buffer's |
| RTSP client `rtsp.c` | state of the dialogue, CSeq, timers | connect, requests, responses, reconnect | connet, pipe | every lost camera is tried again; no use after free |
| media table `media.c` | channel to client | configure, close old windows | RTSP clients | no client of an old layout survives |
| pipe `rtsp/main.c`, `shmring.c`, `decoder/main.c` | partial packets | write, reassemble | both processes | packet boundaries are kept |
| stream cutting `rtsp.c` 223-313, 527-585 | read buffer | find the length, consume, skip | connection, pipe | whole messages wherever `recv` cuts, and again after noise |
| inference `yolov5.c` | CUDA buffers | init, infer, release | capture thread | life time of the buffers |
| detections `yololayer.cu`, `common.hpp` | output with its counter, vector of detections | collect, sort, suppress | GPU threads, host | every slot read was filled now, by one thread; the surest of those that overlap are kept |
| file decoder `fileDecoder/decoder.cpp` | stream position, output buffers, capture plane, windows | read a unit, prime, feed, drain, show, clean up | file, device, main and capture thread | units whole and in order; the program ends |
| EGL renderer `NvEglRenderer.cpp` | descriptor, flags, one condition variable | create, render, destroy; draw, pace, swap | its owner and its thread | `render` comes back when its picture is shown; every call comes back |
| yolov5, logger, headers | - | - | not part of the two processes, or vendored | - |

What is hard here: two threads rewrite the event bits of a task, one of them
without the mutex; the only thread of the decoder process waits without a
time-out for a buffer that must come back; channels are reset by commands in
the middle of a frame; packets are lost; devices fail in the middle of a step;
shutdown runs while a capture thread still works. `PROJECT.json` lists each of
these hazards at its line.

## 2. Modules

| Module | Models | Abstract or detailed |
|---|---|---|
| `ByteFifo` | what a decoder buffer promises | abstract |
| `DecBuf` | `dec_buf.c` with its pointers | detailed; implements `ByteFifo` |
| `FramePipe` | whole frames, in order, some left out | abstract |
| `DecChannels` | dispatch, assembly, `do_decode`, output plane, for all channels | detailed; implements `FramePipe` |
| `Osal` | the scheduler and its two threads | detailed |
| `RtspClient` | `rtsp.c`: one connection to a camera, its timers and its dialogue | detailed |
| `RtspMedia` | `rtsp_bin`: all clients, the table `rc[]`, configuration messages | composes `RtspClient` |
| `Capture` | `nvdec.c`, `renderer.c`: the capture thread, its buffers, the image cache | detailed |
| `DecoderLife` | one decoder from start to end: main thread, device, shutdown | composes `Capture` |
| `PkgQueue` | a queue of packets between the processes | abstract |
| `ConfigPort` | `rtsp/main.c`: how packages are found on the configuration port | detailed |
| `PkgPipe` | `send_pkg`, the unix socket, and the reassembly in `decoder/main.c` | composes `ConfigPort`; implements `PkgQueue` |
| `FileReader` | `read_decoder_input_nalu` of the file decoder: how units are cut out of a file | operators |
| `AlarmClock`, `MessageBoxes`, `PictureScreen` | what timers, message box and renderer promise | abstract |
| `RecordList` | the linked lists with a cache of `timers.c` and `msg.c` | operators |
| `TimerList` | `timers.c` link by link, with a clock that is set | extends `RecordList`; implements `AlarmClock` |
| `MsgBox` | `msg.c` link by link | extends `RecordList`; implements `MessageBoxes` |
| `RtspStream` | `get_resp_len`, `search_rtsp_head` and the loop of `rtsp_read_handle` | detailed |
| `Detection` | `CalDetection` and `forwardGpu`, then `nms` | detailed |
| `EglRenderer` | the renderer's owner and its thread | detailed; implements `PictureScreen` while no wait ends by itself |
| `FileDecoder` | `decode_proc` and `dec_capture_loop_fcn` of the file decoder | extends `FileReader` |
| `DecBufProofs`, `DecChannelsProofs`, `OsalProofs`, `RtspMediaProofs`, `DecoderLifeProofs`, `PkgPipeProofs`, `FileDecoderProofs`, `PartsProofs` | theorems and proofs | |
| `MC*` | the same specifications for TLC, with their `.cfg` files | |

`DecChannels` uses the buffer as a sequence of fragments (what `DecBuf` is shown
to implement) and the scheduler as a set of running clear-screen timers; `Osal`
looks at the same two calls, `osalStartTimerEx` and `osalClearTaskEvent`,
statement by statement.

### DecBuf

Cells `mem`, indices `head` and `tail`, and `overrun` for a write behind the heap.
`Append_` is `dec_buf_append` with all that `dec_buf_extend` does: compaction
when the room behind `tail` is too small,
dropping everything when the chunk still does not fit. `TailToEnd` is computed
modulo the width of `size_t`. `DecoderSpec` has the operations the decoder
calls, `BufSpec` also `dec_buf_consume`, which has no caller.

### DecChannels

One record `dec[c]` per channel with the fields of `struct decoder_st`, the
fragments in its buffer, its output plane, and `main`, which says whether the
thread is idle or waits in `dqBuffer`. A packet is one step up to that wait
(`RecvData`); the rest of `do_decode` is a second step, so that the device, the
capture thread and the timers can act in between. `RecvSubwin` and `RecvChnErr`
are the status packets. `Cameras` names the channels that have a camera; a camera sends frames of several kinds and lengths;
`Lose` drops a fragment; `MayFail` lets device calls fail, the capture thread
abort, and a device stop without an abort (`DeviceStops`: the capture thread has
kept its buffers after failed transforms, `nvdec.c:810-814`, or has set up none,
`renderer.c:53-61`). Index errors set `wild`, after which no packet is processed.

### Osal

`worker` walks through `osalRunSystem`: the head of the list, the timer update
under the mutex, the load of a task's bits, the handler with a step for each
timer it starts, and the store of what the handler left. `main` adds the three
tasks in two steps each (count, link), starts and clears channel events (a
clear reads the bits, then writes them: `main.loaded`), and joins the worker.
`owed` and `cancelled` are history variables for the properties. Timers count
down in ticks. The two stores of `addTask` become visible in program order; a
machine may do otherwise, see the hazard at `tasks.c:54`.

### RtspClient and RtspMedia

`client[i]` is the record in pool `i`: the camera it is for, its channel, the
state of the write handler, both timers, both events, the request that comes
next (`do_next`) and, of every field learned in the dialogue, whether it is
from the connection in use or from one closed since. `camera[i]` is the other
end: the state of the connection, the request to be answered, and whether that
request was made of old fields. Each handler of `rtsp.c` is one action, with
the connection it makes anew, the requests it sends and the reset (command 89)
it writes to the decoder; each way in which `rtsp_reconnect_peer` ends is a
disjunct of `ConnectTimeout`. `connect_peer` may leave a new client connecting,
connected or without a connection (`Outcomes`); in the last two it gets neither
handler nor timer (`rtsp.c:66-71`) and never speaks to its camera. `source[c]` is a
history variable: the clients whose video the decoder has had since the last reset
of channel `c`, and `Gone` for one that has been given up. `Guarded` are the cameras
that ask for a password, `Reachable` those of whose host something is heard.

`Config` is one configuration message: `free_old_subwin`, `set_cam_chn` and
command 88 in one step, as the event loop runs them. The code compares the URL asked
for with as much of the client's as it is long (`media.c:26-27`), so `Matches` says
which requests leave a client alone: its own camera, a beginning of its URL, and an
empty URL with its address; any other of the requests in `Empty` closes the channel.
`GetPool` is the pool the library gives of those that are free. `main` starts a client for
channel 0 which is not in the table; `misuse` is set where a handler goes on
with a client that it has just freed, and stops the model.

The connet library is external: connecting does not block, a write event is
reported once, a timer of 0 ms expires before anything else happens to the
client. Other timers may expire at any moment.

### Capture and DecoderLife

A buffer is named by the number of its descriptor, because that is what the
code keeps: `dst` and `caps` are the numbers in `dst_dma_fd` and `dmabuff_fd[]`,
`open` the numbers in use. A new buffer may get any number that is free, so a
number that was kept can be stale or belong to another buffer by now. `cache`
is the EGL image and its CUDA resource; `image = "orphan"` says that it was made
of a buffer that has since been destroyed. `rgb` says whether the CUDA buffer
the network reads holds the picture in the thread's hands.

The capture thread is one action for each call after which main may act; the
whole of `query_and_set_capture` is one action (`SetCapture`), since main
looks at none of what it changes while the thread lives, with a disjunct for
each way it ends. The transform buffer is asked for in pitch-linear layout
(`renderer.c:81`); a frame that is not in it would not be copied (`nvdec.c:1075`),
which is what a failing copy comes to, since the result is ignored. `abort` turns both planes off. `isInError()` belongs to a
library: it may hold once a call has failed. `DecoderLife` adds `free_dec_chns`
and `freeDecoder` step by step beside the running thread, and the device.
Memory that is used before it was set or after it was freed sets `wild` and
ends the model: that is what happens when the thread comes to `Copy` or `Infer`
after `releaseCuda`, and when `freeDecoder` fails to get the buffer for the end
of the stream. `DecChannels` looks at the output plane frame by frame; here
only its buffers are counted. The model begins when `initDecoder` has come back:
that its calls may fail is not modelled.

Three things the model reaches are written down as hazards: the use of
freed CUDA memory during a shutdown (`decoder.c:65`), an EGL image made after the
cache was cleaned up (`nvdec.c:482`), and a cached image of a destroyed buffer
whose number was given again after a change of resolution (`nvdec.c:1025`).

### ConfigPort and PkgPipe

A byte of the configuration port is the number of its package with its value,
as far as the search for a head tells values apart. The client sends packages one
after the other, each behind noise of its own choice (`SendPackage`; `Ask` in the
composition); noise does not hold the magic number, or it would be a package.
`ReadConfig` is one call of
`server_read_handle`: what came is appended, packages are served from the head
of the buffer, and when a bad one is there, bytes are thrown away once
(`SearchPkgHead`). `Configure` adds the packet to the decoder that each package
causes. A byte of the pipe is its number in the stream of all packets, so that
losing, doubling or moving one shows. `Write` is one call to `send`, which
takes any number of bytes; after one that takes fewer than it was given the socket
is not ready and the handler returns. It does not ask for another event
(`main.c:113-135`): only `send_pkg` does (`shmring.c:22`), so what is left waits for
the next packet. `cut` is the history of that. `Recv` is one call to `recv`, and a
turn of the inner loop two steps, `Dispatch` and `HandlePacket`, between which
`pkgProcess` runs; it need not return, as `channel_h265_starves` shows.
`SendTooLong` is `send_pkg` with more data than `rtpPkg` has room for: lengths come
from the camera (up to 65539 bytes with the head, `rtsp.c:538-540`), the field has
1600, and `memcpy` does not ask (`shmring.c:14`). Nothing is known after that
(`wild`). The buffers are connet's strings, which grow; the end of either connection is not modelled. `sent` counts
packets from all callers of `send_pkg`; `RtspMedia` says when they are sent and
`DecChannels` what their handler does.

### FileReader and FileDecoder

The file decoder is a program of its own. A file is the positions of its units,
each with the length of its start code and whether a picture can be decoded from
it; `WellFormed` says that they follow each other and have a byte behind the code.
`ReadNalu` is one call of `read_decoder_input_nalu`: the stream after it
(position and failbit) and the range of the file the buffer then holds. When no
start code is in sight, the buffer keeps what it held, as in the code, where the
caller ignores the result. `main` and `thread` name the parts of `decode_proc`
and of the capture loop that run between two waits; one turn of the feeding loop
(dequeue, read, queue) is one action, since the capture thread shares nothing
with it but `got_error`. `query_and_set_capture` has one action for each group
of calls after whose failure it leaves different things behind. Two places
follow a null pointer and end the behaviour (`wild`): the second renderer, whose
test is commented out (`decoder.cpp:625`), and the clean-up after the decoder
could not be made (`decoder.cpp:2165`). The comment at `decoder.cpp:1007` says
that the capture loop ends on the end of the stream as signalled by main; the
loop does not read `got_eos`, it ends by the flag of the last buffer.

### RecordList, TimerList and MsgBox

`timers.c` and `msg.c` keep the same list: records linked both ways, and a cache
of records taken out, linked through `next`. A record is its place in `memory`;
its `key` is the task and event (or the task), its `body` the time (or the
message). `RecordList` has the list's own steps as operators on a record with
the fields of `timerList_st` and `msgBox_st`; `Found`
and `BoxIn` (the messages of one task) follow the links, so a link that is wrong shows as a timer or message that is lost, doubled
or out of order. `Osal` keeps one timer for each task and event; `TimerList` shows
that the links do just that. `TimerUpdate` is the whole loop, which unlinks the
record it looks at. Time is `gettimeofday`: `SetClock` sets it, and `AlarmClock`
says what that does to the timers that run. `held` in `MsgBox` is the history of
records handed out: `pullMsg` returns a record that is in the cache already, and
its caller may read it until a push takes it.

### RtspStream

A byte is a number; the line that ends a head and a `Content-Length` line are one
byte each. A piece is a packet as long as its head says (`IsPacket`), or an answer
with the body its head names (`IsAnswer`); `Noises` is whatever else may be sent.
`ReadBytes(n)` is one call of `rtsp_read_handle` for which `recv` returned
`n` bytes: the loop cuts off what is whole (`CutOne`), then what begins with
neither sign is dropped up to the next (`Skip`). The code looks for a sign anywhere,
so behind noise it may take bytes in the middle of a piece for a head; pieces and
noises may hold any bytes, and three histories tell what comes of it: `plain` (nothing
sent looks like the head of a piece that is none), `heads` (where video packets
begin in what is read and on its way) and `missed` (the search stepped over one of
these). `GetRespLen` reads the payload
type of a packet of two bytes behind the data; `Behind` is what is there. An
answer whose body has not been read yet makes the code consume more than there
is; the library's `buf_consume` is not in the repository, so that ends the
behaviour (`overdrawn`), and `CutsWholeMessages` speaks of the others. What the answers
say and cause is in `RtspClient`, which takes one message at a time.

### Detection

One batch, as in this program. The threads of a kernel take slots by `atomicAdd`
(`Reserve`) and fill them (`Fill`) in any order; kernels, the copy and the host
follow each other in one stream. Only the counter is cleared between two
inferences, so each slot keeps the inference that wrote it (`round`). The counter
is a float in the code, exact far beyond the number of threads. `Nms` sorts each
class in any order `std::sort` may give, `Keep` takes the next item over, and
`Compare` is one turn of the inner loop, which erases what overlaps the item and
sets its own index back (`Follower`). Boxes are values of which `Overlap` says which pairs overlap by
more than the threshold; it is symmetric, as `iou` is. The classes are taken one
after the other in one sequence, since no detection meets one of another class.
`nms` is called by the example in `yolov5/`; its call in `nvdec.c` is disabled.

### EglRenderer

Each critical section is one action, since no thread holds the mutex between two;
`waiting` is the set of threads asleep on `render_cond`. A broadcast empties it;
`Spurious` takes one thread out, as POSIX allows. `stop_thread` and `render_fd`
are used without the mutex, so `Render` and `Stop` are steps of their own before
the broadcast. `Pace` is the wait for the time of the next picture, which ends at
any moment (`Rested`). A failure in the constructor leaves a thread that is joined
twice, or one that was never started: `wild` ends the behaviour. The class is a
copy of the multimedia API's: the repository builds it with a stub `main`, the
file decoder links the library's own.

## 3. Runs

| Run | Question | Bounds | Result |
|---|---|---|---|
| channel_faults | frames whole and in order until one is lost, recovery after loss and device errors; idle channels are empty; buffers go round; every wait ends unless that channel's device has stopped | H.264, 1 channel, packets of one more, three frames of up to 3 fragments, two losses, failing calls | holds |
| channel_codecs | hidden channels are clean under layouts 1, 2, 4; with H.265 what is held back and sent later is NAL units in order, whole but for those a fragment of which was lost and where the buffer overflowed; the buffer's bytes are a queue | H.265: 2 channels, one with a camera; tiles, parameter sets, skipped packets; four units of up to 2 fragments, one of them lost, a buffer of 3; a heap of 5, chunks to 3 | holds |
| channel_h265_starves | second parameter sets are sent | no tiles | violated: the wait never ends |
| channel_range | channel numbers in range | CHNS 1, four windows | violated |
| osal | events, timers, mutex, periodic task, shutdown | 2 channels | holds |
| osal_cleared | cleared means not executed | 2 channels | violated: the bits are loaded without the mutex |
| rtsp | dialogue, resets, timers, table; a watched loss is retried | 3 pools, 2 channels, layouts of 1 and 2 windows; a camera that is open, one that asks for a password, one not reachable; an empty URL with and without an address | holds |
| rtsp_lost | whatever is lost is connected again | the same | violated: a camera that falls silent before PLAY, or a failed read, is never tried again |
| decoder_life | descriptors, buffers, pictures; resolution changes are served; the shutdown ends | 1 or 2 capture buffers, 2 output buffers, 3 descriptor numbers, every call may fail | holds |
| pkg_pipe | packages are found behind noise; packets arrive whole, once and in order, and in the end unless a send was cut short or `pkgProcess` stays away | 2 packages of 5 bytes behind noise of up to 6, 3 packets of 3 bytes, chunks of 7, a socket of 7 | holds |
| file_decoder | units whole and in order; the file is sent or an error reported | chunks of 12, five files of up to 4 units, 2 output buffers, 1 or 2 capture buffers, two changes of resolution, every call may fail | holds |
| parts | five small parts, each for itself: alarms, messages, the cutting of the stream, detections, the renderer | see below | holds |

`channel_codecs` and `parts` each run several specifications side by side: a
variable picks one in the initial state and the others stand still. They share
nothing, so a behaviour of the run is one of theirs. The fairness of `parts` is
the renderer's and asks for nothing before a window is made.

Why the bounds are enough: a buffer of five cells with chunks of up to
three meets an exact fill, a compaction with overlap, an overflow and a chunk
as long as the room; three fragments are the shortest frame with a start, a
middle and an end; a frame, its damaged neighbour and the one after need three
frames; four NAL units are two that prime the plane, a parameter set that
is held back and the frame behind it, or a unit that lost its end and two after it;
a buffer of three overflows in the middle of a unit (more units and losses, more
than one camera, and the layouts with H.264, are covered by the proofs); the two buffers of a plane are the code's own number; two channels are
enough for one to be shown and the other hidden; two channels of task 1 are
enough for a clear of one to rewrite the bit of the other; three pools are the startup
client and one for each channel, so that a pool freed by one message is taken
by the next while the others live; one or two capture buffers let a change of
resolution need more or fewer than before, and three numbers are as many as are
in use at a time, so that freed numbers are given again; a chunk and a socket
longer than two packets, no multiple of one and shorter than all, let every
boundary fall inside a packet and the socket fill up; the noise ends in what may begin a head, or resembles one; of the five
files three have units that fit the chunk, just so, with codes of both lengths, leading
bytes, a last unit of a whole chunk and two short units in the last window, one has a
unit longer than two windows, and one has none. In `parts`, three timers are a
head, a middle and a tail of the list, and two ticks let them be due together or
one by one; four messages of two tasks mix in one list and use its records
again; three messages, packets of video and of others, answers with and without a
body, and noise that is shorter and longer than the four bytes looked at are cut
at every place; two threads with two anchors, two layers and three slots overflow
the output in the first layer or the second, and the second inference finds the
slots of the first; six kinds of detection hold equals, chains of overlap,
another class and one below the threshold; the renderer has two windows one
after the other, three pictures each (the first is not paced) and two waits that end by
themselves, with every call failing or not.

Fairness. `DecChannels` assumes that the thread goes on when `dqBuffer` can
return and that a device decodes what it is given until it stops; that it stops is
always possible where calls may fail, and nothing is assumed of it then, nor of the
camera, the network or the failures. `Osal` assumes weak fairness of both
threads and of time, and strong fairness where the worker takes the mutex,
since main holds it for a few instructions only, and of main leaving its loop,
which it tests after every round of packets. `RtspMedia` assumes that the loop
of `main` goes round (`rtsp/main.c:227-235`): as long as there is something to do for
a client, one of its events is taken up or one of its timers expires (`Serve`). A read timer is only assumed to expire when the camera has fallen silent, since
every packet starts it anew; a camera, the network and the peer are assumed
nothing. `DecoderLife` assumes weak fairness of the capture thread and, once a
shutdown has begun, of main, both without a call having to fail for it; of the
time-out of the first event; and of the device, which decodes what it can and
drains. `PkgPipe` assumes that both event loops go round: a handler that is
due is run, and goes on; that the writer is told of room it did not ask for is not
assumed, nor that `pkgProcess` returns. `FileDecoder` assumes that both its threads run and that the
device decodes what it can, passes over headers, announces its first resolution
and drains. `EglRenderer` assumes that its thread runs and that the owner goes on inside a
call; the wait for the next picture has a time-out. Nothing obliges the camera to send or main to begin a shutdown.

Deadlock is checked where the system runs for ever (`osal`). It is not in
`channel_faults` and `channel_codecs`, where a write or an index out of range ends the
run, nor where a bound of the model stops the camera, in `rtsp`, where `misuse` ends it, in
`decoder_life` and `file_decoder`, which end with the decoder, or in `pkg_pipe`
and `parts`, where all may have been sent, or the last window is gone.

## 4. Proofs

All proofs are for every value of the constants that satisfies the named
assumptions.

* `DecBufProofs`: with every operation (`BufSpec`), type correctness, that only
  a buffer that was consumed from can be overrun, and that until then the buffer
  is a queue of bytes (`FifoUnlessOverrun`, a refinement of `ByteFifo`); the
  invariant is that the pointers agree with the count (`PointersAgree`). For append
  and reset alone, as the decoder uses the buffer (`DecoderSpec`), no overrun at
  all and the refinement without a condition. Invariant there: the data starts at
  the heap's beginning (`AtStart`), because only `dec_buf_consume` moves `head`;
  without it the room computed at `dec_buf.c:32` could not be bounded.
* `DecChannelsProofs`: for both codecs, type correctness, and that a channel
  holds nothing of a frame while it shows no video (`NoVideoIsReset`), while no
  window shows it (`HiddenStaysClean`) and while its clear-screen timer runs
  (`ArmedChannelsAreIdle`, which needs the first layout to have a window: a
  change of layout arms channel 0 without resetting it otherwise). For H.264, no output
  buffer is held back (`H264Balanced`) and a wait in `dqBuffer` is never for a
  buffer that cannot come back (`H264WaitCanEnd`). Invariant: the counts of the
  plane never exceed what was primed, a wait happens only on a primed plane,
  and with H.264 no branch of `do_decode` keeps a buffer, since slices and
  parameter sets are never counted. For H.264 also, and for every number of
  channels, frames and fragments: the decoder is back in step after a loss
  (`H264ResyncsAfterLoss`), and what reaches the device is whole frames, each once
  and in order (`H264FramePipe`, the refinement of `FramePipe`). The invariant
  (`FramesInOrder` and what it rests on) says which stretch of which frame the
  buffer holds at each place of the camera in that frame: either the fragments so
  far without a gap, or a loss has been noted. For both codecs, and
  whatever is lost: what reaches the device is in the order of the camera, nothing
  twice, and each NAL unit in it is whole unless a fragment of that very unit was lost
  or the buffer ran full in the middle of the first one (`NalusInOrder`); with H.265
  `do_decode` leaves parameter sets in the buffer, so that this is a statement about
  runs of units. The invariant (`UnitsInOrder`) says of each run, queued or still in
  the buffer, that it is in order and no longer than what has come, that a unit in it
  is complete, or hit by a loss, or the one that is just arriving, and that of the
  latter the buffer has all that came once its start was seen. An overflow drops
  what the buffer held, so a unit that begins in the middle is the first of its run.
* `OsalProofs`: type correctness, `NoEventLost`, `BeatGoesOn`,
  `ClearedHasNoTimer`, `MutexNotKept`. Invariant: beside the properties, what
  each thread knows in the middle of its read-modify-write (`HandlerKnows`,
  `ClearKnows`), and that tasks are counted before they are linked (`ListGrows`).
* `RtspMediaProofs`: type correctness, `RequestsUseThisDialogue`,
  `DecoderIsTold`, `RefusedIsLeftAlone`, `ConnectingIsTimed`,
  `TableOwnsClients`, `OldLayoutIsClosed`. `DecoderIsTold` excepts channel 0, where the client of `main`
  and one of the table may both send video (`main.c:203`). The invariant has two parts. `Sound`
  is about one client and its camera and is kept by every handler: a client
  that connects has nothing of an earlier session (so no field is ever old), a
  client that waits for its write event has no other event or timer but the
  write timer. `Owned` is about the table: each entry is a live client of that
  channel, each live client but the startup one is in the table, and the video
  a decoder channel has had is of a live client of that channel.
* `DecoderLifeProofs`: type correctness and the four safety properties of
  `DecoderLife`. Types need two facts of their own: a buffer is in the thread's
  hands exactly in the steps that use one (`HandFits`), and the output plane
  has a free buffer when the end of the stream is queued (`RoomForEos`).
  `Round` adds to `BuffersGoRound` that the picture in hand is one of the
  buffers in use (`InPlace`). `Owned` says that the capture buffers in use are
  open and distinct, and distinct from the transform buffer (`Whole`), which
  exists while a picture is converted (`Ready`), until the decoder is gone
  (`Over`). `Shown` says what the cache holds in each step of the thread, as
  long as main has not begun to clean it up, which it does only after it has
  set `got_eos` (`EosFirst`).
* `PkgPipeProofs`: type correctness with the bound on what `dec_bin` keeps, and
  the refinement of `PkgQueue`, for any length of packets, chunks and socket.
  The invariant `NoGap` says that what is handled, read, on its way and still to
  be written is one stretch of the stream, ending where `send_pkg` has got to.
  For the configuration port `NoPackageLost`, for any number and length of packages
  and any noise without the magic number. The invariant is about the bytes that
  have come and not been thrown away, and those still on their way: a
  package's bytes are in it whole, the packages are those asked for and not
  served, in order, the magic number stands nowhere but at their heads, and the
  stream ends with a whole package. So a search that stops early or late would
  stop inside noise, never behind the head of a package. That a call serves
  packages in order is an induction over their number, done with the least
  counterexample.
* `FileDecoderProofs`: type correctness; each buffer of the capture plane is in
  one place (`BuffersInOnePlace`); the units queued are units of the file, whole
  and in order (`UnitsInOrder`). Assumed of a file is that it is `WellFormed`. The
  lemmas say what `ReadNalu` returns: the stream stands where a start code begins
  or a window ends, and what was copied begins and ends at start codes as far as
  the chunk reaches. The invariant ties the last unit sent to the position of the
  stream, which main alone moves.
* `PartsProofs`: the renderer, the detections, the message box, the timer list and
  the stream.
  `HandsOver`: until a wait ends by
  itself, the renderer's steps are those of `PictureScreen`. The invariant
  `Agreed` says, for each place of the owner, where the painter is and who
  sleeps: outside a call the painter sleeps, so the broadcast of `render` finds
  it; inside one the owner sleeps until the painter has dealt with the picture of
  this call. With a spurious wake-up it is lost, and the property says no more.
  `SlotsAreFilled`: a thread owns a slot only while it runs and alone
  (`SlotsAreOwned`), and a slot that was counted is filled or owned
  (`CountedIsSeenTo`); at the end of a layer no thread runs.
  `KeepsTheSurest`, from the symmetry of `Overlap` and for classes and
  confidences that are integers: the invariant `Sifting` says that what is left is
  sorted and without repetition, that whatever was erased overlaps one kept
  before it (`Covered`), that no two compared so far overlap (`Apart`), and that
  what was kept is the front of what is left (`ResIsKept`).
  `PulledIsIntact` and `ImplementsBoxes`, for any tasks and messages: the invariant
  `Chained` says that the records in use, from head to tail, and the cached ones, in
  the order they are taken, are together the whole memory, each once, and linked so;
  and the cached ones are those handed out, the latest first. Each link then leads to
  a record nearer the end, which is why the functions that follow the links exist, and
  what they return is a sequence along the list: `Appended` puts one message at the end
  of it, `Recycled` takes out the first of a task.
  `ImplementsAlarms`, for any timers: the same invariant, and a timer has one record
  (`KeysOnce`), so what `findTimer` finds is all there is of it. The loop of
  `timerUpdate` is an argument of its own (`LoopAt`): the records before the one it
  looks at are not yet due, what is no longer in the list has rung, and each turn
  leaves one record less to look at, so the bound on the turns is never reached early.
  Assumed is that delays are not negative and the clock is set within its bound.
  `CutsWholeMessages`, for any pieces however `recv` cuts: the invariant `StreamInv`
  says where each piece sent begins in what is not consumed (`Fits`), before its first
  byte for those that are. The pieces do not overlap and their bytes are there
  (`Laid`), what was handled are pieces consumed, in order (`Picked`), and without
  noise the pieces touch and the next one begins at the first byte (`Tight`): so what
  `get_resp_len` reads there is the length of a piece (`PieceIs`), and it waits for
  more only when that piece is not whole (`Waits`). Nothing is
  assumed of what packets carry. Once noise has been sent, a byte of a piece may be
  taken for a head, and what is handled is whole pieces in order as long as `plain`
  holds: then a sign stands only where a piece begins (`Marked`). What the search
  drops is another matter, and needs no such condition: `NoVideoIsDropped`, for any pieces
  and noises. `Skip` stops at the first two bytes that look like a packet, so at
  the latest at those of the first video packet (`HeadsLie`), false head or not. An
  answer with a body that comes late takes more than was read; the first property
  leaves that out (`overdrawn`). The loop is again an argument of
  its own (`Cutting`): each turn that cuts leaves less, so the bound on the turns is
  never reached early.

Nine type invariants are theorems and `MsgTypeOK` and `TimerTypeOK` are
part of proofs, and for that reason they are not among the runs' properties.
Proved rather than run are also `WaitCanEnd`, `FramesInOrder`, `BeatGoesOn`,
`ClearedHasNoTimer`, `RefusedIsLeftAlone`, `PointersAgree` and `OverrunNeedsConsume`.

Only model-checked: the liveness properties, which are out of reach of the prover.
So is induction over data through the
library's theorems: where a recursive function or a loop had to be reasoned about
the proofs take the least counterexample instead.

## 5. Not modelled

RTP time stamps (`stream.c` around 98-211), the log of sequence numbers, file recording and
packets shorter than their header; failing calls of `initDecoder`; contents of frames; formats, sizes and
colour spaces of the capture plane, and the branches that this build of the
decoder leaves out (rendering, converter, non-blocking mode, metadata), the last
three in the file decoder too, and that the creation of its thread may fail; building networks and
engine files (`yolov5/`), the kernels that only convert pixels, the plugin's serialisation; TensorRT's logger;
the renderer's overlay, profiling and the arithmetic of its pace; requests that are sent in parts
(`rtsp_rewrite_handle`); the end of a connection between the processes
(`decoder/main.c:52`), which is connet's; `osalFree` and the getters, which nobody calls;
and what the plan below has left.

## 6. Plan

1. `ByteFifo`, `DecBuf` - done.
2. `FramePipe`, `DecChannels` - done.
3. `Osal` - done.
4. `RtspClient`, `RtspMedia` - done.
5. `PkgQueue`, `ConfigPort`, `PkgPipe` - done, with proofs.
6. `Capture`, `DecoderLife` - done; left is a run for the comment at
   `nvdec.c:460` (CUDA resources are cleaned up before EGL is terminated).
7. `FileReader`, `FileDecoder` - done, with proofs.
8. `RecordList`, `TimerList`, `MsgBox`, `RtspStream`, `Detection`, `EglRenderer` -
   done, with proofs.

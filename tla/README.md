# Verification of lpx

lpx records passing trains: `lpx-control` runs on a Raspberry Pi beside the track,
takes a frame at a time from a camera sensor while a train is passing and stores it;
`lpx-server` serves the stored streams over HTTP and deletes them. This directory holds
TLA+ models of the two programs, TLC runs that check them on small instances, and
TLAPS proofs about them for instances of any size. `PROJECT.json` says which definition
models which lines, which run checks which property, and where the code is exposed to
what hazard.

Paths below are short: `main.c`, `camera.c`, `raspiraw.c` and `train_sensor.c` are in
`lpx-control/src`; `stream_storage.c`, `stream.c`, `bmp.c`, `list.c` and `lpxstd.c` in
`lpx-shared/src`; the server is `lpx-server/src/main.c`.

## The system

| component | source | state | operations |
|---|---|---|---|
| stream storage | `stream_storage.c` | a directory per train, a file per frame, `index.csv` | prepare, store frame, store index, read index, find, open, delete, clear |
| capture main loop | `main.c` | `train_id`, the events pipe | train in, train leave, key |
| capture sessions | `camera.c` | `capture_session`, frame list, frame number, request time, `stopping` | start, stop, handle frame, write index, close |
| camera driver | `raspiraw.c` | `cfg->user_data`, MMAL components, port and pool, sensor registers | init, start, stop, callback, close |
| train sensor | `train_sensor.c` | `running`, the interrupt pipe, time of the last event | interrupt, device thread, stop |
| archive stream | `stream.c`, `bmp.c` | position in the archive, open file, buffers | open, read, close |
| frame search | `stream.c` | none | frame by offset, frame by time |
| HTTP server | `lpx-server/src/main.c` | open downloads, the static `spos` | GET and DELETE of `/stream`, DELETE of `/streams` |
| list and helpers | `list.c`, `lpxstd.c` | a linked list | append, size, iterate, copy, free |
| BMP conversion | `bmp.c` | none | raw frame to BMP |

How they interact. Three threads run in `lpx-control`. The thread of wiringPi writes a
byte into a pipe for every edge of the sensor's pin; the sensor thread takes the bytes,
reads the pin and sends an event through a second pipe; the main thread polls that pipe
and the standard input, and starts and stops capture sessions. MMAL calls `callback` from
a thread of its own, which finds the session through `cfg->user_data`. `lpx-server` has
one thread, that of libmicrohttpd, in which the pieces of several downloads and other
requests alternate. The two programs meet only in the storage directory.

What is hard, component by component, and what makes it right:

- **Capture sessions.** The callback thread uses a session that the main thread stops,
  indexes and frees; only the flag `stopping` is guarded by a mutex, and it is acted upon
  after the unlock. Right means: an index describes frames that exist, in order and
  without a gap; a stop loses at most the frame in flight; a directory has one writer; the
  name of a running session, which is main's own string, is not freed. The list of frames
  and the buffer of `current_time` are shared without a lock, on processors that reorder
  memory accesses. Right means: only the frame being handled at the stop is at risk, and a
  time is one that was read by a call that had to do with it.
- **Death and restart.** Nothing is recovered at a start: directories without an index, a
  cut index, and a sensor that is still streaming are met as they are. Right means: what an
  earlier run has left is not touched, and what is published keeps its promise.
- **Storage.** Each call may fail half-way, and deleting is a listing followed by single
  unlinks, without a lock against the capture. Right means: a deletion answered Ok has
  removed what was there, and it ends whatever the capture does.
- **Train sensor.** Bytes in the pipe are older than the value of the pin that is read for
  them, and events within 100 ms are dropped. Right means: a change of the pin after a
  quiet time is reported, and closing the sensor never hangs.
- **Archive stream.** A caller's buffer may end anywhere in the archive, and a file may be
  gone when it is its turn. Right means: the reader gets the bytes of the archive in order
  and the end only at the end.
- **Frame search.** Unsigned 64-bit and signed long arithmetic; a loop that stops early.
- **Server.** Downloads share `spos`; a stream may be deleted while it is being sent.
- **Camera driver.** Any of some twenty calls may fail and jumps to one of four labels,
  which `raspiraw_close` repeats.

## Modules

| module | models | composed from |
|---|---|---|
| `StreamStorage` | the directory tree and the writing operations on it, as action operators | |
| `Recorder` | abstract: what `lpx-control` promises to whoever uses the storage | |
| `Capture` | main loop, sessions, and the callback thread of `lpx-control` | extends `StreamStorage`, implements `Recorder` |
| `Restart` | death, restart, a clock that is set back, a sensor that goes on streaming | extends `Capture`, implements `Recorder` |
| `FrameQueue` | abstract: the list of frames as `Capture` uses it | |
| `CameraThreads` | what the two threads share without a lock, one memory access at a time | implements `FrameQueue` |
| `SharedStorage` | DELETE of `/streams` and `/stream`, system call by system call, next to the capture | extends `Capture` |
| `IndexFile`, `MCIndexFile` | `index.csv` between its writer and its reader, byte by byte | |
| `TrainSensor` | interrupt thread, sensor thread and shutdown | |
| `Archive` | abstract: what `stream.h` promises of a byte stream | |
| `ByteStream`, `MCByteStream` | `stream_open`, `stream_read`, `stream_close` | implements `Archive` |
| `FrameSearch`, `MCFrameSearch` | `stream_find_frame` as a loop | |
| `Server`, `MCServer` | GET and DELETE of `/stream` with several connections | extends `StreamStorage` |
| `CameraDriver` | `raspiraw_init` and `raspiraw_close` | |
| `CaptureProofs` | theorems about `Capture`, `SharedStorage` and `Restart`; `Capture` and `Restart` implement `Recorder` | extends `SharedStorage`, `Restart` |
| `CameraThreadsProofs` | theorems about `CameraThreads`, and that it implements `FrameQueue` | extends `CameraThreads` |
| `IndexFileProofs` | theorems about `IndexFile` | extends `IndexFile` |
| `TrainSensorProofs` | theorems about `TrainSensor` | extends `TrainSensor` |
| `ByteStreamProofs` | theorems about `ByteStream`, and that it implements `Archive` | extends `ByteStream` |
| `ServerProofs` | theorems about `Server` | extends `Server` |
| `FrameSearchProofs` | theorems about `FrameSearch` | extends `FrameSearch` |
| `CameraDriverProofs` | theorems about `CameraDriver` | extends `CameraDriver` |

### State and actions against the code

`StreamStorage`. `dirs` are the directories below `base_dir`, `files[t]` the numbers of the
frame files in one, `indexed` and `index` the file `index.csv` and the rows a reader gets
from it. `StoragePrepare`, `StorageStoreFrame`, `StorageOpenIndex` and `StorageWriteIndex`
are the C functions of these names with all their results (the last two are
`storage_store_stream_idx` before and after its `fopen`). A row of the model has one more
field than a row of the file: the number of the frame it was made for, as history.

`Capture`. A step is what one thread does between two points where the other thread, or
the file system, can see or change what it uses: `camera_start_stream` is three steps
(session and directory, `cfg->user_data`, sensor), `camera_stop_stream` eight (the test of
the pointer and the flag, setting the flag, `raspiraw_stop`, and
`camera_write_frame_index` from the size of the list to the two `free`s); the callback
thread reads `cfg->user_data` twice, tests `stopping`, stores, and appends. A session is
never removed from the model: its `state` tells whether its memory has been freed. Reading
`stopping` in freed memory gives any Boolean; any other use of freed memory, a null
session, a second `free`, writing past `frame_array` and the `free` of an uninitialised
pointer end the process (`fault`). The mutex of a freed session may also never be had: main
is then `blocked` for ever in `camera_stop_stream`, and the callback thread stays where it
tests the flag. A train's name is the pointer main holds, which `camera_start_stream` keeps
in place of the copy it makes (`camera.c:115-117`); `freedIds` are the names that have been
freed. The clock is taken in one step: that `current_time` may mix two readings is shown by
`CameraThreads`, and such a time gets into no row here. So what `PublishedRowsContiguous`
and `Recorder` say of ends before starts is said of times that were read whole. A failed
status, on which main would leave its loop, is left out, for `train_sensor.c:84` passes
`LPX_SUCCESS` only.

`Recorder` knows of directories, frame files and indexes only. `Begin`, `Store` and
`Publish` are what may be seen from outside: a stream appears with all its rows in one step
and is never changed. `Capture` implements it (`ImplementsRecorder`) with an index that
counts as published when its writer has closed it; a read in between is the subject of
`IndexFile`.

`Restart`. `DieAndRestart` may come between any two steps of `Capture`. It keeps the
storage, with any prefix of the rows when the index is being written and with or without
the frame that is being stored, and sets everything else to what `main` and `camera_init`
make of it. `SetClockBack` sets the clock to an earlier reading, so that a new train may
get the name of an old directory. `sensorOn` is what the I2C registers hold: it outlives
the process, and a buffer that comes before the first train meets `cfg->user_data`, which
`raspiraw_init` has not set (`StrayBuffer`).

`CameraThreads`. `LstAppend` makes its four writes (the zeroed item, its data, the pointer
to it, the size) invisible at first, and `Propagate` lets the main thread see them one by
one in any order; the mutex, which the callback thread takes before it handles the next
frame, is passed only when all can be seen. `ReadSize`, `ReadFirst` and `CopyItem` are the
reads of `lst_size` and `lst_to_array`; a pointer that reads as garbage, and a copy behind
`frame_array`, are faults. `ReadClock`, `StoreSec`, `StoreUsec`, `CopySec` and `CopyUsec`
are `current_time` in either thread: two words go into a static variable and are copied out
of it. Each thread sees the variable in its own way (`curTime`): a store becomes visible to
the other with `PropagateTime`, at the latest when its thread has released the mutex, and of
two stores to one word the one that is visible later stays. `FrameQueue` is what remains for `Capture` when the accesses are put together: a
frame in progress may be counted and not found, found and not counted, or found half-made.

`SharedStorage` adds the server's thread to `Capture`. `ListDirectory`, `Unlink`,
`RemoveDirectory` and `AnswerOk` are the system calls of `storage_delete_stream` in the
loop of `storage_clear`; the capture may take any step between two of them.

`IndexFile`. A row is one unit for its start with the comma, one for each digit of its end
and one for the line feed. The writer prints rows into a buffer (`PrintRow`, `PrintFails`),
from which any number of units may reach the disk at any time (`Flush`, `Close`), or
none any more (`Die`). A request reads the file two or three times: to find the stream, to
search frames, to open it. `Fetch` reads some of what is there, `ParseLine`, `ParseCutLine`
and `ParseRestOfLine` are `fgets` with `sscanf` on a whole line, on the part of a line at
the end of the file, and on what follows it when it comes later.

`TrainSensor`. Three threads and the world: `PinChanges`, `NoticeEdge` (wiringPi,
external), `HandleInterrupt`; `ReadInterrupt`, `IsRunning`, `ReadPin`, `Debounce`,
`SendEvent` are the loop of `handle_device`, cut wherever another thread may come in.
`Register` comes before the loop: an edge before it is noticed by nobody. `SetClockBack`
sets the clock to an earlier reading; the difference `Debounce` takes is of two unsigned
numbers, so that one below zero counts as a very large one (`Elapsed`).
`StopLock`, `StopWake`, `StopUnlock` and `Join` are `train_sensor_close`. A write to a full
pipe blocks.

`ByteStream`. A step is one call of `read_part`, of which `stream_read` makes as many as
the buffer has room for. Each byte of the archive is a value that tells where it comes
from, so a byte that is repeated, left out or out of place is visible. `PartOverruns`,
`PartAtEnd`, `PartFails` and `PartCopies` are the ways one call may go.

`FrameSearch`. `CompareWithNext` is the body of the loop, `AfterLoop` what follows it.
Numbers are taken modulo `QuadSize` (2^64) and `LongSize` (2^64 on a PC, 2^32 on the Pi).

`Server`. A request handler and the production of one piece of a download are steps. A
download is counted in units, one for the count of frames and `FrameUnits` for each frame.
`Get` is `handle_stream` for GET with `storage_find_stream`, `open_stream_offset` and
`open_stream_frames`; `ReadPiece` and `AssertionFails` are `stream_reader_callback`.
`Delete` is one step, because the server's only thread does nothing else meanwhile; the
steps inside of it are those of `SharedStorage`.

`CameraDriver`. `pc` walks through `raspiraw_init` call by call; `StepFails` is the failure
of any of them and `OnFailure` the label it jumps to. The labels are the same in
`raspiraw_close`, so the two functions share the actions. A field that was never set holds
NULL or a wild pointer (`field`). `cfg->capture` is set to 1, so the branch that connects
the renderer is dead and not modelled.

## Runs

| run | module, cfg | distinct states | shows |
|---|---|---|---|
| `capture` | `Capture` | 501 000 | the two threads implement `Recorder`; at most one frame is lost; a directory has one writer; the name of a running session is not freed |
| `restart` | `Restart` | 5 480 000 | the promise of `Recorder` survives deaths, restarts and a clock set back; what is left behind is not touched; a stray buffer needs a death or a failing I2C bus |
| `camera_threads` | `CameraThreads` | 2 000 000 | list and time buffer under weakly ordered memory: `FrameQueue` is implemented, one frame is at risk, times are those of the call or of calls it meets |
| `shared_storage` | `SharedStorage` | 181 000 | every deletion is answered; Ok means that all it found is unlinked |
| `index_file` | `MCIndexFile`, `IndexFile` | 110 000 | what is read is a prefix with at most one cut row; a row that was found is found again; a closed index is served whole |
| `train_sensor` | `TrainSensor` | 656 000 | a quiet change always has a wake-up behind it and is reported; closing wakes the sensor thread and returns |
| `byte_stream` | `MCByteStream`, `ByteStream` | 1 650 | `stream_read` implements `Archive`; reading ends |
| `frame_search` | `MCFrameSearch`, `FrameSearch` | 56 000 | the nearest frame, for every index and offset within the bounds |
| `server` | `MCServer`, `Server` | 315 000 | complete downloads are whole, have the frames asked for, and never come from a deleted stream; without overlapping downloads the assertion on `spos` holds |
| `camera_driver` | `CameraDriver` | 921 | everything is released after a failure at any call, in the right order |
| `capture_termination` | `Capture` | violated | a key can end in a use of a session that is gone |
| `server_overlap` | `MCServer` | violated | two downloads in turn fail the assertion on `spos` |

`Server` has no heap: that `stream.c:175` frees `raw_buf` and `stream.c:97` or `stream_close`
frees it again, which may end the server in any download, is in `ByteStream`.

### Bounds, and why they are enough

- `Capture`: `MaxSessions` 2, `MaxFrames` 2 buffers for each, `MaxClock` 2. Two sessions
  give the superseded session, the late frame for the wrong one, two arrivals in one clock
  reading and a stop after a stop; a third meets the same pairs. Two frames give a row
  with a neighbour, a failed store between the number and the row, and a frame in flight
  during the copy. Three clock readings let every step fall before, into or after another.
- `Restart`: the sessions and frames of `Capture` for each run of the program, one death and
  restart, the clock set back once, and two clock readings, so that a new train meets the
  name of every kind of directory an earlier run can leave: empty, with frames, with a part
  of an index, published. A second restart meets the same kinds.
- `CameraThreads`: three frames, so that there is one seen for certain, one between two
  others, and one in flight; a session started meanwhile; four readings of the clock in two
  seconds of two, so that the readings of overlapping calls differ in either word or both.
- `IndexFile`: three rows with ends of two digits, so that a row may be cut in its start, at
  the comma, in its end or before the line feed; times of the request in the first row, in
  the last, between rows that touch, and behind all of them.
- `SharedStorage`: one session of two frames and one request. The interleavings that
  matter are between one directory's writer and one deleter; deletions do not overlap,
  because the server has one thread.
- `TrainSensor`: three changes of the pin (there, back, and there again), a debounce time
  of two ticks within a clock of 2 to 6 that is set back once, pipes for four writes, which is every byte of the
  three edges and of the stop. The real pipe holds 65 536 bytes; a full one, in which
  `stop()` and the sensor thread would wait for each other, is outside of the run.
- `ByteStream`: three frames of five bytes with names of two lengths, and buffers smaller
  than a header, of about a frame with its header, and larger: every place a buffer may
  end at, in the count, a header or a frame, occurs.
- `FrameSearch`: `LongSize` 16 and `QuadSize` 64, every ordered index of up to three rows
  within five times, and all 64 offsets, among them those a negative one becomes.
- `Server`: two connections (their symmetry is used), two streams of three frames and of
  one, times that hit each and neither, frame times behind the stream before one within it
  and twice the same, a negative one, an offset within one stream and behind the other,
  malformed values. `SsizeSize` is 16, so that the time 15, which a frame covers, reads as
  -1 and is not found.
- `CameraDriver`: four buffers; the theorems hold for any number.

No run uses a state constraint; all bounds are guards of actions that come from outside
(events, clock, buffers, requests). Deadlock is checked in all runs but one: where a process
ends, or main is blocked for ever, the model says so with an action of its own
(`Terminated`, `Closed`, `Ended`...).
`CameraThreads.cfg` turns the check off: without a train and a frame both of its threads
wait, and after the copy nothing is left to be done.

### Faults

What may go wrong in the runs: any call to the file system fails (`Capture`,
`SharedStorage`, `IndexFile`, `Server`, `ByteStream`), also half-way through the rows of an
index; a file is deleted between two pieces of its download; `lpx-control` dies at any step
and is started again, and the clock is set back (`Restart`); a thread sees the other's
writes late and out of order (`CameraThreads`); the clock is set back between an edge and its
event (`TrainSensor`); the I2C bus fails (`Restart`); any call to
MMAL fails (`CameraDriver`); a client stops reading or comes back (`Server`).

### Abstract specifications

`Recorder` is implemented by `Capture` and by `Restart`, `FrameQueue` by `CameraThreads`,
`Archive` by `ByteStream`; all four are proved and checked.
`Capture` takes the list as `FrameQueue` describes it: `AppendInProgress`, `Found` and the
fault `wild_frame` are its `InProgress`, `WithNext` and `Fault`. The mapping of
`FrameQueue` takes the reading of the first pointer and the copy for one place, and counts
only what has been copied when the copy is complete.

### Fairness

`TrainSensor`: threads of the operating system run, so each has weak fairness on the steps
it takes by itself; the main thread also comes back to its `poll`, which is why it takes an
event that waits in the pipe. Nothing is assumed of trains, keys or the clock.
`Capture` states no liveness: that a stop comes to its end is false of the code, which may
wait for ever for the mutex of a freed session. `SharedStorage`: the server's thread goes
on with a request it has accepted; the capture need not run. `ByteStream`: libmicrohttpd
reads as long as the client takes the bytes. The other modules state no liveness.

## Where the code and what is said about it differ

With a run:

- `capture_termination`: `main.c:88` polls the keyboard for a correct termination. The
  session is freed while the callback thread may be using it (`camera.c:56-81` against
  `camera.c:170-171`), `cfg->user_data` is tested and read again (`raspiraw.c:323-324`), and
  `capture_session` is never cleared, so that a key after a departure works on freed memory
  (`camera.c:177-178`): an invalid access, or a wait for a mutex that nobody releases.
- `server_overlap`: `spos` of the server's `main.c:43` is shared by all downloads and asserted upon
  in line 44.

Met while modelling, without a run of their own:

- `stream_find_frame_abs` (`stream.c:88`) returns the time where `stream.h:39` announces the
  index of a frame. On a 32-bit `ssize_t` one microsecond in 2^32, that is one every 72
  minutes, reads as -1, and a GET or DELETE for it is answered 404 although a frame covers
  it. `Server` finds no stream for such a time, and no property says that one is found.
- `camera.c:60` consumes a frame number even if the frame cannot be stored, and
  `stream_storage.c:340-344` opens the files 0, 1, ... for as many rows as the index has:
  after a failed store `storage_open_stream` looks for a file that does not exist and never
  serves the last one, where `stream_storage.h:32` announces all frames. `Recorder` says
  what does hold: the rows are those of frames on disk, in order.
- `stream_storage.c:407` ignores the result of `rmdir`: DELETE of `/streams` is answered Ok
  although the directory of a stream that is being captured survives with the frames stored
  after it was listed (`stream_storage.h:44` says that all streams are deleted,
  `server_test.py:147` expects an empty directory). `OkMeansUnlinked` says what does hold.
- `stream.c:135,152,182` write the count, the name and the size whatever the space left,
  where `stream.h:52` says up to `max` bytes. `ByteStream` ends in a fault there.
- A frame that is being appended when the session stops may be found half-made in the list,
  and its fields be garbage; `Capture` has this as the fault `wild_frame`. On one processor,
  or with a mutex around `lst_append`, it cannot happen.
- An index that was cut inside the start of a row (a full disk, a death of `lpx-control`)
  is read as LPX_IO by every request (`stream_storage.c:163-166`): its stream is never found
  again and can only be removed by DELETE of `/streams`. One that was cut inside an end has
  a last row that covers no time, and its frame is served with the whole stream only.
- The sensor streams on when the process dies, and `raspiraw_init` does not set
  `cfg->user_data`: after a restart the handler may be called with whatever `malloc` left
  there. `StrayBufferNeedsFailure` says when this cannot happen.
- `raspiraw.c:294` returns without closing the descriptor of the I2C device.
- `storage_read_frame` (`stream_storage.c:225`) takes a complete `fread` for an error; no
  program calls it.
- `raw12_to_bmp` (`bmp.c`) has no return statement, so that `ByteStream` lets it fail at any
  time. Its `map_pixel` keeps the low 8 bits of a 12-bit value, and the header gives the
  pixels' place 4 bytes too low, which shifts the picture by 4 pixels; a comment says that
  some viewers want it so.
- `main.c:68` ignores the result of `storage_open`, and `main.c:97` takes `POLLIN` as the
  only event, so that a closed standard input (`POLLHUP`) is polled again for ever.
- `stream.c:175` frees `raw_buf` and keeps the pointer; `close_current_file` or
  `stream_close` frees it again. `ByteStream` has both outcomes, that the allocator notices
  and ends the process, and that it does not; all its other properties hold in either.
- A negative `frame_time` passes the check of the server's `main.c:82` and becomes a large
  unsigned offset, for which the search returns the first frame;
  `lpx-server/test/server_test.py:93-98` expects status 400. `Server` models the outcome,
  and `FramesAreThoseAskedFor` leaves negative times out.
- `camera.c:115-117` copies the name of the train and then keeps the caller's pointer. The
  copy is lost; the string is freed by main, or by the error path of `camera_start_stream` and
  then again by main. `NameOutlivesSession` says that this never meets a running session.
- `stream.c:74` passes a 64-bit difference to `labs`. With a 32-bit long the search is
  wrong for streams or offsets of more than 2^31 microseconds; `SearchRight` is stated, and
  proved, for differences that fit.
- `train_sensor.c:75-77` drops what comes within 100 ms of the last event and does not look
  again: a departure may go unnoticed until the next edge. `QuietChangeReported` promises
  only what comes after a quiet time.
- `open_stream_offset` in the server's `main.c:145` has no return statement. In the code
  gcc generates from `-O0` to `-O3` its value is the result of `storage_open_stream`, which
  `Server` uses.
- `raspiraw_init` reads `cfg->regs`, and both functions test `isp_render` and `rawcam_isp`,
  which nothing sets. With zeroes from `malloc` nothing happens (`ZeroesAreSafe`); with
  anything else the program may end there.

## Proofs

| theorem | says |
|---|---|
| `CaptureProofs!TypeCorrect` | `Spec => []TypeOK` |
| `CaptureProofs!PublishedContiguous` | `Spec => []PublishedRowsContiguous` |
| `CaptureProofs!OneWriter` | `Spec => []OneWriterPerDirectory` |
| `CaptureProofs!PromiseKept` | `Spec => ImplementsRecorder` |
| `CaptureProofs!OneFrameLost` | `Spec => []AtMostOneFrameLost` |
| `CaptureProofs!NamesKept` | `Spec => []NameOutlivesSession` |
| `CaptureProofs!RestartTypeCorrect` | `RestartSpec => []RestartTypeOK` |
| `CaptureProofs!Undisturbed` | `RestartSpec => LeftBehindUntouched` |
| `CaptureProofs!NoStrayBuffer` | `RestartSpec => []StrayBufferNeedsFailure` |
| `CaptureProofs!RestartsPromiseKept` | `RestartSpec => RestartsKeepPromise` |
| `CameraThreadsProofs!TypeCorrect` | `Spec => []TypeOK` |
| `CameraThreadsProofs!SettledCopied` | `Spec => []SettledFramesCopied` |
| `CameraThreadsProofs!OnlyOneAtRisk` | `Spec => []OneFrameAtRisk` |
| `CameraThreadsProofs!TimesWereRead` | `Spec => []TimeWasRead` |
| `CameraThreadsProofs!ListIsQueue` | `Spec => ImplementsFrameQueue` |
| `CaptureProofs!SharedTypeCorrect` | `SharedSpec => []SharedTypeOK` |
| `CaptureProofs!OkUnlinked` | `SharedSpec => []OkMeansUnlinked` |
| `CaptureProofs!ContiguousWithDeletions` | `SharedSpec => []PublishedRowsContiguous` |
| `ServerProofs!TypeCorrect` | `Spec => []TypeOK` |
| `ServerProofs!CompleteWhole` | `Spec => []CompleteIsWhole` |
| `ServerProofs!AbortOverlaps` | `Spec => []AbortNeedsOverlap` |
| `ServerProofs!DeletedGone` | `Spec => DeletedNotServed` |
| `ServerProofs!AskedForGiven` | `StoredInOrder => (Spec => []FramesAreThoseAskedFor)` |
| `IndexFileProofs!TypeCorrect` | `Spec => []TypeOK` |
| `IndexFileProofs!RowsInOrder` | `Spec => []OnlyLastRowCut` |
| `IndexFileProofs!FoundIsReadAgain` | `Spec => []FoundRowStays` |
| `IndexFileProofs!ClosedIsWhole` | `Spec => []ClosedIndexServed` |
| `TrainSensorProofs!TypeCorrect` | `Spec => []TypeOK` |
| `TrainSensorProofs!NotMissed` | `Spec => []QuietChangeNotMissed` |
| `TrainSensorProofs!StopSeen` | `Spec => []StopNotMissed` |
| `ByteStreamProofs!TypeCorrect` | `Spec => []TypeOK` |
| `ByteStreamProofs!ArchiveGiven` | `Spec => ImplementsArchive` |
| `FrameSearchProofs!TypeCorrect` | `Spec => []TypeOK` |
| `FrameSearchProofs!SearchCorrect` | `Spec => []SearchRight` |
| `CameraDriverProofs!TypeCorrect` | `Spec => []TypeOK` |
| `CameraDriverProofs!ReleaseComplete` | `Spec => []EverythingReleased` |
| `CameraDriverProofs!PortSupplied` | `Spec => []PortKeepsItsPool` |
| `CameraDriverProofs!ZeroesSuffice` | `Spec => []ZeroesAreSafe` |

**Capture**, for all `MaxSessions`, `MaxFrames`, `MaxClock` (naturals) and train ids that
are clock readings. Types are not inductive alone: a session is reached through pointers,
and a row takes its number from the counter minus one. `PointersValid` says which pointers
are defined at which place, and that the counter is positive in the handler's last step;
`TypeInv` is the conjunction.
Contiguity uses `RowsInv`: the list of every session is contiguous, its last row ends at
the session's request time, which has passed, and `frame_array` is contiguous as well. An
append keeps it, because the new row starts at the request time and ends now; the copy and
the index are prefixes, and prefixes of contiguous sequences are contiguous. One writer per
directory follows once it is known that the directory of every live session exists
(`LiveHasDirectory`): a new session gets a directory that did not, so no live session has
it, and every other step only ends sessions (`NoNewWriter`).

**Recorder.** That a step of `Capture` is one that `Recorder` allows needs to know what
sessions have to do with directories, of which `Recorder` knows nothing. `SessionsInv`: the
next frame of a live session has a number above all in its directory, and its list
describes frames that are there, with times between the session's start and now.
`AppendInv`: a frame that waits for its row has been stored, and is behind all rows.
`PublishedInv`: a live session has not been published, except between the writing of its
index and the `free`s, and whatever has been published ends before the first request time
of every session that may still be published; that is why two streams never overlap. Only
`HandleTrainIn`, `StoreFrame`, `IndexOpen` and `IndexWrite` change the storage; each maps to
a step of `Recorder` or to none, and all others to none.

**Frame loss.** `LossInv` counts: the frames on disk are at most one more than those in the
list, and one more only while the callback thread is between the store and the append;
once `stopping` is set, the frame that is still being handled is the only one that comes on
top of the count. The two ways to lose a frame (stored and not appended, appended and not
counted) are one and the same frame, since the callback thread is in one place.

**Names.** `StringsInv` relates the string main holds to the sessions: unless it has been
freed, it is that of `captureSession`, or of the session that is being started (`NameInv`);
when a stop is over, `captureSession` is no longer live (`StopOverInv`), because a session
that is stopping and still live is the one the stop is at (`StopsInv`). So the departure
that follows frees the string of a session that has ended. That a stop works at
`captureSession` is taken from `RecorderInv`.

**Restart**, for every number of restarts and of settings of the clock, on top of the
bounds of `Capture`. `StopLive` says that the main thread works at a session that has not
been freed. `BehindInv` says that no live session has a directory that an earlier run has
left: `storage_prepare` makes a new one, and both threads, and a write that is cut off by
the end of the process, touch directories of live sessions only. `SensorInv` says where the
sensor may stream as long as nothing has failed: only for `captureSession`, which is live
and not yet stopped, so the main thread cannot reach the end of its loop before
`raspiraw_stop` has switched the sensor off.

**Restart implements Recorder.** The invariants of `Capture` are stated with a parameter
`timed`, so that one proof serves for both: with `timed` they say that rows do not end
before their start and where they lie in time, without it only what the clock has no part
in (the join of neighbouring rows, frames on disk, numbers, what is published). `KeptInv`
has the latter always and the former until the clock is set back. A death leaves no session,
so that only what is said of the storage is at stake; `CutOff` lists what it may change, and
each is something the run could have done by itself: the frame that was being stored
(`Store`), or a prefix of the rows (`Publish`, by `Prefixes`). A new train after a restart
gets a directory that did not exist, about which `FreshDirs` says that it is empty; that is
why the runs before it need not be remembered.

**Threads of the camera**, for every number of frames, of sessions and of clock readings,
and every length of a second. The main thread begins to read when `stopping` is set. Then
either the callback thread handles no frame, and all its writes can be seen because the
mutex has been passed since, or it handles one; `StopInv` says that what can be seen from
then on is what could be seen (`settled`) and at most this frame, and `CountInv` and
`CopyInv` that count and copy are right up to there. `ListIsQueue` shows each access to be a
step of `FrameQueue` or none. For the times, `TimeOf` says from whose readings the two words
of `cur_time`, as a thread sees it, and of a result may be: the call's own, or those the
other thread held when it began or has read since (`mixed`). A store that is not visible
yet is one of a reading that is held (`HeldOf`). If all these readings are in one second, the seconds of one and the microseconds
of another make up a time that was read.

**Shared storage**, for every number of requests, sessions and frames. The invariants of
`Capture` are kept by the server, which adds no row; every file of the request that has not
been unlinked is still there (`LeftoverStored`, only the server unlinks) and is in the
listing or its directory has its turn to come (`LeftoverPlanned`). When the last directory is done,
nothing is left.

**Server**, for every set of connections, streams, times and offsets, and every size of a
frame and of a piece. `CompleteIsWhole` needs `SentInv`, which relates the units sent to the
frames opened: a download can only end where the last unit of the last frame has been sent.
`SposInv` says that without an overlap the static `spos` is the position of the one open
download, or will be reset by its first piece. `ChosenInv` says that the frames of a
download are those chosen from the index its stream still has (`IndexKept`). That these are
the frames asked for is a matter of the operators: `FindFrameNearest` shows by induction
that the distances `stream_find_frame` compares do not grow up to where it stops, and that
there is an order to sort the times into is an induction over the size of their set. It
needs `StoredInOrder`, that the rows of a stored index follow each other, which is what
`PublishedContiguous` gives of the writer while the clock is not set back; TLC checked it
for the values of the `server` run.

**Index file**, for every sequence of rows, every number of digits and every time asked for.
`LineInv` says that the reader has the rows of the file up to the unit it is at, and of the
row it is inside of either all but the line feed or the start and an end that was cut, which
is smaller than the start because it has fewer digits (`Cut`). What is on disk only grows,
so the row a stream was found by is there in the next read, and the reader is not inside of
an earlier one (`FoundInv`). `WriterInv` says what is on disk when the file has been closed
without an error, and `ClosedInv` that a request that began then never meets a cut line.
The powers of ten are a recursive function (`TenTo`) and not `10 ^ n`, of which the provers
know nothing.

**Train sensor**, for every debounce time, capacity of the pipes, and number of edges, of
clock readings and of times the clock is set back. These are the safety parts of the two liveness properties. That the sensor
thread never sleeps on an unreported change depends on what it knew when it read the pin:
`ValueInv` says that a value that is no longer that of the pin has a wake-up behind it, and
`TimesInv` that between events `last_event` is the time of the last one, so that what is
dropped comes too early to be a quiet change. `StartInv` says that there is no change to
miss before the handler is registered. `StopInv` says that from the byte of `stop()`
on a byte is in the pipe, or the thread has taken one and is about to see the flag.

**Byte stream**, for every number of frames, length of names, size of a BMP, and set of
sizes asked for. `ContentOf` is a recursive function, which is unfolded once for every
frame by an induction over their number. `PlaceInv` says how many bytes have been produced
at each place (header read or not, a frame open, how much of it is left), and `BufferInv`
that the buffer holds the bytes of the archive behind those that were delivered. A call of
`stream_read` that returns is then `Archive`'s delivery, and every other step stutters.

Three modules need induction over the natural numbers (the powers of ten, the files of an
archive, the rows of an index). The library's theorem takes an operator
as a parameter, which the provers cannot instantiate; `NatSet` derives it for sets from the
well-foundedness of `<` instead, which is a fact about a relation.

**Frame search**, for every width of a long and of the 64-bit type, every stored index
(`Ordered`: a frame is requested when or after the one before has been received, which is
what `PublishedContiguous` gives of the writer) and every offset, where `Fits` holds.
`SearchInv` has `LoopInv`: frame `i` is at least as near as every frame before it. When the
loop stops at `i`, frame `i + 1` is farther than frame `i`; since it does not start
earlier, it starts behind the offset, and all later frames start behind it and are farther
still. `LabsExact` says where `labs` is the absolute value.

**Camera driver**, for every number of buffers and every content of the fields that are
not set. `PlaceInv` says for every place in the two functions what is held, what is
enabled, that the port is enabled only where all is there, and which fields are valid; the
loops over the components carry `done`. The three properties are read off it.

The invariants were first checked with TLC, as invariants of the runs. Every invariant, every
refinement and both action properties that the passing runs check are also stated by
theorems. `SharedTypeOK` and `RestartTypeOK`, which add little to the `TypeOK` of `Capture`,
are proved and not listed in a run. Only model-checked is liveness (`RequestAnswered`,
`QuietChangeReported`, `CloseReturns`, `ReadingEnds`), which is outside the reach of the
prover.

## What is not modelled

- A power failure: nothing is ever synced, so any of what was written may be lost.
  `Restart` has the death of the process alone.
- The start and shutdown of the server, `answer_to_connection`, and requests it does not
  know; they change no state that a property is about.
- `storage_read_frame` and `storage_read_frame_meta`, which no program calls, and the
  iterator and `lst_last` of `list.c`, which one thread uses and which are taken as the
  sequence they walk.
- Torn times in the rows: `CameraThreads` shows how `current_time` may mix two readings,
  `Capture`, `Restart` and `IndexFile` take every time in one piece.
- What follows writing behind the buffer or a second `free` in `ByteStream`, and an access to
  freed memory in `Capture`: the model stops there, and no property promises that it does not
  come to that (but for a key, see `capture_termination`). The free of an uninitialised
  pointer in `stream_storage.c:130` is such an end too.
- In `CameraDriver`, the memory of `cfg` and `raspiraw`, and whether a component is disabled
  before it is destroyed: destroying ends both. `camera_close` frees the camera also when
  `raspiraw_close` has given up; the process ends right after it.
- The pixels of `bmp.c`: only that a conversion gives an amount of bytes, or fails.
- How many descriptors of the I2C device are left (`raspiraw.c:294`), and the values of
  sensor registers, which are data. The tables `imx219_modes.h`, `ar0144_modes.h` and
  `raw_header.h`.
- The branch of `callback` that displays frames, which `cfg->capture` = 1 turns off.
- libmicrohttpd, wiringPi, MMAL and the file system are external, modelled by what they
  may return.
- In `Restart`, a row that is cut in the middle, and in `SharedStorage`, the death of
  `lpx-control`: `IndexFile` has the file of one stream in full instead.
- `Capture` takes the events from `TrainSensor`'s pipe as they may come; the two modules are
  not composed.

## Plan

Done: the capture with its two threads, because most of what can go wrong is there; the
storage's other writer; the sensor; the reading side; the server and the driver; the
abstract recorder with its refinements; death and restart; the list and the time buffer at
the grain of memory accesses; the index as a file. Next, in this order:

1. `ControlSystem`: `TrainSensor` composed with `Capture` through the events pipe, with the
   order of the shutdown (sensor, then camera).
2. The bytes of a BMP against those of the raw frame.
3. Proofs: the safety of the composition, from that of `TrainSensor` and of `Capture`.

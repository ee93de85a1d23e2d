# A verification project for radio-observer

radio-observer takes an I/Q stream from a radio receiver, turns it into a
waterfall of FFT rows, and writes to FITS files what it records continuously
and what its meteor ("bolid") detector finds. This directory holds TLA+ models
of the parts of it that are hard to get right, TLC runs that check them on
small instances, and TLAPS proofs of what matters most, for all sizes.
Line numbers are those of the files under `src/`.

## The system

Threads. One *input thread* (JACK's process callback, or the main thread
reading a file or a socket) carries samples from the frontend through FFTBackend
to WaterfallBackend, which pushes a row and calls `update()` on each recorder.
Each recorder has one *worker thread* that writes files. The *main thread* runs
the frontend, handles signals, and ends the stream; with JACK the shutdown
callback may end it too.

| part | state | operations | interacts with |
|---|---|---|---|
| `RingBuffer2D` (RingBuffer.h) | head, size, chunks, reservations, free handles | `resize push at mark size isInRange reserve freeReservation isDirty` | written by the input thread without a lock, read by workers |
| `Channel` (Channel.h) | buffer, mutex, condition, closing flag | `send sendAll drain close` | between a recorder's two threads |
| `SnapshotRecorder` (WaterfallBackend.cpp) | next snapshot, its channel, worker | `start update startWriting threadMethod write writeRaw stop` | ring buffer, mark to time table, FITSWriter, CsvLog |
| `BolidRecorder` (BolidRecorder.cpp) | detector state, duration, next snapshot | `start update`, else as SnapshotRecorder | as above, and the message dispatcher |
| `WaterfallBackend` | ring buffers, table, recorders | `startStream processFFT endStream` | FFTBackend calls it, it calls recorders |
| `FFTBackend` | window, its fill mark, raw marks and times | `startStream process endStream` | frontend calls it |
| `IQGainPhaseCorrection`, `RingBuffer` | a delay line | `setPhaseShift process`, `push at resize` | FFTBackend |
| `Frontend`, `Pipeline` | stopping flag, stream info | `run process stop`, `startStream endStream` | App, backends |
| `JackFrontend` | ports, MIDI queue, flags | process and shutdown callbacks, `run`, `sendMidiMessage` | JACK's threads |
| `RawStream`, `WAVStream` | read position, format | `run stop` | files and sockets, FFTBackend |
| `CsvLog` | the file open, its name | `write` | the metadata log, shared by the input and every worker |
| `FITSWriter` | cfitsio's file and its sticky status | `open createImage writeHeader write close` | workers, for each file |
| `MessageDispatch` | listeners by message type | `addListener sendMessage` | BolidRecorder sends, SnapshotRecorder and JackFrontend listen |
| `Agent`, `MetadataAgent` | a thread and its channel | `start run stop join` | Pipeline |
| `App`, `Signal` | handlers of INT and TERM, a stack of callbacks | `onRun`, `install push pop uninstall` | Pipeline; signal handlers run on any thread |
| `WFTime` | seconds and microseconds | `addSamples getHour format` | the C library's one `struct tm` |

What is hard, and what would make each part correct:

* **RingBuffer2D** keeps its head three times over (chunk, item, index) and
  works with wrapped indices, where an empty range and a full lap look alike.
  Rows must be found where they were put; a reservation handle must have one
  owner; overwriting reserved rows must be noticed.
* **Channel** is a monitor with a `close()` outside it. Nothing may be lost,
  repeated, reordered or slept over, and closing must end the worker.
* **SnapshotRecorder** hands rows from a thread that never waits to one that may
  be slow. The snapshots must divide the rows between them, every snapshot must
  be released once, and a file must hold its rows and the right time.
* **BolidRecorder** counts rows in two counters with different meanings in each
  state. Every meteor must be reported once, whole, with its length.
* **FFTBackend**, **IQGainPhaseCorrection**, **RawStream**, **WAVStream** cut a
  stream into windows, delay lines, frames and chunks: the result must not
  depend on where the reads happen to end.
* **WAVStream** walks over subchunks whose sizes it does not quite count right, in an int
  that not every size fits, and may go on behind the end of the file. The file's frames must
  come first, once and in order.
* **App, Signal, Agent**: a signal handler runs on any thread at any moment, walks the
  stack of callbacks, and stops a pipeline that may be starting, running or gone.
  A callback must outlive the handler that calls it, and the program must end.
* **CsvLog** and **MessageDispatch**: threads that log lines of different hours, a process
  that may die between a file's header and its first line, fields stored one by one
  and read one by one, in some pipelines never. Each file must be a log, each line must be
  fresh, and of memory nobody wrote only where that cannot be helped.
* **FITSWriter** and the bands: an error sets a status that silences all later calls;
  frequencies are rounded to bins and rates to samples in several places.
* **JackFrontend** ends a stream under a callback that may still run, and from
  two threads; the MIDI queue must not keep a message for ever, though several may come in a
  period that sends one.

`PROJECT.json` lists the hazards one by one, at their lines.

## The modules

| module | what it is |
|---|---|
| `RingBuffer2D` | the ring buffer; `push()` is two steps (mark moved, then row filled), as its caller sees it |
| `MessageQueue` | what a channel promises: put some, get all, shut |
| `Channel` | Channel.h with a worker and a closer; `drain()` cut where others can get in |
| `SnapshotRecorder` | extends `RingBuffer2D`: the input thread (`processFFT`, `update`, `stop`), the worker (`threadMethod`, `write`) |
| `MeteorDetection` | what a detector promises: detections closer than a gap are one meteor |
| `BolidDetector` | the state machine of `BolidRecorder::update()` |
| `BolidRecorder` | extends `SnapshotRecorder` and instantiates `BolidDetector` on its `next`: the whole recorder, with its worker |
| `JackFrontend` | extends `SnapshotRecorder`: the callback, `run()` and the shutdown callback, each of which may be in `startWriting()` |
| `IQGainPhaseCorrection` | the correction and its delay line (the one-dimensional `RingBuffer`), as operators |
| `SlidingWindow` | what the FFT promises of its windows: consecutive samples, a hop apart, none early |
| `FFTBackend` | `process()` with the window, its overlap, and the raw mark and time kept for each sample |
| `RawStream` | extends `FFTBackend`: `runFromFD()` with reads of any length, and `stop()` at any moment |
| `WAVStream` | `run()` with `readSubchunk()` and the frames it reads, on abstract files |
| `Application` | extends `WAVStream`: `App::onRun()`, the handlers on any thread, `Pipeline`, an agent |
| `CsvLog` | `write()`, `getOutput()`, `getFileName()` for any set of threads, cut between the writes to a file |
| `MidiQueue` | `sendMidiMessage()` and the end of `onJackInput()` |
| `MessageDispatch` | extends `CsvLog` and `MidiQueue`: noise and bolid messages, the metadata lines of both recorders, the process dying and coming back |
| `FITSWriter` | the calls of a FITS file, each of which cfitsio may fail |
| `FrequencyBands` | frequencies, bins and sample counts, as operators |
| `SnapshotFile` | extends `FITSWriter` and `FrequencyBands`: the bands `start()` works out, what `update()` reads of a row, `write()` and `writeRaw()` call by call |
| `RingBuffer2D_proofs`, `SnapshotRecorder_proofs`, `BolidDetector_proofs`, `BolidRecorder_proofs`, `RawStream_proofs`, `MessageDispatch_proofs`, `JackFrontend_proofs` | theorems and proofs, each of the module it is named after |
| `Surroundings_proofs` | theorems and proofs about `Channel`, `Application` with `WAVStream`, and `SnapshotFile`: what surrounds the recorders |
| `MC*` | instances for TLC; their `.cfg` files give the sizes |

How state corresponds. Variables carry the code's names without the underscore.
Rows are numbered in the order they are pushed, a row's contents being its
number, so that a wrong row shows. `pushed`, `held`, `sent`, `drained`,
`closedAt`, `released`, `file`, `openFailures`, `detections`, `begun`, `overlapped`,
`endedAt`, `headless`, `strayed`, `delivered`, `stream`, `interrupts`, `logged` and the like, which
each module marks "history", are read by no action's guard except for the bounds. `slot` is where the latest push put
its row. Samples, like rows, are numbered, and a time is the number of the row
it is the time of, or in `FFTBackend` a number of microseconds. Program counters (`input`, `worker`, `closer`) are cut at each point
where another thread can see or change something the step uses. A critical
section is one step, but `drain()`, which lets go of the mutex and is raced by a
`close()` that does not take it, is several.

Data left out: what a row holds (a detection is a Boolean), formats, logging,
`ChunkItem::generation` (only `isBefore()` reads it, which nothing calls), the gain
added to Q, the text of a line, a name or a header. Raw samples are numbered, and a WAV
file is a sequence of chunks with an identifier and a size. `SnapshotFile` computes bands in
exact integers where the code has single precision. `WFTime::addSamples()`
computes in floating point; the models round down.
`push()` looks through `reservations_` without the mutex under which a worker
may be freeing one. The two steps commute: whether a freed reservation has become
dirty is never looked at.

## The runs

| run | bounds, and why they are enough | shows |
|---|---|---|
| `ring` | two chunks of two rows for three asked for, two reservations, eleven pushes | over two laps, with row, chunk and capacity all rounded up: rows found, handles owned, overwrites flagged |
| `channel` | two messages, five sends | every order of sending, draining, putting back, sleeping, waking and closing; refinement of `MessageQueue` |
| `snapshot` | snapshots of two rows, the eightfold buffer `requestBufferSize()` asks for, one lap and a row, one file that cannot be opened | a worker of any speed, a stream that ends anywhere |
| `snapshot_live` | snapshots of one row, no lap, one file that cannot be opened | every snapshot is released |
| `bolid` | advance 2, jitter 3, snapshots of 7 rows, all 2^13 streams of 13 rows | meteors interrupted, cut, and following one another within the advance, in snapshots that must not mix them; refinement of `MeteorDetection`. The bounds put `Gap > Advance` at its limit |
| `bolid_recorder` | advance 3, jitter 3, snapshots of 7 rows in the eightfold buffer, eight rows, one file that cannot be opened. `Gap` equals the advance, so a snapshot lacks its last row when it is sent; two meteors fit | a worker of any speed gets meteors before they are complete, puts them back, and writes them once |
| `jack` | snapshots of one row in an eight-row buffer, four rows: the callback sends a snapshot before, while and after the stream is ended | a stream ended by a signal, by the server's shutdown, or by both at once |
| `raw` | windows of four samples sharing one, in a raw buffer of seven; reads of up to fifteen bytes of two-byte samples, 28 bytes in all; a second of a hundred microseconds and three samples | a batch fills up to three windows, or none, a read can end inside a sample, every time is rounded; refinement of `SlidingWindow` |
| `program` | files with up to two buffers of three frames, and behind or in front of them other chunks; headers that give nothing, too little and the most; sizes on either side of where an int ends, which is at 48 for 2^31 (`Half`), in files and behind them (`Leftovers`); two interrupts on any threads; no agent, or one | a walk that runs past the file's end or stops in front of the data, handlers that overlap the pop of their callback, an agent asleep, a worker asleep over the close of its channel |
| `messages` | a detector before the recorder, behind it, or none; snapshots of one row, hours of two, three rows, so that a snapshot is sent and another at the end of the stream: the lines of a snapshot and of a meteor belong to different hours; a stream without a row; two of the three fields, two meteors that may come in one period, one death of the process | logs with one header each, lines that are fresh, meteors logged before they are announced, MIDI messages that leave |
| `files` | bins of 2, 2.5, 1.5 and 2.4 Hz, an even or odd number of them, rows of 2.5 to 4 a second, every band in whole Hz in either order, snapshots of two rows, an error in any call of the library | files whole or an error logged; columns at their frequency; no read outside the row |
| `channel_close` | as `channel` | finding: `close()` can be missed, and `stop()` never returns |

Deadlock is not checked where the system stops: when all sends are made and the
worker has been joined, when a stream has ended, when the rows are used up. It is
checked in `ring`, whose reservations can always be taken or given back.

Fairness. `FairChannelSpec`, `FairRecorderSpec` and `FairBolidSpec` assume weak fairness of the
worker and of what a thread has begun (a `close()` or a `stop()` in progress, a row
being filled): threads are scheduled by the operating system and none of these
steps needs another thread to hold back. Nothing is assumed of the input or of
senders, and a condition variable need not wake anybody unasked.
`SnapshotsGetReleased` is stated for a stream that does not lap the buffer: after
a lap `size()` may take a complete snapshot for an incomplete one. `MeteorsGetReleased`
excepts a stream that stops short of the snapshot's last row: such a snapshot is
lost (`NothingPutBackIsLost`, below).
`FairAppSpec` assumes that the main thread, a handler once it runs, and the agents' threads are
scheduled; no signal need come. That a thread is scheduled does not make a `join()` return:
`endStream()` waits for the worker, and `JoinWorker` is never enabled when the worker has slept
over the close of its channel (`asleep`, any value when the channel is closed; the run `channel_close`
shows how it comes to that) or is itself in a handler that waits. `FairMessageSpec` assumes that the
worker is scheduled and that JACK goes on calling the callback until the stream ends, which is what
empties the MIDI queue. No stream need end.

What `program` does not promise. A program that reads a file should read it and exit (`README.md:74-76`
of the repository). `ProgramEnds` names all the reasons why it may not: an interrupt in a program with
agents; the worker asleep over the close, `endStream()` waiting for it; and, behind the end of the
file, an uninitialised size of 2^32 - 4, which counts 0 and never brings the walk to an end. The
order of frames and the end of the stream are promised for any file (`FileComesFirst`), that
all frames come for files that can be walked through (`Walkable`): the header gives no less than there
is, and no subchunk in front of the data has 2^31 - 4 bytes or more, which as an int are less
than nothing and end the walk.

What `jack` does not promise. `OrderlyUnlessOverlapped` has its hypothesis because
`nextSnapshot_` has no owner: when `stop()` runs under a callback, or two `stop()`s run
together, one snapshot can be sent twice, its reservation freed twice, or a
snapshot of no rows be written. `UndefinedOnlyByBoth` says when `workerThread_` is used after
it has been deleted: when the server shuts down and a signal then asks `run()` to stop.
Rows pushed after the end are lost with the snapshots they are in (`OnlyLateRowsAreLost`).
In the model undefined behaviour ends the behaviour.

What `files` asks of a configuration. `ReadsInsideRow` has `BandsFit` for its hypothesis, and
nothing in the code checks it: half of what is averaged must fit between the detection band and
the ends of the spectrum; below it, if the number of bins is odd, with a quarter of a bin to spare
(0 Hz is then in the middle of a bin, and a range measured from it comes out a bin longer); and the
noise band must be wider than a bin. Two frequencies that are exactly a bin apart are in the same
bin at the upper end of the spectrum, and `noise()` then takes the first of no values
(BolidRecorder.cpp:318).

Properties known to fail, and defined without a run of their own:

* `StampIsFirstRow`: the time stored with a row is stored under the mark behind it, so a
  file's CRVAL2 is the time of the row before its first (WaterfallBackend.cpp:507).
* `NothingPutBackIsLost`: a snapshot put back after `drain()` has returned false is never
  written, which happens to a meteor whose last rows the stream did not reach.
* `RawMarkIsFirstSample`: the raw mark handed over with a row is not the place of its first
  sample, once a batch fills more than one window.
* `OnlyTheFile`: the walk counts a subchunk as its size and 4 bytes though its header has 8,
  goes on behind the last one, and hands over samples that are not in the file.
* `InterruptEnds`: the program does not end on an interrupt when an agent waits for a
  message: `stop()` only sets a flag, nobody sends, and `join()` waits for ever.
* `NoLineTorn`: the noise, frequency and magnitude of a line may be those of different rows.
* `NoLineUnset`: a line may be of memory nobody has written. No constructor sets the fields
  (WaterfallBackend.h:176-209), `make()` always listens, and where nobody sends a noise message the
  worker logs what it finds: in both pipelines of `Ionozor.json`, which have no detector, for every
  snapshot, and in any pipeline for the snapshot `stop()` sends of a stream without a row.
  `LineIsFresh` says that it is so nowhere else.
* MIDI messages still in the queue when the stream ends are never sent; `MidiMessagesLeave` excepts
  them by name.
* `LinesInTheirHour`: a line may get into the log of an hour another thread was asking for,
  as the C library keeps one `struct tm`.
* `RawIsExact`: `fftSamplesToRaw()` divides by an FFT rate made an integer, so that at
  96 kHz with the windows of `Bolidozor.json` (5.86 rows a second, cut to 5) a raw file is a sixth
  longer than its snapshot. With less than one row a second, as in the first backend of
  `Ionozor.json`, it divides by zero: the models assume a row a second (`ConfigAssumption`).
* `FilesComplete`: a stream that ends before its first row makes `stop()` write rows
  that were never pushed, as `size()` takes no rows for all of them.
  `CleanFilesExact` leaves that stream out.
* `FilesNotOverwritten`: nothing asks `isDirty()`, and a worker that is a lap behind writes
  rows of the next cycle. `CleanFilesExact` says what asking would achieve.
* `DirtyMeansWritten`: `Reservation::init()` stores 0 for the end it is given, so rows
  after a reservation make it dirty too. `OverwriteFlagged` is the direction that holds.
* `NoRowTorn`: the last row of a meteor may be read while it is filled, when the pause
  that ended the meteor was no longer than the advance. `MeteorFilesExact` allows that row
  and no other.
* `FramesKept`: a read that ends inside a sample drops its first bytes, and the next batch
  begins inside a sample.
* `PhaseShiftDelaysQ`: with a phase shift of one or more, the correction reads its delay
  line in front of the array at the start of a stream, and leaves samples out of its
  third section. Every configuration in the repository has a shift of 0.

## The proofs

All are for every value of the constants and every behaviour, by an inductive
invariant. The properties that follow from it are those TLC checks in the runs.

* **RingBuffer2D.** `RingIInv` adds to the four properties that the head's index is
  the number of pushes modulo the capacity, that its chunk and item are where that
  index is stored, that `slot` is that of the latest row, and that a reservation
  records its start. Without the first, `WindowCorrect` is not preserved by a push;
  without the last, `OverwriteFlagged` is not. The arithmetic (that rows less than a lap apart are
  stored apart, that a chunk and an item determine an index) comes first in the
  module, from two facts about quotient and remainder that Z3 knows.
  Assumed: row size, chunk size and capacity are at least one (`RingSizes`).
  Theorems: `RingTypeCorrect`, `WindowIsCorrect`, `HandlesAreOwned`,
  `OverwriteIsFlagged`, and `CapacityCovers` about the chunk metrics.
* **SnapshotRecorder.** `RecorderIInv` contains `RingIInv`: each step of the recorder is one of
  the ring buffer or leaves it alone. It adds where the next snapshot is behind the mark
  (`Position`), without which `size(start, mark)` could wrap or give a whole lap; that the
  snapshots outstanding and released tile the rows (`Tiles`); that the rows of an outstanding
  snapshot have been pushed and are not being filled (`SnapshotsInTime`); that the table of times holds
  the last lap (`TimesStored`); and that the file being written holds its rows as long as the first
  has not been lapped (`FileInStep`), which the ring buffer's `WindowCorrect` gives row by
  row. A lapped first row means a dirty reservation, by `OverwriteFlagged`, hence
  `CleanFilesExact`. Steps move a snapshot between queue, batch and hand: they leave the
  sequence `Outstanding` alone, rearrange it, add in front or take off the end, and the
  lemmas on each part are about these four. Assumed: a snapshot has a row and the buffer has
  room for eight (`RecorderSizes`; WaterfallBackend.cpp:343, requestBufferSize()). Nothing is assumed
  of the worker's speed. Theorems: `RecorderTypeCorrect`,
  `ReservationsAlwaysMatch`, `SnapshotsAlwaysTile`, `CleanFilesAreExact`.
* **Channel.** `ChannelIInv` adds that the mutex is held exactly where `drain()`
  holds it, that what was sent is what was drained and what is in the buffer,
  and where `close()` finds the worker. Theorems: `ChannelTypeCorrect`,
  `NeverSleepsOverMessages`, `DrainedWhenClosed`, and `ChannelIsQueue`, the
  refinement of `MessageQueue`.
* **BolidDetector.** `DetectorIInv` says what the counters mean: while a bolid
  lasts, length and duration together reach to the latest row; once it pauses,
  duration is the silence since, less than `Gap`; and each snapshot sent was sent
  `Gap` rows after its meteor's last. Theorems: `DetectorTypeCorrect`,
  `SentComplete`, and `DetectorIsMeteorDetection`, the refinement
  of `MeteorDetection`. `HistoryIInv` is about the detections of the whole stream: they
  fall into groups more than `Gap` apart, those that are over were sent, and the one
  being observed reaches to within `Gap` of the latest row (`Groups`). A row begins a
  group, joins the open one, leaves it or ends it, a lemma each; then `AloneReported`, that
  no stretch of detections with silence around it can begin or end inside a group, makes
  it `AllMeteorsAreSent`. The last theorem, `HoldsOneMeteor`, is about what a snapshot holds of the
  detections: as meteors are more than `Gap` apart and a snapshot reaches no further than the advance
  beyond its own, it holds no other's. Assumed: advance and jitter are not negative
  (BolidRecorder.cpp:97-98), a snapshot has a row (WaterfallBackend.cpp:343).

* **BolidRecorder.** The recorder's steps are the detector's or leave it alone, so
  `DetectorIInv` holds of it through an instance of `BolidDetector_proofs`; it says where a
  meteor's snapshot ends when the meteor is over (`MeteorEnds`): `Advance + 1 - Gap`
  rows past the mark. `RingIInv` does not hold here: a long
  meteor's first row may have been lapped when it is reserved, and `OverwriteFlagged` with it.
  `RingSound` keeps what does, and `RowsStored` says of each place which row it
  holds, for rows before the stream too. A snapshot stays sound (it begins before the mark, and
  has its rows if `Gap` is longer than the advance) wherever it is (`PlacesSound`); one the worker has
  chosen has its rows or is lapped (`CurrentComplete`), as `size()` is exact up to a lap; so the row
  being filled can only be its last (`RowReadExact`). Theorem: `MeteorFilesAreExact`. Assumed:
  what is assumed of the two parts (`RecorderSizes`, `BolidParameters`).

* **RawStream and FFTBackend.** `CountIInv` says that the first sample not in the window
  is the one `filled` samples after the beginning of the next row; it gives
  `NoRowEverWaits` for any phase shift. `WindowHolds` adds that what is in the window is
  the beginning of the next row, which is what moving the overlap down must keep;
  it gives `RowsAreSlidingWindows`, the refinement of `SlidingWindow`, for a phase
  shift of 0 (the theorem's hypothesis; the correction is then the identity). `TimesIInv` says that
  the handles beside the window are near the times of its samples, and that the time of the
  batch has been rounded once for each window it has filled (`BatchInTime`), which are few, as
  after the first each takes a hop of samples (`FewWindows`); the next batch begins at a time
  worked out afresh. With `UsOfSum`, that rounding two parts loses at most a microsecond against
  rounding the whole, it gives `RowTimesStayClose`. Assumed: sizes and rates are at least one.

* **MessageDispatch and CsvLog.** `MessageIInv` adds that one thread at most is inside
  the log's mutex, and is where the code's order puts it; that a file without a line is the
  one that thread is heading, or one the process died on; that with a detector the fields stored are
  never of a row before the one handled last, which is not before the last row of any snapshot
  sent, the one `stop()` sends included, and without one, or before the first row, are what was in
  memory (`LatestStored`, `NoneStored`, `ValuesFresh`); and that a meteor's line is written, to whichever file, before its message is
  sent. Theorems: `MessageTypeCorrect`, `LogFilesAreLogs`, `LinesAreFresh`,
  `AnnouncedAreLogged`, for any hours, fields, lines and number of restarts, with a detector in either
  place or none. Assumed:
  `MessageAssumption`, that the bounds are numbers, a snapshot has a row, and input and worker log.

* **JackFrontend.** `JackIInv` is two invariants. `LifeInStep`, of who has come to end the
  stream and who may have deleted the worker, is inductive on its own and gives
  `UndefinedNeedsBoth` for every behaviour. `Undisturbed` holds as long as nothing has
  overlapped: then one thread at a time is in `startWriting()` (`OneUser`), so its three steps
  do to the line of snapshots what the recorder's single ones do, and the lemmas of
  `SnapshotRecorder_proofs` about adding, moving and taking off (`Owns`, `Tiled`) are used
  as they stand for any of the three threads; `JackPosition` is the recorder's `Position` until
  the stream is ended, and weaker afterwards, when a `stop()` with nothing to write makes a snapshot
  all the same and the next may begin past the mark. `EarlyInTime` and `LateLeft` say that a
  snapshot cut before the end has its rows and leaves the channel before the worker does.
  Theorems: `OrderlyUntilOverlapped`, `OnlyLateRowsLeft`, `UndefinedNeedsBoth`, for every size
  of buffer and snapshot and any number of pushes (`RecorderSizes`). The second was false at
  first: the snapshot a `stop()` makes before any row has been pushed ends beyond the mark,
  for snapshots of two rows or more, and `endedAt` was taken from it. The history variable
  now records where the rows cut so far end (`CutAt`); the run, whose snapshots have one row,
  could not show the difference.

* **WAVStream and Application.** `WAVIInv` says of each place in `run()` what has been read and
  delivered. `StreamInStep`: a stream is open from the first data on until `run()` ends it.
  `WalkInStep`: where in the file the walk is, that the bytes still to be counted are at least
  those of the subchunks not yet reached (which is why counting a header as 4 bytes for its 8 makes
  the walk go too far and not stop short, as long as the count fits an int). `FramesInStep`: what has been delivered is the file's
  frames as far as they have been read, and once they have been, all of them, with whatever reads
  behind the end add. `AppIInv` adds what `onRun()` has still to call (`CallsInStep`: no callback
  goes before `run()` has returned) and whose handlers there are (`HandlersInStep`: the worker is in one
  only while the stream is open, which `endStream()`'s join closes off). Theorems:
  `AppTypeCorrect`, `FileAlwaysComesFirst`, `CallbacksOutlive`, for any such files, any header and sizes,
  any buffer, any agents and any number of signals. Sizes are made ints as the code makes them
  (`ToInt`), for any `Half` above 4, 2^31 among them; the hypothesis `Walkable` of the part of
  `FileComesFirst` that all frames have come is what an int can count. Assumed: `WAVAssumption`, that a
  file is a sequence of subchunks with one of data at most and no text of 2 GB, and the buffer
  has a frame; `AppAssumption`, that threads
  have different names.

* **SnapshotFile.** `FileIInv` says what is in the image at each place of `write()` and
  `writeRaw()` (`ImageInStep`: rows in order from the first, as many as there have been while
  the status is 0, and an error is in the status or has been logged) and that what `update()` reads it
  reads around a peak in the detection band (`ReadsInStep`). The rest is arithmetic, about
  two nested quotients in each case: a bin is within a bin of its frequency, also where
  `frequencyToBin()` cuts it off at the last one (`BinHolds`); what is averaged is no wider than
  what was asked for but for the half bin above (`AverageAtMost`), so it has room on both sides
  of every peak (`RoomToAverage`); the rows' samples lie between what `FFTBackend` made them
  from and what the buffer holds (`SamplesBetween`). Theorems: `FilesAreWhole`,
  `ColumnsAreNamed`, `ReadsStayInside`, for every even sample rate, number of bins, overlap, band
  and length of snapshot. Assumed: `ConfigAssumption`, that frequencies are within the
  spectrum and a row has no more samples than a second. `ReadsInsideRow` was false at first, for an odd
  number of bins and for a noise band of exactly one, neither of which the run had; `BandsFit`
  now says so, and the run has an odd number.

Two things `BolidDetector` makes plain and the configuration's comments do not
say. A jitter of less than two rows acts as two (`Gap`). And a snapshot is complete
when it is sent only if the pause is longer than the advance (`CompleteWhenSent`);
with `advance_time` 5 and `jitter_time` 2, as in `Bolidozor.json`, it is not, and the
worker gets it before its rows are there.

Every property of a run that passes is stated by a theorem, but for liveness.
Only model-checked: liveness (`MessagesGetDrained`, `SnapshotsGetReleased`,
`MeteorsGetReleased`, `ProgramEnds`, `InterruptReachesFrontend`, `MidiMessagesLeave`). Liveness
and `ENABLED` are outside what the prover does. So is induction in the library's form, whose
theorems take a predicate; where a proof needs it (the bytes of the first subchunks, the highest of
a row's bins) it is made over a set, from the library's theorem that a well-founded
relation has minimal elements (`LeastNatural`, `InductionOnSet`).

## The plan

Done: the ring buffer, the channel, continuous recording, the meteor detector and its
recorder, the FFT's window, the raw stream and the WAV file, a stream from JACK and how it
ends, MIDI, messages and the log, the files, and the program with its signals. Left:

1. `WaterfallBackend` with several recorders' reservations on one buffer and one mutex.
2. The connection of `RawTCPStream`, and `resize()` of the one-dimensional `RingBuffer` with
   items in it, which nothing in the program does.

Not modelled, and not planned: the FFT and the arithmetic of noise and peaks (floating
point; a row's detection is a Boolean), configuration, logging and formatting,
`MessageQueueListener` and `DynMessageListener`, which nothing uses, `Frontend::sendMessage()`, which
nobody calls, `HeartBeatMessage`, which nobody sends, so that one thread alone ever takes the MIDI
mutex, and the option `threshold`, which the detector does not look at
(BolidRecorder.cpp:135). The channel of the agents and the opening of a log belong to cppapp, a
submodule that is not in the repository: the channel is modelled from its use and marked external,
a log that cannot be opened is left out, and so are listeners added while a message is being
sent, which the program's order of start excludes. A WAV file has a format of 16 bytes, two channels of 16
bits, even sizes, one data subchunk and no text of 2 GB or more (whose length no longer fits the int
`readString()` takes); what `run()` refuses is refused. The scripts and the test
client are not modelled.

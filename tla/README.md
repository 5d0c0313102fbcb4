# ReaShoot in TLA+

ReaShoot is a REAPER extension that films with an iPhone while REAPER records,
downloads the movie and puts it on a track. This directory holds TLA+ models of
the parts of it in which order, failure and concurrency matter, TLC
configurations that check them on small instances, and TLAPS proofs of the most
important results.

Paths below are relative to the repository's root.

## 1. The system

| Part | State it keeps | Operations | Talks to |
|---|---|---|---|
| **Capture engine and recording store** (`iphone/Sources/ReaShootKit/CaptureRecordingEngine.swift`, `RecordingStore.swift`, commands dispatched by `ReaShootService.swift`) | camera session, active recording id and look, one stop continuation, the list of recordings, the files of the directory | configure, start, stop, finish (delegate), prepare (export of a look), acknowledge, delete, reload at launch | answers control commands; its files are served over HTTP |
| **File server** (`HTTPRecordingServer.swift`) | one connection | answers a byte range of a listed recording's file | the helper's downloader |
| **Helper** (`src/helper/*.cpp`; one process per command) | temporary file, destination, attempt counter | prepare, download in chunks, retry, verify, acknowledge | the phone's two servers; its exit code and output go to the extension |
| **REAPER extension, macOS** (`src/reashoot.mm`) | transport flags, the project and position of the current take, one stop completion, one pending insertion, one pending alignment | timer poll, video and follow toggles, start/stop, prompt, download/delete, restore, insertion, alignment | REAPER's API on the main thread; helper processes |
| **REAPER extension, Windows** (`src/platform/win32/reaper_reashoot_win32.cpp`) | the same with other flags, a queue of callbacks, message boxes | the same, helpers side by side | the same |
| **Preview on Windows** (the preview commands of the extension, `win32_preview_stream_client.cpp`) | panel mode, flags of the stream and of the commands, receive thread | configure, start, stop, receive, lose, dock, pair | helpers, the phone's stream, the renderer |
| **Preview renderers** (`win32_h264_preview_renderer.cpp`) | queue or slot of units, decoder, key-frame waiting | take in, decode, reset, destroy | the stream's thread, the panel |
| **Playback preview** (`ffmpeg_playback_preview.cpp`) | one pending request, worker, decoder position | show, hide, open, seek, decode, emit | REAPER's timer, the panel |
| **Setup window and settings** (`swell_panel_probe.cpp`, parts of the extension) | four copies of host, profile and token | type, pick, discover, pair, reconnect, close, restart | helpers, REAPER's saved settings |
| **Helper process** (`win32_helper_process.cpp`, `control_client.cpp`, `reashoot_mac.cpp`) | pipe, process and thread handles, exit code | create, read, wait, terminate; connect, send, receive, ping | the extension, the phone |
| **Discovery** (`src/helper/discovery.cpp`) | services and addresses heard | read packets, list | the network |
| **Control protocol and text** (`LocalWebSocketServer.swift`, `control_protocol.cpp`, `json_value.cpp`, `remote_camera.cpp`, `helper_output_parser.cpp`) | one connection per command | frames, JSON, arguments | - |
| **Algorithms** (`checksum.cpp`, `h264_annex_b.cpp`, `alignment_math.cpp`) | none | hash, scan, correlate | - |
| Preview on the phone and on macOS, pairing on the phone, window drawing, app UI, Swift command line twin | system library handles | - | - |

What is hard in it:

* *Interleaving at `await`.* The engine is a main actor, but it awaits the hash
  of a finished movie, the export of a look and the camera's delegate; other
  commands run in between and change what was read before.
* *Single slots.* One stop continuation, one active id, one stop completion, one
  pending insertion, one pending alignment, one "recording project".
* *Failure and restart.* Exports fail, connections are cut, helpers are killed,
  the app is killed between two file operations and rebuilds its list from file
  names.
* *Acknowledge, then delete.* The phone deletes its copy when the helper says
  so; the helper must not say so too early.
* *Modal prompts, lost answers, slow answers.*
* *Message boxes that run the timer.* On Windows a question inside a callback
  runs the next batch of callbacks before the rest of its own.
* *Threads that only post.* The notices of a stream, a decoder or a helper are
  handled later, when the main thread may have gone on to the next one.
* *Copies.* A setting lives in a field, the panel, the extension and a file.

What makes each part correct: footage is never lost before it was downloaded or
deleted on request; what is listed is what is served; every command is answered
and answered for its own take; a transfer is acknowledged only when an intact
movie is on the disk; a download ends; a take is inserted once, at its own
position and in its own project; the phone stops filming when REAPER leaves
record; the extension becomes ready for the next take; one owner paints the
preview and it comes back; a decoder gets what it can decode; what is shown or
typed is what a command uses; what one side writes the other reads.

## 2. The modules

| Module | What it is | Checked by | Proved in |
|---|---|---|---|
| `PhoneRecorder` | the capture engine and the store | `MCPhoneRecorder` | `PhoneRecorderProofs` |
| `TakeTransfer` | abstract: what a transfer promises | as property of `Downloader` | `DownloaderProofs` |
| `Downloader` | the helper's downloader with the phone's file server | `MCDownloader` | `DownloaderProofs` |
| `TransportFollow` | the macOS extension's handling of takes, with the phone and the helpers as far as it depends on them | `MCTransportFollow` | `TransportFollowProofs` |
| `WinFollow` | the same of the Windows extension | `MCWinFollow` | `WinFollowProofs` |
| `WinPreview` | live preview and playback preview of the Windows extension | `MCWinPreview` | `WinPreviewProofs` |
| `DecoderFeed` | abstract: what a decoder needs | as property of `H264Renderer` | `DisplayProofs` |
| `H264Renderer` | the two Windows preview renderers | `MCDisplay` | `DisplayProofs` |
| `PlaybackPreview` | the preview of a take during playback | `MCDisplay` | `DisplayProofs` |
| `SetupPanel` | host, profile and token in their four places | `MCDisplay` | `DisplayProofs` |
| `HelperChannel` | a helper process from its pipe to the phone and back | `MCHelper` | `HelperProofs` |
| `Discovery` | the multicast DNS client | `MCHelper` | `DiscoveryProofs` |
| `CommandWire` | arguments, commands and recordings on the wire; the uses of `Encodings` | `MCHelper` | `HelperProofs` |
| `Encodings` | blocks of SHA-256 and SHA-1, base64, frame lengths, quoting of arguments | through `CommandWire` and `Codecs` | `HelperProofs` |
| `Codecs` | calls base64 and the algorithms of the next three | `MCHelper` | |
| `JsonText` | JSON reader and writer | through `Codecs` | |
| `H264Syntax` | Annex B, emulation prevention, size in a parameter set | through `Codecs` | |
| `Alignment` | smoothing, peaks, correlation, search of the alignment | through `Codecs` | |

### PhoneRecorder

A take is a model value that stands for the footage; files map names to
contents. A name is the raw name `id.mov` of a take or the rendered name
`id-look.mov`. One action per piece of code between two suspension points:

* `StartRecording`, `StopRecording`: the commands. The stop stores its
  continuation in `camera`'s single slot.
* `CameraFinishes`, `CameraFails` (external): the movie output closes its file.
* `FinishBegins`, `FinishWithError`, `FinishStores`: the delegate's task, cut at
  the await of the hash. `FinishStores` reads the active id *then*, as the code
  does.
* `PrepareBegins`, `ExportEnds`, `ExportResumes`, `PrepareStores`:
  `prepareRecordingForDownload`, cut at the await of the export and of the hash.
* `TransferComplete`, `DeleteRecording`: file first, list second; the removal
  may fail.
* `Restart`: the app is killed at any time; files stay, the list is rebuilt.

The constant `Overlap` says which commands may overlap with one of their own
kind: `"stop"`, `"start"` (a start while the last take is still being hashed),
`"prepare"`. The passing run has overlapping stops only; the violated ones show why
the others must be excluded. Of two stops the first is never answered, since the
second overwrites its continuation: `StopIsAnswered` is about the one in the slot.

Left out: `isRecording` and the capture status as published to the app's views,
`listRecordings` and `ping` (they only read), capture formats. Recording ids are
unique: they hold a session id and a time stamp of one-second resolution, and
two takes within one second are not modelled.
The read of the file for the hash is merged with the resumption after it.

### TakeTransfer and Downloader

`TakeTransfer` promises that the computer gets an intact copy before the phone
is told so, and that it stays. `Downloader` follows
`src/helper/downloader.cpp`: the check of an existing destination, the resume at
the temporary file's length, the loop of ranged requests, up to `MaxAttempts`
failures in a row, the rename, the checksum, the acknowledgement, and the kill
of the helper by the cancel button. A movie is a sequence of blocks tagged with
the version of the file they come from (the phone may render again), a block
stands for 32 MB (`kChunkBytes`) or what a cut connection delivered. Files open
on the phone keep their content after removal (POSIX). The refinement mapping is
`Promise`, the abstract specification is the property `PromiseKept`. A connection
that is closed in order before all bytes came (`ClosesEarly`), perhaps before the
first, counts as a success and resets the attempts (`downloader.cpp:131`): a phone
that does so again and again keeps the helper busy for ever, and `DownloadEnds`
says that nothing else can.

`MCDownloader` has two downloads, each with variables of its own: one of a recording
that stays as it is, whose checksum the phone does not know, and one of a recording
that is rendered again meanwhile (`MixtureIsNotAcknowledged`).

### TransportFollow

All of the extension's code runs on REAPER's main thread, so one action is one
tick of `timerPoll`, one command of the user or one completion block; the
helper processes and the phone run beside it. Positions are identified by the
clip whose filming started there; edit cursors by their project. The prompt is
modal: the main queue waits, the timer does not.

Two constants name assumptions. `Patient`: the user gives no command and does
not switch following while a take is being dealt with; the safety run needs it.
`Reliable`: the phone's answers arrive in time; only the liveness run needs it. A
helper may die at any point, also when the phone has deleted its copy and the path
is not yet reported. `told` collects films the user got an error about:
`FilmIsKnown` says that what the phone films is known to the extension or to the
user, so a lost answer to start, or a stop that fails, shows up there.

Left out: the preview work in `timerPoll`, the cleanup at unload, projects being
closed (then `g_recordProject` dangles); quick stop-and-start between two polls
merges two takes in the code as in the model. The one-second spacing of
alignment attempts is nondeterminism. Restore's list and choice are one step.

### WinFollow

The Windows twin of `TransportFollow`, which differs in what matters: it clears
its active flag before the stop is answered, starts helpers side by side, and asks
in message boxes. `ticks` is the stack of running `timerPoll` calls, each with the
rest of the batch of callbacks it took from the queue; while the innermost shows a
box the timer may start another. One action is one callback (`RunCallback`), one
answer (`Answer*`), the insertion, the poll, one command of the user, or the end of
a helper with or without its effect.

The place of a take is not kept with it: `recordPlace` stands for
`g_recordProject` and `g_recordStartPosition`, which the next `BeginRecording`
overwrites and which are read when the question about the take is answered
(`reaper_reashoot_win32.cpp:1453`); only the download carries a copy.
`BeginRecording` does nothing without a pairing (1409), and `Pairing` changes
`paired` at any time. A download whose answer fails is recovered when the file on
disk has the announced size (`Recovered`). `told` collects films the user got an
error about, `steady` what a pass that has begun may count on.

Three constants name assumptions about the user, from weak to strong: `Unhurried`,
the timer ticks between two acts; `OneDownload`, a download is asked for only when
none is under way; `Patient`, nothing is begun while work is in hand and record is
left only when the start was answered. `MCWinFollow` composes a patient user with
two who are not (see the bounds).

### WinPreview

The panel has three modes and one owner (`playbackOwnsPreview`, here `Owns`).
The main thread launches commands and handles messages in batches, like in
`WinFollow`; the receive thread is `thread`, `running` is the flag both share.
Stopping joins the thread: `joins` says what the main thread does afterwards and
blocks everything else of it. Pending messages of one kind are bounded where the
code would only repeat them (frames). Left out: the text of the HTTP handshake,
positions and rotation of the picture, status lines other than whether they
report trouble (`told`, `picture`).

A stream may end without a notice, and two history variables say so. `closed`: the
server closed it in good order, upon which `receiveLoop` returns without `onError`
(`win32_preview_stream_client.cpp:202-205`); the flags stay set over no stream. The
phone's own server never does that, it cancels its connections. `missed`: the
notice came while REAPER played with the panel on live video, and was dropped
(`reaper_reashoot_win32.cpp:783`). `FlagsFollowStream` names the first,
`LiveReturns` excuses both; `LiveRestarted` excuses only the first and is violated
(`WinPreviewMissed.cfg`).

`Patient`: the user acts when no preview command is at work, and asks for a
profile or a pairing when no stream is starting. The second half is needed: such
a command that fails while the stream opens shows its message box with the
stream's "active" notice behind it in the interrupted batch. If the stream is
lost meanwhile, the box's timer handles "lost" first, and the "active" that
follows marks a dead stream (`reaper_reashoot_win32.cpp:243-247`, `759-769`). It
takes two failures and came out when the proof of `FlagsTell` was attempted with
any number of them.

### H264Renderer and DecoderFeed, PlaybackPreview, SetupPanel

`DecoderFeed` promises a decoder its units in order, a key frame first and, for
FFmpeg, no delta whose predecessor was dropped; `H264Renderer` implements it
(`FeedIsDecodable`). The Media Foundation renderer keeps one unit, which a newer
one replaces, so its feed is not exact: the code accepts that. Any decoder may fail
to open, or lose a unit it was given (no packet, `EAGAIN`,
`win32_h264_preview_renderer.cpp:866-869`; a Media Foundation decoder that does not
open, 1238-1242, after waiting for a key frame has ended). A unit lost there spoils
the feed (`spoilt`): deltas are fed until the next key frame, which the promise
names as the one exception.

`PlaybackPreview` counts time in frames. `Decode` is the loop of
`av_read_frame` / `avcodec_receive_frame`: the decoder is frame-threaded and
holds `Delay` frames back.

`SetupPanel` follows host, profile and token through `captureSetupFields`,
`readPanelSettings`, `updatePanel`, `setPanelStatus` and `persistSettings`,
which are called in a different order by each command. `CommandGoesToShownHost` is
about the commands of that window: Pair, Reconnect, profile and look. Start-preview
(857), stop-preview (669), delete (892) and download (915) use the extension's copy
without reading the field, and are in `WinPreview` and `WinFollow`.

`MCDisplay` composes the three as alternatives (`which`): they share no state.

### HelperChannel, Discovery, CommandWire, Codecs

`HelperChannel` has the thread of `runProcess`, the process and the phone of
each command. Two things it shows without an invariant about them: the write end
of a pipe is inherited by every process created while it is open
(`win32_helper_process.cpp:183-213`), so a command may wait for another's helper
(`CompletesAlone` does not hold, `CommandCompletes` does); and a cancel before
the handle is published does nothing (119-127). At unload the threads are
detached, which is left out.

`Discovery` writes packets with names compressed or not, cut short, repeated and
in any order, and reads them as the code does. What `readName` makes of every
cell is a table per number of jumps left (`Readings`): the labels up to the end of
the name, or up to a pointer and then what the table with one jump less has
there. `parseRecords` takes as many records as the header promises or as are
complete (`Parsed`), and each is handed to `Take` (`Learnt`).

`CommandWire` and `Codecs` use each algorithm with one input, an action for each
caller; beside each algorithm stands the standard's definition or the other side
of the exchange. `ArrivesAsMeant` is about what can be proved: the helper's
runtime splits the command line into the arguments it was made of, the blocks of
a hash are the padded file however it was read, a frame is read with the length
it was sent with, and the phone is told what the settings mean: every flag of
`capture_profile.cpp`, with the zoom factor as `atof` reads it. The loops of that
code are functions over the number of rounds (`Quoted`, `CommandLines`, `Moved`,
`Updated`), so that they can be reasoned about. `AgreesWithReference` compares
the others, which need recursive operators: base64, JSON, H.264 and alignment.

`JsonText` has one reader with two degrees of strictness: the helper's own, and the
phone's `JSONDecoder`. What the helper writes the phone reads back, to the digits
written; but a string with a raw control character, which the writer leaves as it is
(`json_value.cpp:371-373`), makes the phone refuse the whole text, and
`AgreesWithReference` says that exactly those texts are refused. Numbers are digits
and an exponent, read as `strtod` does; one that is not whole is written with
`Precision` digits (15 in the code).

`Alignment` follows all three stages: the coarse search; a mean of the lags near the
best one, weighted by their scores (`reashoot.mm:848-866`); and the sample-accurate
one, which tries only lags at which its window, clipped at both ends, holds the whole
clip, and is accepted whatever its score (758). The clip is moved for a score of
0.15.

## 3. The runs

| Run | Result | What it shows |
|---|---|---|
| `PhoneRecorder.cfg` | passes | footage is kept; every take is listed; checksums are those of the served file; stops are answered for their take; stops and prepares are answered. `Overlap = {"stop"}`, kills and restarts, failing exports and removals |
| `PhonePrepareTwice.cfg` | violated | two prepares of one take lose the footage |
| `Download.cfg` | passes | one helper, kills and restarts, connections that break and close early: implements `TakeTransfer`, and its downloads end unless the phone closes early for ever; a file mixed from two renderings is not acknowledged |
| `FollowSafety.cfg` | passes | patient user, unreliable phone: takes are inserted, where they belong; the extension knows what is filmed or has told the user |
| `FollowLive.cfg` | passes | patient user, reliable phone: the phone stops filming, the extension recovers |
| `WinFollow.cfg` | passes | Windows, three users, unreliable phone: takes are inserted or the user was told, never at an earlier take's place; nothing is deleted unasked; a pass whose beginning the poll could see is filmed; with the patient user nothing is filmed unknown |
| `WinPunchIn.cfg` | violated | record entered from playback without a video under the cursor: the poll kept an old state and sees no edge (`reaper_reashoot_win32.cpp:1481`), and the pass is not filmed |
| `WinMisplaced.cfg` | violated | the next pass begins before the question about the last take is answered: the take goes to the place of the next (1453) |
| `WinPreview.cfg` | passes | patient user: the flags tell whether a stream runs, disabling ends it, no renderer is destroyed in use, one owner paints, the live preview comes back |
| `Display.cfg` | passes | decodable feed; the playback preview shows the latest request; a pairing is saved; commands go to the host shown |
| `PanelDiscover.cfg` | violated | Discover, then Pair: the host found is overwritten by the one known before |
| `Helper.cfg` | passes | success is real, commands complete; phones are listed as announced; arguments, hashed files, messages and commands arrive as they were meant; the algorithms agree with their definitions |

The four violated runs have entries under `findings` in `PROJECT.json`, with the
sentence of the documentation they contradict. More counterexamples can be
looked at by hand (`tlc -config X.cfg M`); they explain the assumptions and
bounds of the passing runs. Where a file names several properties, list one at a
time:

| Configuration | Module | What it shows |
|---|---|---|
| `PhoneEarlyStart.cfg` | `MCPhoneRecorder` | `TakeIsListed`: a start during the hash steals the earlier take's id (`CaptureRecordingEngine.swift:972`). `DeletedStaysDeleted`: a recording deleted while it is prepared is listed again (816) |
| `DownloadTwice.cfg` | `MCDownloader` | two helpers that download one take share a temporary file; one removes what the other acknowledged (`downloader.cpp:183`) |
| `FollowDropped.cfg` | `MCTransportFollow` | an impatient user's take is downloaded and not inserted (`reashoot.mm:1838`) |
| `FollowRestore.cfg` | `MCTransportFollow` | `RestoredIntoOpenProject`: restore uses one project's cursor in another (`reashoot.mm:1143`). `AlignmentIsTried`: an insertion displaces an item that waits for its alignment (1134) |
| `WinDisplaced.cfg` | `WinFollow` | two downloads of two takes side by side end in one batch: the second takes the one pending slot (`reaper_reashoot_win32.cpp:960`) and the first take is never inserted |
| `WinPreviewMissed.cfg` | `MCWinPreview` | the stream is lost while REAPER plays with no video to show: the notice is dropped (783), and nothing starts the preview again, although the comment of that callback (773-774) says that it is restarted when playback ends |
| `WinPreviewHasty.cfg` | `MCWinPreview` | a user who does not wait, three ways. `DisabledMeansStopped`: video disabled while start-preview is under way, its answer opens the stream (864-882). `FlagsFollowStream`: the first message's notice is handled after a stop and sets the active flag (759-769). `RendererOutlivesFeed`: the notice of a lost stream destroys the renderer of the next one, which its thread is using (771-789) |
| `PlaybackStuck.cfg` | `MCDisplay` | a last key frame so near the end that no frame comes out: later requests nearby neither seek nor get one (`ffmpeg_playback_preview.cpp:474-486`) |
| `HelperFrame.cfg` | `MCHelper` | an event of 65,536 bytes is announced as 0 bytes long (`LocalWebSocketServer.swift:199-205`) |

**What the passing runs assume.** Each assumption is a constant or a named history
variable, and the violated and hand-run configurations show what happens without:

| Run | Assumes |
|---|---|
| `PhoneRecorder.cfg` | no start while a take is being hashed, one prepare of a recording at a time |
| `Download.cfg` | one helper at a time for a recording |
| `FollowSafety.cfg` | `Patient` |
| `FollowLive.cfg` | `Patient` and `Reliable` |
| `WinFollow.cfg` | the timer ticks between two acts of the user; for two takes, one download at a time; `FilmIsOwned` for the patient user only |
| `WinPreview.cfg` | `Patient`; `LiveReturns` for streams that do not end in silence (`closed`, `missed`) |
| `Display.cfg` | `KeysFit` (key frames close enough, and none at the very end) |
| `Helper.cfg` | messages of at most 65,535 bytes |

**Bounds.** Two takes and two commands of a kind are enough for every overlap
above: each is between two actors over one slot (166,486 states on the phone). Two
looks, "natural" and another, let a take be rendered under two names: the code tells
only "natural" from the rest. Two blocks with two versions let a resumed download mix
contents; an attempt limit of 3, and of 2 with the second rendering (8 in the code),
lets it be reached and be reset; three files let both renderings have a temporary
file beside a finished download (185,645 states). Two projects and two clips let a
take go to the wrong one; two alignment attempts (15 in the code) let one fail and one
be the last (2,221,472 states for safety, 24,800 for liveness). Symmetry is used only
in runs without liveness properties.

On Windows, with two nested boxes: the patient user has two passes and two requests
(each a command about recordings, or a change of the video, the following or the
pairing); the overlapping one has two passes, of which the second begins, is filmed
and ends while the first is stopped, asked about or downloaded, so that each callback
is overtaken by one of the other take inside a box; the tidying one has one pass and
two commands about recordings beside it and each other, with any number of helpers
(2,036,530 states together). Four commands and two failures in `WinPreview` allow
enable, dock or profile, playback and disable with a broken stream and a failed
command between (352,536 states); pending commands are counted, so an overlap of two
start chains is expressible, and happens in `WinPreviewHasty.cfg`. The decode queue
holds 1 unit (90 in the code) and 5 units come, enough to overflow, wait for a key
frame and overflow again. A clip has 12 frames with a key frame in its middle; steps
back, ahead and the decoder's delay are smaller than the distance to it, as in the
code. Six acts on two hosts let each command follow each other with an answer in
between (display: 954,764 states). Two commands, one of which prepares, are enough for
one to inherit the other's pipe. In `Encodings` a block has 8 bytes of which the length
takes 2 (64 and 8), so the padding fits, fits exactly and spills; `MaxZeros` is 12
(31), scaling lists have 2 and 4 members (16 and 64). Files have up to 18 bytes, two
blocks and a little, and buffers up to 9; frame lengths are the values on both sides of
each limit (`Lengths`); arguments are all strings of up to three of the four kinds of
characters. JSON texts are all strings of up to four tokens, or of up to five
characters of a number; numbers are written with 2 digits. Sounds have 16 samples in
runs of two, so all three stages of the alignment have something to tell apart: they
step by 4, 2 and 1 samples, search 8, 4 and 2 to each side and read at most 8, 8 and 6
of the clip. `Helper.cfg` has 106,159 states.

**Fairness.** On the phone: every task that is ready runs (Swift's executor) and
the camera closes a file it was told to close; that it fails is never forced.
In the downloader: only that a running helper takes its next step
(`WF_vars(Step(h))`), since the sockets' time-outs (20 s) end every wait; that a byte
ever arrives is not assumed, and the phone and the user owe nothing. In the extension: the
timer fires, the main queue is served (`Complete`), helpers and phone answer or
time out. No fairness on the user; `FollowRecovers` therefore leaves out the
time a prompt is open. In `WinPreview` (`FairSpec`): the timer, each thread and
each helper go on and the user closes a message box; no command and no failure
is forced. In `HelperChannel` (`Fairness`): the thread of a command runs, and
every socket call of the helper has a time-out, so a helper that waits for the
phone ends though it may ping again and again (strong fairness of its end).

## 4. The proofs

`PhoneRecorderProofs`, for any sets of takes, looks and commands:

* `TypeCorrect`: `TypeOK` under every overlap (proved only, no run checks it).
* `FootageSafe`: `Overlap \subseteq {"stop"}` implies `[]FootageIsKept`.
* `StopsAreAnsweredRight`: the same for `StopAnswersItsTake`.
* `TakesStayListed`: the same for `TakeIsListed`.
* `SumsAreOfServedFiles`: the same for `SumIsOfServedFile`.

`FootageIsKept` is not inductive: whether a removal is harmless depends on what
the handler read before its export and on what was listed since. `IInv` adds
what each suspended handler still knows (`PrepareInv`: while one is between two
awaits, the original or the rendered file that it will list is there), that a
record serves a file of its own take, and the original as long as its look is
still to be rendered (`StoreInv`), and how the camera, its delegate's task and
the waiting stop fit together (`CameraInv`, `StopWaits`).

The list needs `ListedInv` besides: a take that is being prepared is still
listed, so the record that is to be replaced carries the take over the time when
neither of its files is what the record says; and a film that ended with an
error does not count as captured. The checksum needs `RelistInv`: after a restart
a take may be listed twice, as original and as rendered movie, and the removal of
one must not touch the file of the other while that has a checksum; it has none
then, and nothing is left to prepare. `WholeInv` says that what a prepare will
list, or what needs one, is never half a file, because `PrepareStores` hashes
whatever is there. The three were checked by TLC on `PhoneRecorder.cfg` before they
were proved. The proofs need that `None` is no record (`NoRecordAssumption`).

`DownloaderProofs`, for any length of the movie, chunk, limit and set of
helpers:

* `DownloaderTypes`: `TypeOK`.
* `SoleHelperKeepsPromise`: with helpers that run one after the other and a
  phone that serves what it announced, `Spec => Promise!Spec`.
* `AcknowledgedStays`: `[]AcknowledgedIsOnDisk` under the same assumptions.

* `ResumedFromABeginning`: with such helpers and a record that only serves the
  movie that was shot, `[]TemporaryIsPrefix`, whether or not the descriptor has a
  size or a checksum.

`PromiseInv` says where in the program each file may be what: no file has two
names and only the temporary one is open (`FilesInv`), a copy is made only while
there is none and acknowledged only when there is one (`StageInv`), and without a
checksum to rely on the temporary file is a beginning of the movie that is as
long as the helper believes, and any destination is the movie (`CopyInv`, of which
`BeginningInv` is inductive by itself). A rendering that replaces the movie during
the download breaks `BeginningInv`; then the checksum keeps the promise.

`TransportFollowProofs`, for any sets of clips, projects and helpers and any
retry limit:

* `FollowTypes`: `TypeOK`, whatever the user and the phone do.
* `TakesGoWhereRecorded`: `Patient` implies `[]InsertedWhereRecorded`.
* `TakesAreInserted`: `Patient` implies `[]DownloadedIsInserted`.
* `FilmKnown`: `Patient` implies `[]FilmIsKnown`, whatever answers are lost or late.

What an item's position and project have to do with each other is decided in
five callbacks over as many flags. `TakesInv` ties them together: at most one
flow (a stop, its prompt, its download or delete) is under way (`OneFlow`); it
is about the clip that the stop completion has captured (`FlowInv`), which is
the one recorded for `recordProject` at `recordAt` (`RemoteInv`,
`CompletionInv`); while the completion waits, `active` keeps the timer from
starting another take, and `Settled` says why the timer starts no second flow;
what waits to be inserted therefore still belongs to `recordProject`
(`InsertInv`). `FilmKnown` adds `StopInv`: when a stop has
succeeded the filming has ended. A start or a stop that fails is told.

`HelperProofs`, for any set of commands that run side by side:

* `HelperTypes`: `TypeOK`.
* `TerminateIsSafe`: the handle is open whenever a cancel may use it
  (`HandleIsLive`); `HandleInv` ties it to the place in `runProcess`.
* `SuccessCanBeTrusted`: `[]SuccessIsReal`. `ResultInv` follows the word of the
  phone: `expected` is sent only by one that has executed, a helper that was
  answered exits with 0, and the thread reads the code of a process that has
  exited.

`WinFollowProofs`, for any number of passes, requests and nested boxes:

* `WinFollowTypes`: `TypeOK`, any user.
* `NothingUnasked`: `Spec => OnlyAgreedDeletes`, any user. `AgreeInv` says that
  wherever a delete command is - at work, in the queue, in the rest of a batch on
  any level - it and those that follow it name films the user has agreed to, and
  that a question about recordings has one to ask about.
* `FilmOwned`: `Patient` implies `[]FilmIsOwned`. `HandInv`: of the commands about
  a take, the answers to them and the batches that still hold one, there is one
  in all (`OneInHand`), and a take whose start is under way is the active one
  (`StartsActive`).
* `WhereRecorded`: `[]InsertedWhereRecorded`, any user. `PlaceInv` follows the place
  from `recordPlace` through the answer, the question and the download to the one
  slot: wherever it is read, it is that of the film's own pass or of a later one that
  had begun by then.
* `DownloadsArrive`: `OneDownload` implies `[]DownloadedIsInserted`, any user
  otherwise. `ArriveInv`: all that is under way with a download carries one film, and
  what the phone has given up is on the disk.
* `FollowedIsFilmed`: `RecordingIsFilmed`, any user. `SteadyInv` says what the poll has
  seen when a pass may count on being followed.

`WinPreviewProofs`, for any number of commands, failures and nested boxes:

* `WinPreviewTypes` and `PlaybackKeepsPanel` (`PlaybackIsNotPaintedOver`), any
  user. The second needs only that the panel's mode and its owner agree.
* `FlagsTell` (`[]FlagsFollowStream`, which names the silent end `closed`) and
  `RendererIsKept` (`RendererOutlivesFeed`), for a `Patient` user. The lemma
  `DisabledStops` has `DisabledMeansStopped` for that user, who excludes its one
  hazard (`WinPreviewHasty.cfg`).

The difficulty is that a message can wait in the queue, in the batch that runs
and in batches interrupted by a box. As long as no box is open what waits is one
sequence (`Waiting`), in an order that a single stream allows (`Queued`: "active"
before "lost", neither before the answer that opened the stream). `OneCommand`
and `WaitInv` say that at most one command is in hand, and none while the main
thread joins the receive thread or shows a box; `StreamInv` what the flags, the
thread and the waiting notices tell about the stream; `OffInv` who tells the phone
to stop.

`DisplayProofs`, for any sets, capacities and bounds:

* `DisplayTypes`: `TypeOK` of the three components.
* `FeedCanBeDecoded`: `Spec => FeedIsDecodable`, that is, `H264Renderer` implements
  `DecoderFeed`. `RendererInv`: what waits is in order behind what was decoded
  (`InOrder`); with FFmpeg each unit is a key frame or follows the one before it,
  back to the one the worker had last, and the next to come will (`Linked`); a
  fresh decoder gets a key frame, a running one has had exactly what was taken
  last, unless the feed is `spoilt`, and none runs once a reset has withdrawn `ready_`
  (`DecoderKnown`). The Media Foundation renderer has a running decoder, or a spoilt
  feed, whenever it waits for no key frame. Every decoder may fail in every way the
  code provides for.
* `LatestIsShown`: `KeysFit` implies `[]ShowsLatestRequest`. `KeysFit` says that a
  time has a key frame less than `MaxPackets - Delay` packets before it (200 in the
  code), that no key frame is among the last `Delay`, and that reading on
  (`Ahead`, 22) takes no more packets than the limit; `PlaybackStuck.cfg` shows what
  happens without the second. `PlaybackInv`: after a decode the decoder returns the
  frame after the one it returned last and holds `Delay` back (`ReadsOn`); what was
  rendered last is on the view (`Rendered`); the latest request waits, is worked
  on, is shown, or is near the end (`LatestInv`).
* `TokenStaysSaved` (`[]TokenIsSaved`) and `CommandsGoToShownHost`
  (`CommandGoesToShownHost`), from the types and from what `captureSetupFields`
  returns.

`DiscoveryProofs`, for any phones and any records in a packet:

* `ListIsRight`: `[]PhonesAsAnnounced`. `DiscoveryAssumption` says that packets hold the
  four types of record and that a reader may follow three pointers (8 in the code).

The argument follows a name from the packet's writer to its reader. A packet is
`Closed`: behind each label stands the rest of its name or a pointer to it. Names
have at most three labels, so one that stands in a closed packet, or in as much of
it as has come, is read back with three jumps (`NameIsRead`). Each record then
begins where the one before it ends, and a packet that is cut short yields exactly
the records that end before the cut (`RecordsAreParsed`). What is known is therefore
what the records heard say (`Knows`), in whatever order they came and however
often; that is the inductive invariant `ListInv`.

`HelperProofs` also has, for any arguments, files, settings and recordings:

* `SentIsMeant`: `ShortMessages` implies `[]ArrivesAsMeant`. `ShortMessages` says that
  a message has at most 65,535 bytes (`HelperFrame.cfg` shows the first that fails).
  `WireAssumption` says that arguments are strings of the characters a command line
  knows, and that host, ports, token, resolution and aspect are not themselves flags
  and the frame rate is one of the menu's. It rests on four theorems without a bound:
* `ArgumentsArrive`. A text is split piece by piece (`SplitInPieces`), since the
  reader's state is all that one piece leaves for the next. Of an argument that is
  quoted, its beginnings are followed with the backslashes that are still counted
  (`Writes`); one that is not is read as itself; either is then one word more for
  the list (`OneMoreWord`).
* `CommandsArriveWhole` and `EventsArriveWhole`: what is written in two bytes is read.
* `CommandsSayWhatIsMeant`. A flag is found at its own place: no argument before it can
  be taken for it (`FirstValue`, `RestHas`), and what is free - a recording's id and
  name, a session's - stands behind all that is looked for. So each command is `Heard`
  as it was said, and the JSON has the same fields.
* `HashIsOfTheMessage`, for any block and any counter that leaves room in it. `Hashed`
  is the loop invariant of `update`: full blocks, a block begun and the rest are the
  text, one after the other (`MoveKeeps`, `UpdateKeeps`), and after each buffer the text
  is what has been read (`FileIsRead`); `FinishPads` then counts the zeros.

The library's induction theorems cannot be used here, so induction is over sets of
numbers, from the well-foundedness of `<` (`NatSet`, `UpTo`), and each recursive
function is first shown to be what its definition says (`SplitsDef`, `MovedDef`, ...).

Only model-checked: all liveness (TLAPS does not reason about fairness and
`ENABLED` here), so also `LiveReturns`. The algorithms that `Codecs` calls are
compared with their definitions on bounded inputs only: JSON, H.264 and the
alignment use recursive operators, which the prover cannot expand.

## 5. Not modelled

`PROJECT.json` lists every component with the reason when it is not modelled,
and every hazard with the properties that cover it.

* *Phone:* formats, lenses, orientation and zoom of the camera; the preview
  server and encoder, of which `WinPreview` has what the client sees; the keychain
  and the code of the pairing, of which `WinPreview` and `SetupPanel` have the
  outcome (paired, unauthorized); the app's views.
* *macOS:* the preview, panels and media of `reashoot.mm` and `platform/mac`,
  twins of the modelled Windows parts around AVFoundation and VideoToolbox; the
  dns-sd tool of the macOS helper's discovery.
* *Windows:* colour conversion, rotation, hardware contexts and latency metadata
  of the renderers (`parseDiagnosticSEI` reads a message that no code of this
  repository writes); drawing, menus and window plumbing; unloading, where
  threads that run helpers are detached.
* *Helper:* control frames and masking of the WebSocket; progress lines, paths and
  status texts, which are wording.
* *Arithmetic:* the compression functions of the hashes; in the alignment the
  logarithm and the root that bend a sound's level (monotone, and exact for sounds
  that are on or off, as those of the run), the time selection, which items are
  references, and that a place falls between two samples from one stage to the next.

One thing the models show and no property forbids: a parameter set that ends
inside its cropping is accepted, since `readUE` at the end of the data returns 0
(`SizeIsRead` speaks of cuts before the cropping).

Possible extensions: a composition of the phone, a download and an extension, with
`TakeTransfer` as the contract between them; the preview server with its cached
key frame.

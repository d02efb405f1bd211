# ScriptCommunicator in TLA+

ScriptCommunicator is a Qt terminal for serial ports, TCP, UDP, CAN (PCAN) and
I2C/SPI (Aardvark) with JavaScript scripts. This directory models its concurrent
core: the threads that send, connect and wait for each other. It holds TLA+
modules, the TLC configurations that check them on small instances, and TLAPS
proofs that all safety properties the passing runs check hold for all values of the constants.

Source paths are relative to `src/ScriptCommunicator/`.

## 1. Inventory

The program runs a GUI thread, one main interface thread, one thread per worker
script and one per sequence script, and receive threads of the CAN and I2C
adapters. They communicate by Qt signals: a *queued* connection posts an event to
the receiver's event loop, a *blocking queued* one also waits until it was handled,
a *direct* one is a call in the sender's thread. Several functions run an event loop of
their own while they wait (`QCoreApplication::processEvents`), so that any handler
of the thread may run inside them. That is where most of the hard behaviour is.

| Component | State it keeps | Operations | Interacts with |
|---|---|---|---|
| **Main interface thread** `mainInterfaceThread.cpp` | current settings, `m_isConnected`, six handles (serial port, TCP client, TCP server and its sockets, UDP, Aardvark, PCAN), byte counters | send, connect/disconnect, exit; slots for received data, new, lost and failed connections | queued orders from GUI; blocking queued ones from scripts; status, answer and data signals to all |
| **Cyclic sending** `sendwindow.cpp` | flag, repetition count, pause, script, number of sends, timer | press send/cancel, timer elapsed, answer, error, closing | main interface thread (send, answer with an id); sequence scripts; main window on close |
| **Send history** `mainwindowHandleData.cpp`, buttons in `mainwindow.cpp` | history (30 entries), list still to send, flag, two timers, button states | add, send selection, cancel, clear, timers, answer | main interface thread; everybody who sends |
| **Sequence scripts** `scriptClasses/sequencetableview.cpp` | two threads (single, cyclic sequences), a finished flag each, data to send | `executeScript` (waits in an event loop, detects a blocked script), `executeScriptSlot`, dialogs of scripts | cyclic sending, single sends |
| **Script thread, script window** `scriptThread.cpp`, `scriptwindow.cpp` | table rows with thread pointers, exit and pause flags, queued state changes | start, pause, stop, terminate, add, move, remove, unload, close; `setScriptState` between scripts | GUI thread and script thread, both directions |
| **Script interface** `scriptInf.cpp` | succeeded flag, connected flag | blocking send with repetitions, connect with a timeout | main interface thread, main window (settings) |
| **Main window** `mainwindow.cpp` | connection state, settings, config files | wiring of all signals; connect button; close | all |
| **Consoles and logs** `mainwindowHandleData.cpp` | stored and unprocessed data, limits | append, flush by timer, clear, filter | main interface thread, main window |
| **Adapters** `pcan/PCANBasicClass.cpp`, `aardvarkI2cSpi/aardvarkI2cSpi.cpp` | handle, receive thread | open, close, send split in frames, receive | main interface thread |
| **CRC** `crc.cpp` | none | 8/16/32/64 bit CRCs | scripts |
| Settings, script API wrappers, sce files, script editor | widgets, files | sequential | not modelled: see section 8 |

What makes each of them correct, and what is hard about it:

* **Main interface thread.** A serial send waits in an event loop, so sends and
  connects are handled inside it, to any depth. Correct means: one handle at most is
  open and it is the configured one; what is announced is true; every request is
  answered exactly once; a success means that the data is gone; the port is not left
  muted; nothing opens after the exit. Hard: nesting, the port closed under
  a waiting send, TCP connection attempts that end after they were given up.
* **Cyclic sending.** Correct means: lockstep with the answers, exactly the entered
  number of sends, every run ends and leaves no timer behind. Hard: answers carry an
  id shared by all runs; scripts and closing wait in event loops, in
  which runs are cancelled and started.
* **Send history.** Correct means: the selection is sent, in order, one at a
  time, and sending ends. Hard: every signal is queued, so what a slot finds may have
  changed since the signal was emitted; answers may be missing.
* **Sequence scripts.** Correct means: the script's own result is sent, or nothing, every call ends, and
  no script holds pointers to a call that is over. Hard: one finished flag per thread
  is shared by nested calls; threads are terminated and replaced under waiting calls.
* **Script thread, script window.** Correct means: no dangling thread pointer, the right script
  is terminated, none is lost, every stop ends. Hard: starting, suspending, terminating and removing
  interleave with queued state changes inside the waits; closing waits for all rows.
* **Script interface.** Correct means: a call returns its own result, and a connect that gave up
  leaves nothing behind. Hard: a timeout races a late status; calls nest; the GUI orders too.
* **Consoles and logs.** Correct means: what is kept is the end of what arrived. Hard: counters kept at
  a dozen places, marks owed by one message to the next.
* **Adapters.** Correct means: the bytes on the bus are the message; nothing received is lost. Hard:
  lengths a DLC cannot express; a timer that reads ahead of a loop; full queues and restarts.
* **Shutdown.** GUI, scripts and main interface thread wait for each other
  with blocking queued calls.

`PROJECT.json` lists the hazards with their source lines and the properties
that watch them.

## 2. Modules

| Module | Models | Extends / instantiates |
|---|---|---|
| `SendService` | abstract: a request handed over is answered once, and some time | |
| `MainInterface` | the main interface thread, all six interfaces | `SendService` as refinement |
| `MainInterface_proofs` | theorems about it | `MainInterface`, TLAPS |
| `RepeatSend` | abstract: send n + 1 times in lockstep | |
| `CyclicSend` | cyclic sending in the GUI thread | `RepeatSend` as refinement |
| `CyclicSend_proofs` | theorems about it | `CyclicSend`, TLAPS |
| `SendHistory` | the send history in the GUI thread | |
| `SendHistory_proofs` | theorems about it | `SendHistory`, TLAPS |
| `SequenceScript` | `executeScript` and the threads of sequence scripts | |
| `SequenceScript_proofs` | theorems about it | `SequenceScript`, TLAPS |
| `ScriptLifecycle` | the table of worker scripts, starting and stopping them | |
| `ScriptLifecycle_proofs` | theorems about it: pointers; stops and orders | `ScriptLifecycle`, TLAPS |
| `ScriptInf` | sends and connects of scripts, between GUI, main interface and script threads, up to closing | |
| `ScriptInf_proofs` | theorems about it | `ScriptInf`, TLAPS |
| `ConsoleBuffer` | the data of consoles and log | |
| `ConsoleBuffer_proofs` | theorems about it | `ConsoleBuffer`, TLAPS |
| `CanFrames` | the PCAN adapter: frames and reception | |
| `CanFrames_proofs` | theorems about it | `CanFrames`, TLAPS |
| `MCMainInterface`, `MCCyclicSend`, `MCSendHistory`, `MCSequenceScript`, `MCScriptLifecycle`, `MCScriptInf`, `MCConsoleBuffer`, `MCCanFrames` | instances for TLC | the module after `MC` |

How they fit together: `MainInterface` implements `SendService`, which is what `CyclicSend`, `SendHistory` and
`ScriptInf` rely on when they send. `CyclicSend` lets a script return some time; `SequenceScript`
says when it does. `CyclicSend` (the send window), `ScriptLifecycle` (the scripts) and `ScriptInf` (the main
interface thread) are, in this order, what `closeEvent` waits for.

Definitions named "Mutant of X" are what a plausible slip would make of X. No
specification uses them; substituting one for X makes a property fail, which
shows that the property depends on that line of the code.

### MainInterface

The thread is one event loop. `inbox` holds the orders posted to it (queued signals
of the GUI, blocking queued ones of scripts); `stack` holds the activation records of the sends
that wait in `sendDataWithTheMainInterface`. Orders and network events are handled
when the stack is empty, or inside the innermost waiting send (`Dispatching`).

| Model | Code |
|---|---|
| `ctype`, `connected`, `running` | `m_currentGlobalSettings.connectionType`, `m_isConnected`, the thread's event loop |
| `open`, `client`, `peers` | the handles; state of `m_tcpClientSocket`; `m_tcpServerSockets` |
| `blocked`, `pending`, `rx` | `m_serial->signalsBlocked()`, its write buffer, `bytesAvailable() != 0` |
| `status`, `buttons`, `outcome` | the last `dataConnectionStatusSignal`, `setConnectionButtonsSignal`, and the `sendingFinishedSignal(bool, uint)` of each request |
| `line`, `lost` | history: what left the program; what was dropped when the port closed |
| `ConnectSlot` | all of `connectDataConnectionSlot`, called from an order, from a failed PCAN send, and when the server's last client leaves |
| `RejectSend`, `DirectSend` | `sendDataSlot` over an interface that writes without an event loop |
| `StartSerialSend`, `WriteChunk`, `EndWait` | the loop over 512 byte chunks and the wait in it. One action is what runs between two event loop passes |
| `HandleExit` | `exitThreadSlot`. The waiting sends still finish afterwards |
| `ClientConnected`, `ClientError`, `PeerConnects`, `PeerDisconnects`, `SerialReceives` | the slots of Qt's signals, including those of an attempt that was given up |

Abstractions: data is a number of chunks. Byte counters, the data rate, the hook for
worker scripts (`sendDataWithWorkerScriptsSignal`) and received data of the other
interfaces are left out. `showMessageBoxSignal` is blocking; its caller is treated as
resuming at once. `waitForBytesWritten` of a TCP socket may run that socket's
disconnect slot; here the slot is a step that follows. A direct send that fails may
have written a part, which `line` does not record. A timeout may
happen at any time while a send waits (the clock is not modelled).

### CyclicSend

The GUI thread is one event loop too; `calls` holds the calls of
`SequenceTableView::executeScript` (for the first message, `start`; for a later one, `next`) and of
`programIsClosing` that wait in loops of their own. Any handler can run
inside them, only the innermost can return. The main interface thread is represented by
what `SendService` promises: `flight` counts the requests that it has, `answers` is the queue
of its answers. `run` numbers the runs, which the code does not do; it is
used to say whose answer an answer is.

`PressSend`, `PressCancel` are `sendButtonPressedSlot`; `StartRun` and
`StartScriptReturns` the cyclic part of `sendDataWithTheMainInterface`;
`TimerElapses`, `SendNext`, `NextScriptReturns` are `sendTimerElapsedSlot` before and after its
script; `AnswerIgnored/Last/Next/WhileClosing/Failed` are the branches of
`dataHasBeenSendSlot`; `CloseEvent`, `CloseReturns` are `programIsClosing`.

Abstractions: message boxes shown on errors are not modelled as nested loops. Single sends
(no repetition) leave no state and are left out, as is the table.
A script returns a message or an empty one; what happens between the GUI
and the script's thread is in `SequenceScript`.

### SendHistory

Every button, timer and answer reaches its slot through a queued connection
(`mainwindow.cpp` 535-557), so `events` is the queue and each slot handles its
head. `toSend`, `inProgress`, `sendTimer`, `consoleTimer` are members; `chosen` and `sent`
record what the user selected and what was handed over. Taking `first()` of an empty
`QVector` is undefined behaviour: the model sets `undefined`, and says nothing about
what follows.

Abstractions: formats and display; the number of repetitions of a selection (a
selection is any part of the history, forwards or backwards); one user event is
handled before the next one can happen; a timer elapses again only after its queued slot
ran.

### SequenceScript

| Model | Code |
|---|---|
| `thread` | which thread object there is of each kind (`m_scriptSingle`, `m_scriptCyclic`), by the number of those it has replaced |
| `finished`, `dialog`, `queue`, `job` | of that thread: `m_scriptFunctionIsFinished`, `m_dialogIsShown`, its posted requests, the one it works on |
| `script` | where its script is: it computes (`runs`), has set the dialog's flag (`asks`), has posted the dialog and is blocked (`waits`), has the answer (`answered`) |
| `posted` | dialogs posted to the GUI thread, each with its thread |
| `calls` | event loops of the GUI thread: the loop of `executeScript` (at its condition, in `processEvents`, or past the look at `m_dialogIsShown`), the box about a blocked script, dialogs shown for scripts |
| `data`, `outcome` | the local `sendData` of each call, to which the request has a pointer; what the call returned |
| `nested`, `fault` | history: kinds for which a call was made inside another one; a pointer to a finished call, or to a terminated thread, was used |
| `Execute`, `Continues`, `ReadsDialog`, `HasTime`, `TimesOut`, `SeesFinished`, `BoxConfirmed` | `executeScript`: the line 534 that reads the flag and the lines 539-543 that look at the time and terminate are steps of their own |
| `DialogOpens`, `DialogCloses` | the GUI thread handles a posted dialog, and its user closes it |
| `Take`, `ScriptEnds` | `executeScriptSlot` in the script thread |
| `AsksForDialog`, `PostsDialog`, `LeavesDialog` | `messageBox` and its siblings, error messages included: the flag, the blocking signal, the flag again |

The script threads run in parallel to the GUI thread, which handles what is posted only in an event
loop (`InEventLoop`). Only the innermost loop of the GUI thread goes on. A blocked thread is terminated and replaced
(`ReplaceThread`); an outer call that waits then looks at the flags of the new one. What the old thread
posted *to the GUI* is not withdrawn: its dialog appears, and the answer goes to the freed stack of the thread, which
may do any harm or none (`fault`).

Left out: the debugger and the script
engine; a script is what it returns, and when. Termination takes effect at once (`QThread::terminate` may delay it to a
cancellation point). A clock is not modelled: time may be up whenever the loop gets to it, also right
after a dialog was closed and its script cleared the flag before the loop looked at it, when the code counts
the time of the dialog as blocked.

### ScriptLifecycle

| Model | Code |
|---|---|
| `table` | rows of `tableWidget`: script, and the pointer to its thread |
| `phase` | of each `ScriptThread` object: running, paused, in `setScriptState` (`calling`), EXITED posted (`leaving`), finished, terminated, deleted |
| `shallExit`, `shallPause` | `m_shallExit`, `m_shallPause` |
| `events` | queued signals for the window: EXITED, and the orders of `setScriptState` |
| `calls` | stops of the GUI thread in progress, each with the row *number* it looks at: in `stopScriptThread`'s loop (`wait`), in its message box (`box`), in the loop that waits for all rows (`drain`) |
| `fault`, `disturbed` | undefined behaviour, at which the model stops; history: rows changed, or a script started, inside a wait |
| `PressStart/Pause/Stop/Remove/Add/Move`, `PressStopAll` | the slots of the buttons; `unloadConfigSlot` and the main window's `closeEvent` |
| `StopSeesEnd`, `StopTimesOut`, `RowIsGone`, `BoxConfirmed`, `DrainEnds`, with `Return` | `stopScriptThread` after each pass, and what its caller goes on with: nothing, `removeRow`, the answer to a script, the next row |
| `HandleExited`, `HandleNoRow/Start/Pause/Stop`, `HandleOrderOfTerminated` | `threadStateChangedSlot`, `setScriptStateSlot` |
| `Leave`, `Finish`, `Pause`, `Resume`, `SetScriptState` | a script thread: `run`, `pauseTimerSlot`, the script's calls |

A script need not react to anything, may end by itself, and its user interface may fail to load. Left
out: the debugger, the command line mode with its exit code, `exitScriptCommunicator`, states of
the buttons. User actions and orders are bounded together by `MaxActs`; thread objects are never used again, so
`Threads` bounds the starts.

### ScriptInf

Three kinds of threads. `gui`, `settings` belong to the GUI thread. Of the main interface thread there is what a script sees: `inbox`,
`sending` (nested, so in any order), `cfg`, `showBox`, `conn`, the TCP client and the TCP server (`peer`); all
interfaces that connect at once are one kind, `device`. Of each script there are its `state`, the members
`isConn`, `succeeded` which the *main interface thread* writes (its signals reach them by direct connections), and `stack`, the calls in
progress: a script handles events between two repetitions and while it waits for a
connection, and its handlers may call again.

`HandleConnect`, `HandleSend`, `HandleExit` are the main interface thread's slots, `Client...` and `Peer...` the socket
slots; `mi` says in which message box it waits. `CallSend`, `Repeat`, `RepeatedAll`, `ContinueSend` are
`sendByteArray` with its repetitions; `CallConnect`, `SetSettings`, `PostConnect`, `WaitEnds`, `Result` are
`connectSocket` with its time-out, after which it restores the settings and
withdraws the order; `Create`, `InitSignals`, `End` are the thread's start (the connection state is asked for before the signal
that reports it is connected) and its end; `PressConnect`, `Close`, `Exit`, `CloseBox` are the GUI.

`Stop` and `Terminate` are `stopScriptThread`: a script that does not end within its block time is terminated, wherever it is, also
blocked in an order. The order stays in the queue or in work, and so does an order to the GUI to set the settings; of the stack of a terminated
script that is all the model keeps (`WithTop`). What that order does is done all the same: an orphan order to
connect connects the interface, and nobody withdraws it. A PCAN interface whose send failed is opened again before the answer (`Restart`), with a message box
when it cannot be. Between that and the answer the model handles other orders, which the code
does not do.

Simplified: termination takes effect at once. The signal that ends an order of a terminated script is delivered to its freed
stack by Qt; the model goes on as if nothing was written. `disconnectDataSignals`, which names the status
signal with a wrong signature, does not disconnect it, so that the flag of a terminated script goes on being written: nobody
reads it. Before the box about a blocked script the pointer in its row is cleared (scriptwindow.cpp 1842), and another script that
closes the program inside that box no longer waits for it: not modelled; `closeEvent` stops all scripts first.

Left out: pausing, the debugger, UDP, pins, received data. `sendDataArray`, `sendString`, `sendCanMessage`
and `i2cMasterReadWrite` are `sendByteArray` with other data, the other connects are
`connectSocket` with other settings.

### ConsoleBuffer

| Model | Code |
|---|---|
| `fresh`, `freshBytes`, `clearFirst` | `m_unprocessedConsoleData`, its counter, and whether it begins with the element that clears all consoles |
| `stored`, `storedBytes`, `log` | `m_storedConsoleData`, its counter; `m_unprocessedLogData` |
| `sinceLine`, `stampNext` | what one message owes to the next one: `m_bytesSinceLastNewLineInConsole`, `createTimeStampOnNextCall` |
| `noConsoleVisible`, `refillDue` | `m_noConsoleVisible`: data are not collected then; `inititializeTab` is between its event loop pass and `reInsertDataInConsole` |
| `console` | what is shown |
| `taken`, `arrived`, `messages`, `refilled` | history: the bytes collected for the consoles, the bytes so far, which of them the user added, whether consoles were set up or filled again |
| `Arrive`, with `Collect`, `Formatted` | `appendDataToStoredData` for one message, with `appendUnprocessConsoleData` |
| `Counted`, with `CountedBreaks`, `CountedStamps` | its seven increments of the counter (1359-1521), apart from what they count |
| `TimerExpires`, with `Update`, `WithLines`, `Limit` | `updateConsoleAndLog` with `processDataInStoredData` |
| `SetUp`, `Refill` | `inititializeTab` shows other consoles or none, handles events, and fills them again |
| `RefillMixed`, `ClearConsole` | the mixed console is filled again when the window is resized; the clear button |

A byte is its number in the order of arrival; time stamps and new lines are marks among the bytes. `Columns` is
`m_bytesSinceLastNewLineInConsole` before and after each element: new lines and time stamps reset it, but count
at a data rate above 10000, so that either is possible in each update (`highRate`). The time stamp of a user's own
message has the type of the message and is split like one (`MessageStamp`). Left out: formats, colours, the log's own
marks and files, changes of the other settings (the limit, the special bytes), and the new line after a million bytes without one at a high data rate.

### CanFrames

`handle`, `canFd` are the adapter; `send`, `frames`, `sendData` a send in progress (which frame, how many errors, how it ended);
`queue` is the driver's, `last` and `ready` what the timer read ahead, `reading` and `messages` the loop in
`pcanReceivedDataSlot`, `delivered` what was emitted. The driver's answers are free: `Written`, `QueueIsFull`
(tried again up to `MAX_SEND_ERROR` times), `WriteFails`; a failed send closes and opens the interface (`Restart`). A
frame is the interval of bytes it carries, with its DLC. An error of the driver's read other than an empty queue or bus off is
taken for a message (`ReceiveFails`), whose loop then finds none, and ends the loop (`ReadNothing`).
Left out: an interface that opens although reading fails for ever, where `open` discards messages until
the queue is empty, without end (PCANBasicClass.cpp 137-148).

## 3. Runs

| Run | Bounds | Shows |
|---|---|---|
| `MainInterface_safety` | 2 sends of 2 chunks, 3 connects, 2 server clients, all six interfaces, exit | messages nest (`WellNested`); success means that the data is gone (`SuccessMeansGone`); an idle port is not muted (`BlockedOnlyInSend`) and not left unread after successes (`ReadAfterSuccess`); one handle at most, the configured one (`OnlyConfiguredOpen`); the announced status is true (`AnnouncedIsTrue`); answers at most once (`AnswersOnce`); nothing opens after exit (`NothingReopens`) |
| `MainInterface_live` | 3 sends (2 chunks, 1, empty), 2 connects; serial, TCP client | every request is answered (`AnswersEveryRequest`); the connect button comes back (`ButtonsComeBack`) |
| `CyclicSend_all` | 3 presses, 2 of them cancels, repetitions up to 2, scripts | a run in progress is driven (`RunIsDriven`); sends do not multiply but by cancels (`ChainsBounded`); refinement of `RepeatSend` until the first cancel (`SendsInLockstep`); the program can be closed (`ProgramCloses`) |
| `SendHistory_all` | limit 3, 4 adds, 3 presses, cancels, clears, missing answers | sent and left make up the selection (`SelectionIsSent`); one message at a time until a cancel (`OneAtATime`); the timer's slot finds one (`TakesHistoryData`); sending ends if every send is reported (`HistorySendEnds`) |
| `SequenceScript_all` | 1 call for a single, 2 for cyclic sequences, 2 dialogs | requests point to calls that wait (`RequestsAreLive`); what is sent was computed (`ScriptDataOrNothing`); no script is terminated under the dialog that is shown for it (`DialogKeepsThread`); every call ends (`EveryCallEnds`) |
| `ScriptLifecycle_all` | 2 scripts, 2 thread objects, one with windows, 4 user actions or orders | no dangling pointer (`NoDanglingThread`); the script that is terminated was asked to exit (`TerminatesTheRightOne`); none runs on unnoticed (`NoOrphans`); stops end (`StopsEnd`), also those scripts wait for (`CallsReturn`) |
| `ScriptInf_all` | 2 scripts, a device, a TCP client and a TCP server to connect, 2 calls, stops or presses, 2 repetitions, closing | a send returns the answer to its own data (`AnswerIsOwn`); who waits has one order, at a thread that is there, and only terminated scripts leave one behind (`WaitersHaveOrders`); a connect that gave up leaves nothing behind (`GivenUpIsWithdrawn`); a script knows the connection state (`FlagIsCurrent`); calls return and the program closes (`CallsReturn`, `CloseEnds`) |
| `ConsoleBuffer_all` | 8 bytes in messages of 2 or 3, limit 5, lines of 2 bytes, new lines after bytes 2 and 7, time stamps after bytes 4 and 5, both data rates | counters are sizes (`CountersAreSizes`); the end of what arrived is kept (`KeepsTheEnd`); lines are short (`LinesAreShort`); stamps follow their bytes (`StampsFollow`) |
| `CanFrames_all` | every message length to 130 bytes and a message without an id, 2 errors, 2 arrivals | the bytes on the bus are the message (`WireIsMessage`); no received message is lost, doubled or overtaken (`NothingLost`); all are read (`AllRead`) |

Why the bounds are enough: interleaving of messages needs two sends with a point
between two chunks each. A TCP attempt that is given up and another interface opened
take two connects, a third one returns to TCP. With two clients of the server, one that leaves
is the last one or not. A cancelled run interferes with the one that follows
it: two cancels give three generations of answers. A history of three has a middle, and the
fourth add finds it full. A nested `executeScript` is one of the same kind or of the other, and its thread may be replaced
under one that waits outside. A stop remembers a row: moving, removing or restarting inside its wait takes two rows and
two actions more, and a script that orders a stop another one. Two scripts whose connects
overlap show what one gives up while the other one tries, and one is terminated in its order while the other one waits. Eight bytes with their
stamps and new lines overflow both console buffers, with a line or a stamp pending, and messages with a special byte at their start, middle and end. 130 bytes are two full CAN-FD frames and a rest, and every rest below
64 bytes occurs. Chunk sizes (512 bytes), 30 entries and the timeouts appear only through
these cases. The proofs of section 6 have no bounds.

Larger instances were checked once, within an hour, and are not among the runs: `SequenceScript` with two calls of each kind (1.3 million
states); `ConsoleBuffer` with five bytes in messages of 1 or 3 and two positions of the special bytes (5 million states each);
`ScriptInf`, its safety properties only, with stops that are not counted (4.2 million states).

Deadlock is checked, except in `ScriptInf_all`, where a closed program stops. Elsewhere a program
that has stopped says so by a stuttering step (`Finished`, `Stopped`, `Over`), or an external event is always
possible.

## 4. Disagreements between the code and its comments

Each is a run that ends in a violation; the property states the comment.

| Run | What TLC finds |
|---|---|
| `MainInterface_server` | one of two clients leaves: connected is announced, `m_isConnected` is false (`StatusIsTruth`) |
| `SendHistory_full` | at the limit the newest entry is removed, not the oldest (`AddedIsKept`) |
| `ScriptLifecycle_wrong` | "the function stops the script thread which is connected the a given row": after a restart or a change of rows inside the wait another script is terminated, which was never asked to exit (`TerminatedWereAsked`) |

More comments are stated at the ends of the modules; TLC finds these violated too, by
a run of each with the constants of the module's `.cfg`:

* `MutedWhileWaiting`: a nested send unblocks the port's signals while the outer one still waits (mainInterfaceThread.cpp 1007-1008, 1025).
* `SuccessMeansTransmitted`: a port closed inside the wait has an empty buffer, and the send reports success (977-982, 1014).
* `OpenIsConnected`: the late end of a given up TCP attempt resets `m_isConnected` of the interface opened since (198, 408).
* `CountIsOwn`: the answer of a cancelled run is counted for its successor (sendwindow.h 598, sendwindow.cpp 2210).
* `ScriptCallsEnd`: closing inside `executeScript` waits for a run that only `executeScript` can continue (sequencetableview.h 294, sendwindow.cpp 341).
* `FlagIsTrue`: a failed send is never reported, and the history stays in progress (mainwindowHandleData.h 323, .cpp 1239).
* `ReturnsScriptData`: with a nested call, the caller's data are sent instead of the script's (sequencetableview.cpp 508-520).
* `TrueMeansRepeated`: a send interrupted by the script's exit returns true if what it sent so far succeeded (scriptInf.cpp 182-200).

Weak spots that the passing properties state as their exceptions:

* `ReadAfterSuccess`: bytes that arrived while a send waited stay unread when it fails
  (mainInterfaceThread.cpp 578-581 lacks the call that 565-569 makes).
* `AnnouncedIsTrue` excludes the TCP server (`MainInterface_server`) and UDP, where `m_isConnected`
  stays true when `bind` fails (778-799).
* `TakesHistoryData`: a timer slot queued before a cancel runs after it, and a change of the format enables
  the send button of an empty history; both take the first element of an empty vector.
* `ProgramCloses`: unless the window is closed inside `executeScript` (`ScriptSuspended`).
* `SendsInLockstep`, `ChainsBounded`: until somebody cancels (`CountIsOwn`).
* `EveryCallEnds` excludes `Buried`: a call made inside the dialog of a script of the same kind waits for a thread
  that waits for the dialog, and the time does not count (sequencetableview.cpp 534).
* `DialogKeepsThread` speaks of dialogs that are shown. A script that sets its flag after the loop has looked at it
  (sequencetableview.cpp 534, 644) is terminated by line 542; its dialog appears afterwards, and the answer goes to a
  thread that is gone (`fault`).
* `RequestsAreLive`, `ScriptDataOrNothing`: only without nested calls of one kind, which are released by each other's flag.
* The stops of `ScriptLifecycle` end in `fault` when a thread that ended while its message box was
  shown is used after EXITED deleted it (scriptwindow.cpp 1841-1851, `useAfterDelete`), when EXITED is handled before `run` has returned (1307,
  `deletedRunning`), when the row is gone (`noRow`), and when an order is answered to a script that was
  terminated in it (1161, `deadCaller`). A script restarted inside the box is an orphan after `removeRow`; one restarted inside
  the wait for all keeps unloading and closing waiting.
* `WaitersHaveOrders` excepts scripts terminated in a blocking order, which they leave behind (scriptwindow.cpp 1820-1856,
  scriptThread.cpp 1265-1288): the data are still sent, the interface is still connected. A serial send may take longer
  (`SEND_TIMEOUT`) than a script's block time.
* `CloseEnds` excludes `Embrace`: the main interface thread waits for a message box of the GUI thread, which
  already waits for it in `exitThreadSignal` (mainwindow.cpp 4384, 497-498).
* `FlagIsCurrent` excludes scripts that missed a status between their constructor and `intSignals` (scriptInf.cpp 21,
  46-79), and the time in which a message box delays the status.
* `GivenUpIsWithdrawn`: when connects overlap (`mixed`) one script restores settings that
  another one has replaced. A late TCP answer is announced for a moment, for which a timed-out connect returns true.
* `StampsFollow`, `KeepsTheEnd`: a byte that asks for a time stamp is dropped at the start of a
  message and after another one (mainwindowHandleData.cpp 1392-1395).
* `LinesAreShort` says nothing once consoles were set up: filling a console again restarts the count in the middle of a line (2262), and a time stamp restarts
  it too (1848): the property takes a stamp for a line of its own, which a format without line breaks does not make it.
* `WireIsMessage` excludes CAN-FD messages over a classic interface (`Fits`): they are cut to 8 bytes and reported as sent. A failed
  send may have put frames on the bus, and the restart that follows discards what was received (mainInterfaceThread.cpp 1092-1097).

Seen on the way, outside the models: a bind failure of UDP lets `connectSocket` return true (mainInterfaceThread.cpp 780); the script's
threads call `updateSettings` of the settings dialog (scriptInf.cpp 395, 439, 493, 615); data that only go to the log do not start the
timer that writes them (mainwindowHandleData.cpp 173, against 42-43); decimal values of the log use the console's
width (1868-1872); the front of a CAN or I2C element is cut with its meta bytes (155);
`data.length() - BYTES_METADATA_SEND` wraps for a short message sent on another interface and handled after CAN was connected
(1165); CAN time stamps wrap at 32 bits (PCANBasicClass.cpp 668-675).

## 5. Fairness

Weak fairness of steps, but for three:

* *the event loops run*: handling the head of an inbox or a queue, a waiting send looking at its
  buffer and its clock (`WriteChunk`, `EndWait`), a stop looking at its row (`Waiting`), `executeScript` at
  its flags (`LoopStep`), a timer that runs elapses. Qt's event loop and timers do that,
  unless a handler does not return, and those are modelled where they exist;
* *a TCP connection attempt ends* (`MainInterface`): Qt reports connected, an error, or a timeout after 30 s;
* *time passes and posted events are handled* in `SequenceScript`: **strong** fairness of `TimesOut` (the loop gets to the comparison again
  and again, and some time the block time is over) and of `DialogOpens` (each pass of the loop handles what was posted
  before it). A script thread gets from the flag to the signal and from the answer to the flag (weak fairness of `PostsDialog`, `LeavesDialog`), which are straight code;
  scripts need not end;
* *message boxes are confirmed and dialogs closed*, some time;
* *in `CyclicSend` a script returns*: `executeScript` gives up after `m_blockTime`, which `EveryCallEnds` checks without
  any fairness of scripts. As fairness on returning, this applies
  only to the innermost call, which is why `ScriptCallsEnd` fails: its call is never innermost again;
* *the main interface thread answers*: `CyclicSend` and `ScriptInf` (`SendEnds`) assume what `MainInterface_live` checks
  (`AnswersEveryRequest`). In `SendHistory` the answer is reported or, for a failed send, not
  (`Sent \/ NotReported`), and `HistorySendEnds` says what follows if all were;
* *a thread that left its loop ends* (`ScriptLifecycle`, `Finish`), and *scripts that shall exit go on with their calls, and then end or are
  terminated* (`ScriptInf`, `ScriptStep`, `End`, `Terminate`). Termination inside a call is possible there and not assumed: calls end without
  it. `ScriptLifecycle` assumes nothing of a script that runs: it is terminated;
* *the driver's functions return* (`CanFrames`), with whatever result, and do not fail to read for ever. **Strong** fairness of `ReceiveTimer`: between two sends
  the event loop is reached again and again, and an expired timer is served then, however many sends there are.

Nothing is assumed of the user otherwise, of the connection (it may be lost for ever) or of
the peers. `ConsoleBuffer` has safety properties only.

## 6. Proofs

All theorems hold for every value of the constants that the `ASSUME` of the module allows:
any set of requests of any length, any interfaces, clients, orders and depth of nesting, any
repetition count, any limit, any scripts, threads and rows, any message length, any console data.

| Module | Theorem | Statement |
|---|---|---|
| `MainInterface_proofs` | `TypeCorrect` | `SafeSpec => []TypeOK` |
| | `ConfiguredOnly`, `Announced` | `[]OnlyConfiguredOpen`, `[]AnnouncedIsTrue` |
| | `MutedOnlyInSend`, `ReceivedIsRead` | `[]BlockedOnlyInSend`, `[]ReadAfterSuccess` |
| | `SuccessfulIsGone`, `MessagesNest` | `[]SuccessMeansGone`, `[]WellNested` |
| | `ExitIsFinal` | `NothingReopens` |
| | `AnswersAtMostOnce` | `AnswersOnce`, the refinement of `SendService` |
| | `NoRequestForgotten` | `[]NoneForgotten`: an unanswered request is in the inbox or on the stack (no run) |
| | `ButtonsOffOnlyConnecting` | `[]OffWhileConnecting`: buttons are off only while an attempt will still report (no run) |
| `CyclicSend_proofs` | `TypeCorrect`, `TimerInRun` | `[]TypeOK`, `[]TimerOnlyInRun` |
| | `Driven`, `SendsBounded` | `[]RunIsDriven`, `[]ChainsBounded` |
| | `ImplementsRepeat` | `SendsInLockstep`, the refinement of `RepeatSend` |
| | `OnlySuspendedBlocks` | `[]CloseGoesOn`: a waiting `programIsClosing` can go on, unless a script is suspended (no run) |
| `SendHistory_proofs` | `TypeCorrect`, `SelectionSent` | `[]TypeOK`, `[]SelectionIsSent` |
| | `OneByOne`, `TakesData` | `[]OneAtATime`, `[]TakesHistoryData` |
| | `FlagStaysOnlyUnreported` | `[]FlagOrLost`: the flag is up only while something is under way, or a send was not reported (no run) |
| `SequenceScript_proofs` | `TypeCorrect`, `DialogsKeepThreads` | `[]TypeOK`, `DialogKeepsThread` |
| | `RequestsLive`, `ComputedOrNothing` | `[]RequestsAreLive`, `[]ScriptDataOrNothing` |
| | `OnlyBuriedBlocks` | `[]InnermostGoesOn`: the GUI thread can leave its innermost loop, or a dialog that stops the clock is on its way, unless it is buried (no run) |
| `ScriptLifecycle_proofs` | `TypeCorrect`, `NeverDangling` | `[]TypeOK`, `[]NoDanglingThread` |
| | `RightOneTerminated`, `NobodyLost` | `[]TerminatesTheRightOne`, `[]NoOrphans` |
| | `NobodyForgotten` | `[]CallersRemembered`: a script blocked in its order is in the queue or in a call (no run) |
| `ScriptInf_proofs` | `TypeCorrect`, `FlagsCurrent` | `[]TypeOK`, `[]FlagIsCurrent` |
| | `AnswersOwn`, `OrdersOfWaiters` | `[]AnswerIsOwn`, `[]WaitersHaveOrders` |
| | `GivenUp` | `[]GivenUpIsWithdrawn` |
| | `OnlyTheEmbraceBlocks` | `[]WaitsEnd`: the three kinds of threads never wait in a circle, except in `Embrace` (no run) |
| `ConsoleBuffer_proofs` | `CountersExact` | `[](TypeOK /\ CountersAreSizes)` |
| | `EndKept` | `[]KeepsTheEnd` |
| | `LinesShort`, `StampsNotForgotten` | `[]LinesAreShort`, `[]StampsFollow` |
| `CanFrames_proofs` | `TypeCorrect` | `[]TypeOK` |
| | `WireMessage`, `NoMessageLost` | `[]WireIsMessage`, `[]NothingLost` |
| | `SendMakesProgress` | `[][Progress]_vars`: each step of `sendData` leaves fewer bytes or fewer tries (no run) |
| | `ReceptionGoesOn` | `[]ReadGoesOn`: `m_dataReadyForRead` is not left behind (no run) |

Each of them has `SafeSpec` (in `CanFrames` and `ConsoleBuffer`, `Spec`) on its left. Each step lemma has one case per
action. Helpers on sequences (appending, the tail, the part below the top, updating the top) are lemmas of
their own. The arguments:

**MainInterface.**

1. `TypeOK` is not inductive: the chunk a frame writes must be one of its request's.
   `TypeInv` adds `FramesInRange`.
2. `OnlyConfiguredOpen` and `AnnouncedIsTrue` need each other (which client
   states go with which status); `ConnectionInv` is their conjunction.
3. `NothingReopens` is an action property: once the thread is not running, a connect
   handled inside a waiting send would reopen. `ExitIsLast` says that the exit order is the
   last one in the inbox, so there is none.
4. `SuccessMeansGone` needs that all chunks a waiting send has written are in the
   buffer, on the line or lost (`WrittenIsAccepted`): when the buffer is empty the last two remain. `DeliveryInv` says so
   for every frame of the stack, since the frames share the buffer.
5. `AnswersOnce` needs that a request is in the inbox, on the stack, or answered,
   in one place and once (`RequestsOnce`).
6. `ReadAfterSuccess` needs that a waiting send will fetch what arrives
   (`WaitingWaited`), that the port is muted only then (`BlockedOnlyInSend`), and that a failure is not taken
   back by a second answer (5).
7. `WellNested` speaks of the line, but the order is made in the buffer: `OrderInv` is about
   `line \o pending`. Two messages never alternate; nothing of a waiting send lies
   between two chunks of another message (`NotEnclosed`); a send has sent nothing since the one above it
   began (`InnerLater`); what was sent is answered or on the stack (`SentIsBegun`), so a posted request has
   sent nothing; only an open port has a buffer (`BufferIsOpen`), so a direct send appends at the end.

**CyclicSend.** `TypeInv` adds to `TypeOK` that a run in progress has a send left to report (`CountInRange`), and that each
suspended call that will start a run was made by a press of its own (`StartsPressed`, a count of the calls on the
stack): run numbers are bounded by presses although a start may be suspended below any number of other calls.
`BoundInv` adds that the timer only runs in a run with a pause (`PausedByTimer`), and that the requests are
finitely many. What drives a run is a request, an answer, a suspended call or the timer; a step turns one of them into
another, so that their number grows by a press only. Without a cancel there is one at most, from which `ImplementsRepeat` follows.

**SendHistory.** `SelectionIsSent` is inductive with `TypeOK`; the lemma that matters is that handing over the first message keeps the
concatenation (`SendFirstKeeps`). The others need `WayInv`: the timer's signal is queued once, nothing is under
way without a send in progress until a cancel, and the timer only runs while something is left.

**SequenceScript.** The flag belongs to the thread. Until calls of a kind are nested, there is at most
one waiting loop and one request of it, and the request is with the thread exactly until the flag is set (`KindInv`); so
a call that sees its flag has its request done, and one that times out withdraws it. `DialogsKeepThreads` needs to know where the one dialog
of a thread is: the flag is set from `asks` to `answered`, and between the post and the answer the dialog is posted or on the
stack, once (`DialogInv`). A loop past its look at the flag (`checked`) is the innermost one, and no dialog of its
thread is on the stack (`CheckedInv`): one can only be posted since, and it cannot open before the loop has gone on. So `TimesOut` replaces a thread without a shown dialog.

**ScriptLifecycle.** `LiveInv`: the pointers of the table are to existing threads and no two are the same; a thread has one EXITED at most,
queued while it exists (`ExitedOnce`); a thread in a box is in no row (`BoxInv`). Handlers change the table by removing rows, permuting
them and clearing pointers only, which keeps all that (`Thinner`), or by starting a new thread. `AskedInv`: until rows are disturbed, the
row number a stop remembers names the row it began with, whose pointer can only have been cleared since; `Reachable`: a running
script is in the table, was asked, or is in a box. `CallersInv`: orders are queued or held by a call.

**ScriptInf.** `FlagInv`: every change of `conn` is announced at once or by the box that delays it. `StackInv`: for each
frame, its counters fit its place in the code, and frames below the top handle events (`LocalAll`); a waiting
script, or one terminated while it waited, has one order with the main interface thread, and others have none (`QueueInv`); the thread ends after all
scripts have ended or were terminated (`ExitInv`). `GivenInv`: while orders to connect do not overlap, one script connects and all orders to connect are its own; one
that gave up has the old settings back, its withdrawal names them, and after that was handled no connection exists
or comes.

**CanFrames.** `FrameSize`: `NextLength` yields lengths a DLC expresses exactly, on which `Dlc` and
`DataLength` are inverse. `SendInv`: the frames are contiguous and end where the send stands. `ReadInv`: what was delivered,
what is being delivered and what was read ahead is 1, 2, 3, ..., and the queue holds the rest in order among status
messages.

**ConsoleBuffer.** What is kept is *sound* (`Sound`): an end of what was taken, in order, without gaps, each byte that
asks for a time stamp followed by one, or by nothing but new lines when `stampNext` says that the stamp is to
come. `KeptSound` is the invariant: what is kept is sound, and the whole of what was taken or as long as the
limit. Each thing the code does to the data keeps it: a message is appended piece by piece (`FormattedSound`), an
update only inserts new lines (`SoundInserted`; `Inserted` is an increasing injection), cutting leaves
an end (`SoundCut`), and the end of `fresh` is one of `stored \o fresh` too (`CutOfEnd`), which is why an overflow may
forget what is stored. `AddedIsCounted` shows that the seven increments of the counter add up to the length of what is appended
(`BreaksCounted`, `StampsCounted` count the special bytes of every prefix of a message). Both `KeepsTheEnd` and `StampsFollow` follow. For `LinesAreShort` the invariant is
`ShownShort`: no line shown is too long, and the last one is shorter than `LineBytes` and not longer than
`sinceLine` says (`LineEnds`), which may say more after new lines at a high data rate; `SetUpIsRefilled` excludes hidden consoles. The operators flatten a sequence of pieces, which
the library defines by recursion over it. `FlattenPrefixes` and `ColumnsDef` show that such functions exist
and have the values of their prefixes; statements about all prefixes follow by an induction (`Induction`) that speaks of a *set* of
numbers instead of a predicate, and so takes no operator as a parameter: a set that lacks one lacks a smallest one.

**Why waits end.** Fairness and `ENABLED` are out of the prover's reach, so that the liveness properties
(`AnswersEveryRequest`, `ButtonsComeBack`, `ProgramCloses`, `HistorySendEnds`, `StopsEnd`, `CallsReturn` of two modules,
`EveryCallEnds`, `CloseEnds`, `AllRead`) are only model-checked. What can be proved of them is that nobody waits for something that
is not to come: the safety part, without which no fairness helps.

| Liveness property | Theorem | What it leaves to fairness |
|---|---|---|
| `AnswersEveryRequest` | `NoRequestForgotten` | the thread handles its inbox, and the innermost send ends |
| `ButtonsComeBack` | `ButtonsOffOnlyConnecting` | Qt reports the end of an attempt |
| `ProgramCloses` | `OnlySuspendedBlocks` | the timer fires, requests are answered, and the run gets shorter |
| `HistorySendEnds` | `FlagStaysOnlyUnreported` | the same for the history |
| `StopsEnd`, `CallsReturn` | `NobodyForgotten` | scripts end when asked, or the loop's limit is reached |
| `EveryCallEnds` | `OnlyBuriedBlocks` | time passes, and dialogs are closed |
| `CallsReturn`, `CloseEnds` | `OnlyTheEmbraceBlocks` | the threads handle their queues, and waits time out |
| `AllRead` | `ReceptionGoesOn` | the polling timer fires |

They need more than the invariants above. For `OnlySuspendedBlocks`, where a close and a next-message script lie on the stack (`CloseInv`), and that
a run is driven (`RunIsDriven`). For `OnlyBuriedBlocks`, that a flag is only set while its dialog is asked for, posted, shown or answered
(`DialogInv`). For `OnlyTheEmbraceBlocks`, that the scripts are told to exit before the GUI thread waits for them, and
the exit order stays in the queue until the main interface thread takes it (`ClosingInv`). For `FlagStaysOnlyUnreported`, none of them: `FlagOrLost` is inductive with `TypeOK`, and says that `unreported`, a send whose failure
`DataHasBeenSendSlot` is never told of, is the only way to leave the flag up. `Progress` is the measure that makes `sendData` end.

Every safety and action property of a passing run is a theorem. The type invariants are proved too, and in no run.

## 7. Plan

Done: `SendService`, `MainInterface`, `RepeatSend`, `CyclicSend`, `SendHistory`, `SequenceScript`, `ScriptLifecycle`, `ScriptInf` (with
the shutdown), `ConsoleBuffer`, `CanFrames`, and the proofs above.

Left, in order of importance:

1. Composition of the GUI's senders with `MainInterface` instead of its promise, and of the three stages of `closeEvent`.
2. The loop over the TCP server's sockets in `sendDataWithTheMainInterface`, inside which a socket is removed.
3. The byte counters: unsigned, with meta data subtracted, and written by two threads.
4. Pausing and the debugger, in `ScriptLifecycle` and `ScriptInf`.
5. Meta data of CAN and I2C messages in `ConsoleBuffer`; log files.
6. The Aardvark adapter's own code, `Crc` against its bitwise definition.

## 8. Not modelled

Settings dialog, tabs, plots, script editor, script API wrappers, `sce` files and
`main.cpp` are widgets and sequential I/O. CRC is sequential and fully testable. QScintilla, esprima, qcustomplot, quazip, zlib,
the adapter drivers and `DeleteFolder` are vendored: they are by far most of the lines under `src/`, so that the
models stand for a small share of all lines, although for most of the code in which threads wait for each
other. What is left out of the modelled parts is said in section 2, and in `PROJECT.json` for each component.

Four hazards in `PROJECT.json` have no property: the socket removed in the loop over the server's sockets, the byte
counters (two), and the answer to a script terminated in its call, which the model ends in (`deadCaller`).

## 9. Running

```
tlc -config MainInterface_safety.cfg MCMainInterface.tla
tlapm MainInterface_proofs.tla
```

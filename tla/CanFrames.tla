----------------------------- MODULE CanFrames -----------------------------
(***************************************************************************)
(* The PCAN adapter (pcan/PCANBasicClass.cpp) in the main interface        *)
(* thread: a message to be sent is split into frames, whose sizes a DLC    *)
(* can express; received messages are read by a timer and in a loop.       *)
(*                                                                         *)
(* The bytes of a message are 1..n, without the five bytes of meta data; a *)
(* frame is the interval of bytes it carries.  What the driver answers is  *)
(* its free choice.  Left out: ids, time stamps, the filter and the text   *)
(* of the bus status.                                                      *)
(***************************************************************************)
EXTENDS Integers, Sequences, SequencesExt, FiniteSetsExt

CONSTANTS
    Lengths,       \* bound: sizes of messages
    MaxSendError,  \* MAX_SEND_ERROR
    MaxArrivals    \* bound: messages received while the interface is open

\* A message too short to hold type and id
TooShort == -1

ASSUME CanAssumption ==
    /\ Lengths \subseteq Nat \cup {TooShort}
    /\ MaxSendError \in Nat \ {0} /\ MaxArrivals \in Nat

NoSend == [fd |-> FALSE, length |-> TooShort, at |-> 0, errors |-> 0]

\* In the driver's queue: a status message; messages are numbered.
Status == 0
None == -1

VARIABLES
    handle,     \* m_currentHandle # PCAN_NONEBUS
    canFd,      \* m_isCanFdInterface
    sendData,   \* "idle", "writing", "restarting", or how it ended: "ok", "failed"
    send,       \* what sendData works on
    frames,     \* frames written
    queue,      \* received by the driver, not yet read
    last,       \* m_lastReadMessage, None if its ID is 0xffffffff
    ready,      \* m_dataReadyForRead
    reading,    \* in pcanReceivedDataSlot
    messages,   \* ... its messages
    delivered,  \* canMessagesReceivedSignal since the interface was opened
    arrived     \* number of messages the driver received since then

sendVars == <<sendData, send, frames>>
readVars == <<queue, last, ready, reading, messages, delivered, arrived>>
vars == <<handle, canFd, sendVars, readVars>>

Init ==
    /\ handle = FALSE /\ canFd = FALSE
    /\ sendData = "idle" /\ send = NoSend /\ frames = <<>>
    /\ queue = <<>> /\ last = None /\ ready = FALSE
    /\ reading = FALSE /\ messages = <<>>
    /\ delivered = <<>> /\ arrived = 0

\* The thread is in its event loop: sending blocks it, and so does reading.
InEventLoop == sendData = "idle" /\ ~reading
-----------------------------------------------------------------------------
(***************************************************************************)
(* open and close.                                                         *)
(***************************************************************************)
\* Messages that are already there are discarded.
Fresh ==
    /\ queue' = <<>> /\ ready' = FALSE
    /\ delivered' = <<>> /\ arrived' = 0
    /\ UNCHANGED <<last, reading, messages>>

Open ==
    /\ InEventLoop /\ ~handle
    /\ canFd' \in BOOLEAN
    /\ handle' = TRUE
    /\ Fresh
    /\ UNCHANGED sendVars

Close ==
    /\ InEventLoop /\ handle
    /\ handle' = FALSE
    /\ UNCHANGED <<canFd, sendVars, readVars>>
-----------------------------------------------------------------------------
(***************************************************************************)
(* sendData.                                                               *)
(***************************************************************************)
\* Data lengths of CAN-FD frames from 8 bytes on.
FdLengths == <<8, 12, 16, 20, 24, 32, 48, 64>>

BytesPerFrame(fd) == IF fd THEN 64 ELSE 8

Smaller(a, b) == IF a < b THEN a ELSE b

\* Lengths strictly between two of FdLengths are adjusted to the lower one.
Between(n) == {k \in 1..7 : FdLengths[k] < n /\ n < FdLengths[k + 1]}

Adjusted(n) ==
    IF Between(n) = {} THEN n ELSE FdLengths[CHOOSE k \in Between(n) : TRUE]

\* The bytes of the next frame, of left ones.
NextLength(fd, left) ==
    LET n == Smaller(left, BytesPerFrame(fd)) IN IF fd THEN Adjusted(n) ELSE n

\* Mutant of Dlc: the next lower one.
DlcRoundedDown(n) ==
    IF n <= 8 THEN n ELSE IF ~canFd THEN 8 ELSE 7 + Max({k \in 1..8 : FdLengths[k] < n})

\* dataLengthToDlc
Dlc(n) ==
    IF n <= 8 THEN n ELSE IF ~canFd THEN 8 ELSE 7 + Min({k \in 1..8 : n <= FdLengths[k]})

\* dlcToDataLength
DataLength(dlc) ==
    IF dlc <= 8 THEN dlc ELSE IF ~canFd THEN 8 ELSE FdLengths[dlc - 7]

Send(fd, n) ==
    /\ InEventLoop /\ handle
    /\ sendData' = IF n = TooShort THEN "restarting" ELSE "writing"
    /\ send' = [fd |-> fd, length |-> n, at |-> 0, errors |-> 0]
    /\ frames' = <<>>
    /\ UNCHANGED <<handle, canFd, readVars>>

Left == send.length - send.at

\* Mutant of Advance: by the full size of a frame.
AdvanceByFull(n) == Smaller(send.length, send.at + BytesPerFrame(send.fd))

Advance(n) == send.at + n

\* The driver takes the frame.  An empty message is one empty frame.
Written ==
    /\ sendData = "writing"
    /\ LET n == NextLength(send.fd, Left) IN
       /\ frames' = Append(frames,
                           [first |-> send.at + 1, last |-> send.at + n, dlc |-> Dlc(n)])
       /\ send' = [send EXCEPT !.at = Advance(n), !.errors = 0]
       /\ sendData' = IF send'.at = send.length THEN "ok" ELSE "writing"
    /\ UNCHANGED <<handle, canFd, readVars>>

\* errorCounter
Count == send.errors + 1

\* The driver's queue is full, sendData waits a millisecond.  Empty messages are
\* not tried again.
QueueIsFull ==
    /\ sendData = "writing"
    /\ IF send.length > 0 /\ Count < MaxSendError
       THEN send' = [send EXCEPT !.errors = Count] /\ UNCHANGED sendData
       ELSE sendData' = "restarting" /\ UNCHANGED send
    /\ UNCHANGED <<handle, canFd, frames, readVars>>

WriteFails ==
    /\ sendData = "writing"
    /\ sendData' = "restarting"
    /\ UNCHANGED <<handle, canFd, send, frames, readVars>>

\* After a failed sendData the main interface thread opens the interface again.
Restart ==
    /\ sendData = "restarting"
    /\ sendData' = "failed"
    /\ \/ handle' = TRUE /\ Fresh
       \/ handle' = FALSE /\ UNCHANGED readVars
    /\ UNCHANGED <<canFd, send, frames>>

Return ==
    /\ sendData \in {"ok", "failed"}
    /\ sendData' = "idle" /\ send' = NoSend /\ frames' = <<>>
    /\ UNCHANGED <<handle, canFd, readVars>>
-----------------------------------------------------------------------------
(***************************************************************************)
(* Reception.                                                              *)
(***************************************************************************)
\* The driver receives a message, or has something to say.
Arrive ==
    /\ handle /\ arrived < MaxArrivals
    /\ arrived' = arrived + 1 /\ queue' = Append(queue, arrived')
    /\ UNCHANGED <<handle, canFd, sendVars, last, ready, reading, messages, delivered>>

ArriveStatus ==
    /\ handle /\ Status \notin ToSet(queue)
    /\ queue' = Append(queue, Status)
    /\ UNCHANGED <<handle, canFd, sendVars, last, ready, reading, messages, delivered,
                   arrived>>

\* receiveTimerSlot: readyRead calls pcanReceivedDataSlot.
ReceiveTimer ==
    /\ InEventLoop /\ handle /\ ~ready /\ queue # <<>>
    /\ queue' = Tail(queue)
    /\ IF Head(queue) # Status
       THEN last' = Head(queue) /\ ready' = TRUE /\ reading' = TRUE
       ELSE last' = None /\ UNCHANGED <<ready, reading>>
    /\ UNCHANGED <<handle, canFd, sendVars, messages, delivered, arrived>>

\* Another error than an empty queue is taken for a message, which is then not
\* there.
ReceiveFails ==
    /\ InEventLoop /\ handle /\ ~ready
    /\ ready' = TRUE /\ reading' = TRUE
    /\ UNCHANGED <<handle, canFd, sendVars, queue, last, messages, delivered, arrived>>

\* Mutant of MarkRead: the timer waits for ever.
StaysReady == UNCHANGED ready

MarkRead == ready' = FALSE

\* Mutant of ForgetLast: it is read again.
KeepLast == UNCHANGED last

ForgetLast == last' = None

\* readLastMessage in the loop of pcanReceivedDataSlot: the message the timer
\* has read, ...
ReadLast ==
    /\ reading /\ last # None /\ Len(messages) <= MaxArrivals   \* bound
    /\ MarkRead
    /\ messages' = Append(messages, last) /\ ForgetLast
    /\ UNCHANGED <<handle, canFd, sendVars, queue, reading, delivered, arrived>>

\* ... further messages, ...
ReadNext ==
    /\ reading /\ last = None
    /\ queue # <<>> /\ Head(queue) # Status
    /\ MarkRead
    /\ messages' = Append(messages, Head(queue)) /\ queue' = Tail(queue)
    /\ UNCHANGED <<handle, canFd, sendVars, last, reading, delivered, arrived>>

\* ... until there is none, or reading fails.
ReadNothing ==
    /\ reading /\ last = None
    /\ MarkRead
    /\ \/ queue # <<>> /\ Head(queue) = Status /\ queue' = Tail(queue)
       \/ UNCHANGED queue
    /\ reading' = FALSE
    /\ delivered' = delivered \o messages /\ messages' = <<>>
    /\ UNCHANGED <<handle, canFd, sendVars, last, arrived>>

Next ==
    \/ Open \/ Close
    \/ \E fd \in BOOLEAN, n \in Lengths : Send(fd, n)
    \/ Written \/ QueueIsFull \/ WriteFails \/ Restart \/ Return
    \/ Arrive \/ ArriveStatus
    \/ ReceiveTimer \/ ReceiveFails \/ ReadLast \/ ReadNext \/ ReadNothing

\* The driver's functions return (it need not ever take a frame), and do not fail
\* for ever.  The event loop gets to an expired timer however many messages there
\* are to be sent.
Spec ==
    /\ Init /\ [][Next]_vars
    /\ WF_vars(Written \/ QueueIsFull \/ WriteFails) /\ WF_vars(Restart \/ Return)
    /\ SF_vars(ReceiveTimer) /\ WF_vars(ReadLast \/ ReadNext \/ ReadNothing)
-----------------------------------------------------------------------------
Sends ==
    [fd : BOOLEAN, length : Lengths \cup {TooShort}, at : Nat, errors : 0..MaxSendError]
Frames == [first : Nat, last : Nat, dlc : 0..15]

TypeOK ==
    /\ handle \in BOOLEAN /\ canFd \in BOOLEAN
    /\ sendData \in {"idle", "writing", "restarting", "ok", "failed"}
    /\ send \in Sends /\ frames \in Seq(Frames)
    /\ queue \in Seq(0..MaxArrivals) /\ last \in {None} \cup 1..MaxArrivals
    /\ ready \in BOOLEAN /\ reading \in BOOLEAN
    /\ messages \in Seq(1..MaxArrivals) /\ delivered \in Seq(1..MaxArrivals)
    /\ arrived \in 0..MaxArrivals

\* CAN-FD messages over a classic interface lose bytes.
Fits == send.fd => canFd

(***************************************************************************)
(* What the other side receives, the number of bytes each DLC says, is the *)
(* message: no byte is left out, repeated or added to fill up a frame,     *)
(* whatever the length, and all of it when sendData reports success.       *)
(***************************************************************************)
WireIsMessage ==
    Fits =>
        /\ \A i \in 1..Len(frames) :
            /\ frames[i].first = (IF i = 1 THEN 1 ELSE frames[i - 1].last + 1)
            /\ DataLength(frames[i].dlc) = frames[i].last - frames[i].first + 1
        /\ sendData = "ok" => frames # <<>> /\ Last(frames).last = send.length

\* What has been read, the message read ahead included.
Received == delivered \o messages \o IF last = None THEN <<>> ELSE <<last>>

(***************************************************************************)
(* Between the timer, which reads one message ahead, and the loop that     *)
(* reads the others, no message is lost, delivered twice or overtaken,     *)
(* also when status messages end the loop.                                 *)
(***************************************************************************)
NothingLost ==
    /\ \A i \in 1..Len(Received) : Received[i] = i
    /\ \A m \in 1..arrived : m > Len(Received) => \E i \in 1..Len(queue) : queue[i] = m
    /\ \A i, j \in 1..Len(queue) :
        i < j /\ queue[i] # Status /\ queue[j] # Status => queue[i] < queue[j]
    /\ \A i \in 1..Len(queue) : queue[i] # Status => Len(Received) < queue[i]

(***************************************************************************)
(* Reception does not get stuck, with sends that block the thread and a    *)
(* bus that takes no frame: what the driver has is read, unless the        *)
(* interface is closed.                                                    *)
(***************************************************************************)
AllRead == \A m \in 1..MaxArrivals : m \in ToSet(queue) ~> m \notin ToSet(queue) \/ ~handle
=============================================================================

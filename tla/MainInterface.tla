--------------------------- MODULE MainInterface ---------------------------
(***************************************************************************)
(* The main interface thread (mainInterfaceThread.cpp): one event loop     *)
(* that owns the serial port, the TCP client socket, the TCP server and    *)
(* its sockets, the UDP socket and the Aardvark and PCAN devices, and      *)
(* through which the GUI and every script send, connect and disconnect.    *)
(*                                                                         *)
(* Orders arrive as posted events (inbox).  A send over the serial port    *)
(* waits for its bytes by running the event loop again                     *)
(* (QCoreApplication::processEvents), so further orders are handled        *)
(* INSIDE it: stack holds the activation records of the sends that wait.   *)
(*                                                                         *)
(* Data is abstracted: a request is a number of chunks (512 bytes for the  *)
(* serial port); the byte counters and received data other than the serial *)
(* port's are left out.                                                    *)
(***************************************************************************)
EXTENDS Naturals, Sequences, FiniteSets

CONSTANTS
    Requests,     \* the send requests
    Chunks,       \* Chunks[r]: how many chunks the data of request r has
    Types,        \* the connection types the settings may name
    Peers,        \* external TCP clients of the internal TCP server
    MaxConnects   \* bound: connect/disconnect orders posted in a behaviour

AllTypes == {"serial", "tcpClient", "tcpServer", "udp", "aardvark", "pcan"}

ASSUME MainAssumption ==
    /\ Chunks \in [Requests -> Nat]
    /\ Types \subseteq AllTypes
    /\ Types # {}
    /\ MaxConnects \in Nat

VARIABLES
    \* the members of MainInterfaceThread
    ctype,        \* m_currentGlobalSettings.connectionType
    connected,    \* m_isConnected
    running,      \* the event loop has not been told to exit (~m_exit)
    \* the handles it owns
    open,         \* open serial port, listening server, bound UDP socket, open device
    client,       \* state of m_tcpClientSocket
    peers,        \* m_tcpServerSockets
    blocked,      \* m_serial->signalsBlocked()
    pending,      \* bytes in the serial port's write buffer, as chunks
    rx,           \* m_serial->bytesAvailable() # 0
    \* the events and the calls in progress
    inbox,        \* posted events not yet handled
    stack,        \* sends waiting in sendDataWithTheMainInterface, innermost last
    \* what the rest of the program has been told
    status,       \* the last dataConnectionStatusSignal
    buttons,      \* the last setConnectionButtonsSignal
    outcome,      \* sendingFinishedSignal(success, id) of each request
    \* what happened, for the properties
    submitted,    \* requests posted so far
    connects,     \* connect orders posted so far
    line,         \* the chunks that left the program, in order (not those that a
                  \* failed send over another interface wrote before it failed)
    lost          \* chunks dropped because the port was closed under them

handles == <<open, client, peers>>
serialPort == <<blocked, pending, rx>>
told == <<status, buttons>>
posted == <<submitted, connects>>
vars == <<ctype, connected, running, open, client, peers, blocked, pending, rx, inbox,
          stack, status, buttons, outcome, submitted, connects, line, lost>>
-----------------------------------------------------------------------------
SendOrder(r) == [kind |-> "send", req |-> r]
ConnectOrder(t, on) == [kind |-> "connect", type |-> t, on |-> on]
ExitOrder == [kind |-> "exit"]

Orders ==
    {SendOrder(r) : r \in Requests}
        \cup {ConnectOrder(t, on) : t \in Types, on \in BOOLEAN} \cup {ExitOrder}

Chunk(r, i) == [req |-> r, nr |-> i]
ChunksOf(r) == [i \in 1..Chunks[r] |-> Chunk(r, i)]
AllChunks == UNION {{Chunk(r, i) : i \in 1..Chunks[r]} : r \in Requests}

\* nr: chunk the loop is at; waiting: inside the processEvents loop;
\* waited: *serialPortSignalBlocked.
Frames == [req : Requests, nr : Nat, waiting : BOOLEAN, waited : BOOLEAN]

NewFrame(r) == [req |-> r, nr |-> 1, waiting |-> FALSE, waited |-> FALSE]

Top == stack[Len(stack)]
Below == SubSeq(stack, 1, Len(stack) - 1)

\* Mutant of WithTop: a send that waits lets the next one continue.
RoundRobin(f) == <<f>> \o Below

WithTop(f) == [stack EXCEPT ![Len(stack)] = f]

\* The thread handles events in its own loop, or in the loop of a waiting send.
Dispatching == IF stack = <<>> THEN running ELSE Top.waiting

Status(up, waiting) == [up |-> up, waiting |-> waiting]
Down == Status(FALSE, FALSE)

InSeq(s) == {s[i] : i \in 1..Len(s)}
-----------------------------------------------------------------------------
Init ==
    /\ ctype \in Types
    /\ connected = FALSE /\ running = TRUE
    /\ open = {} /\ client = "idle" /\ peers = <<>>
    /\ blocked = FALSE /\ pending = <<>> /\ rx = FALSE
    /\ inbox = <<>> /\ stack = <<>>
    /\ status = Down /\ buttons = TRUE
    /\ outcome = [r \in Requests |-> "none"]
    /\ submitted = {} /\ connects = 0
    /\ line = <<>> /\ lost = {}

(***************************************************************************)
(* Orders posted by the GUI (queued) and by scripts (blocking queued).     *)
(***************************************************************************)
Post(order) == inbox' = Append(inbox, order)

PostSend(r) ==
    /\ r \notin submitted
    /\ ExitOrder \notin InSeq(inbox) /\ running
    /\ submitted' = submitted \cup {r}
    /\ Post(SendOrder(r))
    /\ UNCHANGED <<ctype, connected, running, handles, serialPort, stack, told, outcome,
                   connects, line, lost>>

PostConnect(t, on) ==
    /\ connects < MaxConnects
    /\ ExitOrder \notin InSeq(inbox) /\ running
    /\ connects' = connects + 1
    /\ Post(ConnectOrder(t, on))
    /\ UNCHANGED <<ctype, connected, running, handles, serialPort, stack, told, outcome,
                   submitted, line, lost>>

\* MainWindow::closeEvent: the last order the thread gets.
PostExit ==
    /\ ExitOrder \notin InSeq(inbox) /\ running
    /\ Post(ExitOrder)
    /\ UNCHANGED <<ctype, connected, running, handles, serialPort, stack, told, outcome,
                   posted, line, lost>>
-----------------------------------------------------------------------------
(***************************************************************************)
(* connectDataConnectionSlot(settings, shallConnect): closes every handle, *)
(* then opens the configured one.  Called for an order, and from the       *)
(* handlers of lost connections.                                           *)
(***************************************************************************)

\* Mutant of ClosedClient: the client socket is not closed.
ClientKeptUp == client

\* m_tcpClientSocket->close(): a socket that is still connecting only
\* remembers the wish and reports connected or an error later (Qt).
ClosedClient == IF client \in {"connecting", "closing"} THEN "closing" ELSE "idle"

\* m_serial->close(): what is in the write buffer is discarded.
CloseSerial ==
    /\ pending' = <<>> /\ rx' = FALSE
    /\ lost' = lost \cup InSeq(pending)

\* Mutants of Disconnected: nobody is told; the devices are not closed.
DisconnectedQuietly ==
    /\ open' = {} /\ client' = ClosedClient
    /\ connected' = FALSE
    /\ UNCHANGED told

DisconnectedKeepsHandles ==
    /\ client' = ClosedClient
    /\ connected' = FALSE /\ status' = Down
    /\ UNCHANGED <<open, buttons>>

Disconnected ==
    /\ open' = {} /\ client' = ClosedClient
    /\ connected' = FALSE /\ status' = Down
    /\ UNCHANGED buttons

\* Serial port, Aardvark and PCAN: opening and configuring succeeds or not.
OpenDevice(t) ==
    \E ok \in BOOLEAN :
        /\ open' = IF ok THEN {t} ELSE {}
        /\ connected' = ok /\ status' = Status(ok, FALSE)
        /\ client' = ClosedClient
        /\ UNCHANGED buttons

\* connectToHost on a socket that is still connecting reports an error at
\* once, which tcpClientSocketErrorSlot answers by disconnecting.
OpenTcpClient ==
    /\ open' = {} /\ connected' = FALSE /\ status' = Down
    /\ client' = IF ClosedClient = "closing" THEN "closing" ELSE "connecting"
    /\ buttons' = (ClosedClient = "closing")

OpenTcpServer ==
    \E ok \in BOOLEAN :
        /\ open' = IF ok THEN {"tcpServer"} ELSE {}
        /\ connected' = FALSE /\ status' = Status(FALSE, ok)
        /\ client' = ClosedClient
        /\ UNCHANGED buttons

\* m_isConnected is set before bind and stays set when bind fails.
OpenUdp ==
    \E ok \in BOOLEAN :
        /\ open' = IF ok THEN {"udp"} ELSE {}
        /\ connected' = TRUE /\ status' = Status(ok, FALSE)
        /\ client' = ClosedClient
        /\ UNCHANGED buttons

ConnectSlot(t, on) ==
    /\ ctype' = t
    /\ peers' = <<>>
    /\ CloseSerial
    /\ \/ ~on /\ Disconnected
       \/ on /\ t \in {"serial", "aardvark", "pcan"} /\ OpenDevice(t)
       \/ on /\ t = "tcpClient" /\ OpenTcpClient
       \/ on /\ t = "tcpServer" /\ OpenTcpServer
       \/ on /\ t = "udp" /\ OpenUdp

HandleConnect ==
    /\ Dispatching /\ inbox # <<>> /\ Head(inbox).kind = "connect"
    /\ ConnectSlot(Head(inbox).type, Head(inbox).on)
    /\ inbox' = Tail(inbox)
    /\ UNCHANGED <<running, blocked, stack, outcome, posted, line>>

\* exitThreadSlot: closes the sockets and the port, leaves m_isConnected and
\* the Aardvark and PCAN devices alone.  Closing the connected client runs
\* tcpClientSocketOnDisconnectedSlot.
HandleExit ==
    /\ Dispatching /\ inbox # <<>> /\ Head(inbox).kind = "exit"
    /\ status' = Down
    /\ open' = open \cap {"aardvark", "pcan"}
    /\ connected' = (connected /\ client # "up")
    /\ client' = ClosedClient
    /\ CloseSerial
    /\ running' = FALSE
    /\ inbox' = Tail(inbox)
    /\ UNCHANGED <<ctype, peers, blocked, stack, buttons, outcome, posted, line>>
-----------------------------------------------------------------------------
(***************************************************************************)
(* sendDataSlot and sendDataWithTheMainInterface.                          *)
(***************************************************************************)
\* Mutant of Answer: only success is answered.
AnswerSuccess(r, o) == outcome' = [outcome EXCEPT ![r] = IF o = "ok" THEN o ELSE @]

Answer(r, o) == outcome' = [outcome EXCEPT ![r] = o]

\* Mutant of SendAtHead: the order stays posted.
SendKept(r) ==
    /\ Dispatching /\ inbox # <<>> /\ Head(inbox) = SendOrder(r)
    /\ UNCHANGED inbox

SendAtHead(r) ==
    /\ Dispatching /\ inbox # <<>> /\ Head(inbox) = SendOrder(r)
    /\ inbox' = Tail(inbox)

\* No data, or no connection.
RejectSend(r) ==
    /\ SendAtHead(r)
    /\ Chunks[r] = 0 \/ ~connected
    /\ Answer(r, "failed")
    /\ UNCHANGED <<ctype, connected, running, handles, serialPort, stack, told, posted,
                   line, lost>>

StartSerialSend(r) ==
    /\ SendAtHead(r)
    /\ Chunks[r] > 0 /\ connected /\ ctype = "serial"
    /\ stack' = Append(stack, NewFrame(r))
    /\ UNCHANGED <<ctype, connected, running, handles, serialPort, told, outcome, posted,
                   line, lost>>

\* The other interfaces write without running the event loop.
Written(r) == line' = line \o ChunksOf(r)

DirectSend(r) ==
    /\ SendAtHead(r)
    /\ Chunks[r] > 0 /\ connected /\ ctype # "serial"
    /\ \E ok \in BOOLEAN :
        /\ Answer(r, IF ok THEN "ok" ELSE "failed")
        /\ IF ok THEN Written(r) ELSE UNCHANGED line
        \* a PCAN error closes and reopens the interface
        /\ IF ~ok /\ ctype = "pcan"
           THEN ConnectSlot(ctype, TRUE)
           ELSE UNCHANGED <<ctype, connected, handles, pending, rx, lost, told>>
    /\ UNCHANGED <<running, blocked, stack, posted>>

\* Mutant of Return: the suppressed readyRead is not made up for.
ReturnUnread(o) ==
    /\ stack' = Below
    /\ Answer(Top.req, o)
    /\ UNCHANGED rx

\* sendDataSlot after the send: the answer, and on success the bytes whose
\* readyRead was suppressed are fetched (serialPortReceivedDataSlot).
Return(o) ==
    /\ stack' = Below
    /\ Answer(Top.req, o)
    /\ rx' = (rx /\ ~(o = "ok" /\ Top.waited))

\* Mutant of Unblock: a send that timed out leaves the port muted.
UnblockWhenDrained == blocked' = (pending # <<>>)

\* m_serial->blockSignals(false) after the wait, however it ended.
Unblock == blocked' = FALSE

\* Mutant of Drained: one chunk too early.
DrainedButOne == Len(pending) <= 1

\* m_serial->bytesToWrite() = 0: also true of a port that was closed meanwhile.
Drained == pending = <<>>

\* m_serial->write(chunk): accepted, and the port's signals are blocked while
\* the loop waits; or refused, which ends the send.
WriteChunk ==
    /\ stack # <<>> /\ ~Top.waiting
    /\ \/ /\ "serial" \in open
          /\ pending' = Append(pending, Chunk(Top.req, Top.nr))
          /\ blocked' = TRUE
          /\ stack' = WithTop([Top EXCEPT !.waiting = TRUE, !.waited = TRUE])
          /\ UNCHANGED <<outcome, rx>>
       \/ /\ Return("failed")
          /\ UNCHANGED <<pending, blocked>>
    /\ UNCHANGED <<ctype, connected, running, handles, inbox, told, posted, line, lost>>

\* The loop ends when the write buffer is empty, or SEND_TIMEOUT has passed.
EndWait ==
    /\ stack # <<>> /\ Top.waiting
    /\ Unblock
    /\ \/ /\ Drained
          /\ IF Top.nr = Chunks[Top.req]
             THEN Return("ok")
             ELSE /\ stack' = WithTop([Top EXCEPT !.nr = @ + 1, !.waiting = FALSE])
                  /\ UNCHANGED <<outcome, rx>>
       \/ Return("failed")
    /\ UNCHANGED <<ctype, connected, running, handles, pending, inbox, told, posted, line,
                   lost>>
-----------------------------------------------------------------------------
(***************************************************************************)
(* Events of the operating system and of the network.                      *)
(***************************************************************************)

\* The driver takes the next chunk out of the write buffer.
SerialDrains ==
    /\ Dispatching /\ pending # <<>>
    /\ line' = Append(line, Head(pending))
    /\ pending' = Tail(pending)
    /\ UNCHANGED <<ctype, connected, running, handles, blocked, rx, inbox, stack, told,
                   outcome, posted, lost>>

\* Bytes arrive: readyRead runs serialPortReceivedDataSlot, which reads all
\* there is, unless the port's signals are blocked.
SerialReceives ==
    /\ Dispatching /\ "serial" \in open
    /\ rx' = blocked
    /\ UNCHANGED <<ctype, connected, running, handles, blocked, pending, inbox, stack, told,
                   outcome, posted, line, lost>>

\* Mutant of EnableButtons: not for an attempt that was given up.
EnableUnlessStale == buttons' = (buttons \/ client = "connecting")

EnableButtons == buttons' = TRUE

\* tcpClientSocketOnConnectedSlot; a socket that was closed while connecting
\* disconnects again at once (tcpClientSocketOnDisconnectedSlot).
ClientConnected ==
    /\ Dispatching /\ client \in {"connecting", "closing"}
    /\ client' = IF client = "connecting" THEN "up" ELSE "idle"
    /\ connected' = (client = "connecting")
    /\ status' = Status(client = "connecting", FALSE)
    /\ EnableButtons
    /\ UNCHANGED <<ctype, running, open, peers, serialPort, inbox, stack, outcome, posted,
                   line, lost>>

\* tcpClientSocketErrorSlot: refused, not found, or closed by the server.
ClientError ==
    /\ Dispatching /\ client # "idle"
    /\ ctype' = ctype
    /\ peers' = <<>>
    /\ CloseSerial
    /\ open' = {} /\ client' = "idle"
    /\ connected' = FALSE /\ status' = Down
    /\ EnableButtons
    /\ UNCHANGED <<running, blocked, inbox, stack, outcome, posted, line>>

\* tcpServerOnNewConnectionSlot
PeerConnects(p) ==
    /\ Dispatching /\ "tcpServer" \in open
    /\ p \notin InSeq(peers)
    /\ peers' = Append(peers, p)
    /\ connected' = TRUE /\ status' = Status(TRUE, FALSE)
    /\ UNCHANGED <<ctype, running, open, client, serialPort, inbox, stack, buttons, outcome,
                   posted, line, lost>>

\* Mutant of PeersHeard: exitThreadSlot does not block the sockets' signals.
PeersHeardAlways == TRUE

\* exitThreadSlot blocks the signals of the sockets it closes.
PeersHeard == running

PeersWithout(i) == SubSeq(peers, 1, i - 1) \o SubSeq(peers, i + 1, Len(peers))

\* tcpServerSocketOnDisconnectedSlot: the last one gone, the server listens anew.
PeerDisconnects(i) ==
    /\ Dispatching /\ PeersHeard
    /\ IF Len(peers) = 1
       THEN ConnectSlot(ctype, TRUE)
       ELSE /\ peers' = PeersWithout(i)
            /\ connected' = FALSE /\ status' = Status(TRUE, FALSE)
            /\ UNCHANGED <<ctype, open, client, pending, rx, lost, buttons>>
    /\ UNCHANGED <<running, blocked, inbox, stack, outcome, posted, line>>
-----------------------------------------------------------------------------
Finished ==
    /\ ~running /\ stack = <<>>
    /\ UNCHANGED vars

HandleSend(r) == RejectSend(r) \/ StartSerialSend(r) \/ DirectSend(r)

Next ==
    \/ \E r \in Requests : PostSend(r) \/ HandleSend(r)
    \/ \E t \in Types, on \in BOOLEAN : PostConnect(t, on)
    \/ PostExit \/ HandleConnect \/ HandleExit
    \/ WriteChunk \/ EndWait
    \/ SerialDrains \/ SerialReceives
    \/ ClientConnected \/ ClientError
    \/ \E p \in Peers : PeerConnects(p)
    \/ \E i \in 1..Len(peers) : PeerDisconnects(i)
    \/ Finished

SafeSpec == Init /\ [][Next]_vars

\* The event loop runs, a waiting send looks at its buffer and its clock again
\* and again, and a TCP connection attempt ends (Qt gives up after 30 s).
Fairness ==
    /\ WF_vars(HandleConnect \/ HandleExit \/ \E r \in Requests : HandleSend(r))
    /\ WF_vars(WriteChunk)
    /\ WF_vars(EndWait)
    /\ WF_vars(ClientConnected \/ (client # "up" /\ ClientError))

Spec == SafeSpec /\ Fairness
-----------------------------------------------------------------------------
MembersOK ==
    /\ ctype \in Types
    /\ connected \in BOOLEAN /\ running \in BOOLEAN
    /\ open \in SUBSET Types
    /\ client \in {"idle", "connecting", "closing", "up"}
    /\ blocked \in BOOLEAN /\ rx \in BOOLEAN
    /\ status \in [up : BOOLEAN, waiting : BOOLEAN]
    /\ buttons \in BOOLEAN

QueuesOK ==
    /\ peers \in Seq(Peers)
    /\ pending \in Seq(AllChunks)
    /\ inbox \in Seq(Orders)
    /\ stack \in Seq(Frames)

HistoryOK ==
    /\ outcome \in [Requests -> {"none", "ok", "failed"}]
    /\ submitted \in SUBSET Requests
    /\ connects \in Nat
    /\ line \in Seq(AllChunks)
    /\ lost \in SUBSET AllChunks

TypeOK == MembersOK /\ QueuesOK /\ HistoryOK

(***************************************************************************)
(* At most one interface is open, the one the current settings name: every *)
(* order, lost connection and failed open leaves no second handle behind,  *)
(* also when it is handled inside a waiting send.  (A TCP client socket    *)
(* that was closed while connecting may still be waiting for Qt.)          *)
(***************************************************************************)
OnlyConfiguredOpen ==
    /\ open \subseteq {ctype}
    /\ client \in {"connecting", "up"} => ctype = "tcpClient"
    /\ peers # <<>> => ctype = "tcpServer"

(***************************************************************************)
(* The serial port's signals are blocked only while some send waits:       *)
(* however sends nest, time out, or lose their port, an idle thread never  *)
(* sits on a muted port (reception would be dead until the next send).     *)
(***************************************************************************)
BlockedOnlyInSend == blocked => \E i \in 1..Len(stack) : stack[i].waiting

(***************************************************************************)
(* For the point-to-point interfaces, what was last announced with         *)
(* dataConnectionStatusSignal is what isConnected() answers, also after    *)
(* late events of a TCP connection attempt that was given up.              *)
(***************************************************************************)
AnnouncedIsTrue ==
    running /\ ctype \notin {"udp", "tcpServer"} => status.up = connected

(***************************************************************************)
(* The messages that leave the program nest, they never alternate: when a  *)
(* chunk of b falls between two chunks of a, all that is sent of b does.   *)
(***************************************************************************)
WellNested ==
    \A i \in 1..Len(line) : \A j \in i..Len(line) :
        line[i].req # line[j].req =>
            ~ \E k \in j..Len(line) : \E l \in k..Len(line) :
                line[k].req = line[i].req /\ line[l].req = line[j].req

(***************************************************************************)
(* A request is answered with success only when none of its chunks is left *)
(* in the write buffer: each one was transmitted, or went down with the    *)
(* port.  The buffer is shared by all nested sends.                        *)
(***************************************************************************)
SuccessMeansGone ==
    \A r \in Requests : outcome[r] = "ok" =>
        \A i \in 1..Chunks[r] : Chunk(r, i) \in InSeq(line) \cup lost

(***************************************************************************)
(* Bytes that arrive while the serial port is muted are fetched when the   *)
(* send is over, however sends nest and unmute each other's port: an idle  *)
(* thread leaves bytes unread only after some send failed.                 *)
(***************************************************************************)
ReadAfterSuccess == stack = <<>> /\ rx => \E r \in Requests : outcome[r] = "failed"

(***************************************************************************)
(* After exitThreadSlot no handle is opened any more, although the event   *)
(* loop of a waiting send still runs.                                      *)
(***************************************************************************)
NothingReopens == [][~running => open' \subseteq open]_vars

(***************************************************************************)
(* The connect button that a TCP connection attempt disables comes back,   *)
(* also when a script gives the attempt up and opens something else.       *)
(***************************************************************************)
ButtonsComeBack == ~buttons ~> (buttons \/ ~running)

Service == INSTANCE SendService

(***************************************************************************)
(* The thread implements the service: no request is answered that was not  *)
(* handed over, and none is answered twice, however sends nest.            *)
(***************************************************************************)
AnswersOnce == Service!SafeSpec

(***************************************************************************)
(* Every request posted before the exit order is answered exactly once,    *)
(* the ones handled inside a waiting send, and that send, included.        *)
(***************************************************************************)
AnswersEveryRequest == Service!Spec
-----------------------------------------------------------------------------
(***************************************************************************)
(* What comments of the code say and the code does not do (README, 4).     *)
(***************************************************************************)

\* "Block the signals (to prevent that serialPortReceivedDataSlot is called
\* before dataHasBeenSendSignal)": while a send waits the port is muted.
MutedWhileWaiting == stack # <<>> /\ Top.waiting => blocked

\* "this function blocks until the sending has been finished", returns "True
\* for success": every chunk of a successful request was transmitted.
SuccessMeansTransmitted ==
    \A r \in Requests : outcome[r] = "ok" =>
        \A i \in 1..Chunks[r] : Chunk(r, i) \in InSeq(line)

\* "Returns true if the main interface thread is connected": an interface of
\* this side that was opened and announced counts as connected.
OpenIsConnected == running /\ open \cap {"serial", "aardvark", "pcan"} # {} => connected

\* "The main interface thread emits this signal if his connection state has been
\* changed": what was announced last is what isConnected() returns.
StatusIsTruth == running => status.up = connected
=============================================================================

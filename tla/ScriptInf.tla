----------------------------- MODULE ScriptInf -----------------------------
(***************************************************************************)
(* scriptInf (scriptInf.cpp): through it scripts send over the main        *)
(* interface and connect it.  Three kinds of threads block each other:     *)
(*                                                                         *)
(*   - a script waits for the main interface thread, which handles its     *)
(*     order, and for the GUI thread, which takes over settings;           *)
(*   - the main interface thread waits for the GUI thread, which shows its *)
(*     message boxes;                                                      *)
(*   - the GUI thread waits for the main interface thread when it closes.  *)
(*                                                                         *)
(* The answers come back through members of scriptInf which the main       *)
(* interface thread writes.  Between two repetitions, and while it waits   *)
(* for a connection, a script handles events, so that calls of scriptInf   *)
(* nest (stack).  A script that is stopped and blocked is terminated in    *)
(* the middle of its calls; of these is left what another thread was asked *)
(* to do.  How the main interface thread works is in MainInterface; here   *)
(* is what a script sees of it.  Pausing a script is left out.             *)
(***************************************************************************)
EXTENDS Naturals, Sequences, FiniteSets

CONSTANTS
    Scripts,       \* the scripts; the send id of a script is the script
    Configs,       \* settings a connection can have
    Saved,         \* those the program may have saved and starts with
    Kind,          \* their connection type
    Gui,           \* the sender of the GUI's orders
    MaxCalls,      \* bound: calls of scriptInf, presses of the buttons to connect
                   \* and to stop a script
    MaxRepeats     \* bound: how often one call sends its data

Kinds == {"device", "client", "server"}

ASSUME InfAssumption ==
    /\ Saved # {} /\ Saved \subseteq Configs
    /\ Kind \in [Configs -> Kinds]
    /\ Gui \notin Scripts
    /\ MaxCalls \in Nat /\ MaxRepeats \in Nat

VARIABLES
    \* GUI thread
    gui,           \* it runs, stops the scripts, waits for the exit, has closed
    settings,      \* SettingsDialog::m_currentSettings
    \* main interface thread
    mi,            \* it runs, waits for a message box, connects in vain, has ended
    inbox,         \* its posted orders
    sending,       \* scripts whose data it is sending
    cfg,           \* m_currentGlobalSettings
    showBox,       \* m_showMessageBoxOnError
    conn,          \* m_isConnected
    client,        \* state of m_tcpClientSocket
    peer,          \* the TCP server: closed, listening, with a client
    \* the scripts
    state,         \* of each script
    shallExit,     \* m_shallExit
    isConn,        \* ScriptInf::m_isConnected
    succeeded,     \* m_sendingSucceeded
    stack,         \* calls of scriptInf in progress, innermost last; of a
                   \* terminated script: the one another thread still works for
    \* what happened
    calls,         \* counted for the bound
    missed,        \* scripts that missed a status while they started
    mixed          \* orders to connect of several parties overlapped

guiVars == <<gui, settings>>
link == <<cfg, showBox, conn, client, peer>>
scriptVars == <<state, shallExit, isConn, succeeded, stack>>
history == <<calls, missed, mixed>>
vars == <<gui, settings, mi, inbox, sending, cfg, showBox, conn, client, peer,
          state, shallExit, isConn, succeeded, stack, calls, missed, mixed>>
-----------------------------------------------------------------------------
ConnectOrder(who, c, on, box) ==
    [kind |-> "connect", from |-> who, conf |-> c, on |-> on, box |-> box]
SendOrder(s) == [kind |-> "send", from |-> s]
ExitOrder == [kind |-> "exit", from |-> Gui]

Orders ==
    [kind : {"connect"}, from : Scripts \cup {Gui}, conf : Configs, on : BOOLEAN,
     box : BOOLEAN]
    \cup {SendOrder(s) : s \in Scripts} \cup {ExitOrder}

\* want, tried: repetitions; sent: those reported as sent to this call.
SendFrame(n) ==
    [op |-> "send", pc |-> "loop", want |-> n, tried |-> 0, sent |-> 0, ok |-> FALSE]
\* old: oldSettings; gaveUp: the interface was not connected in time.
ConnectFrame(c) ==
    [op |-> "connect", pc |-> "set", new |-> c, old |-> settings, gaveUp |-> FALSE,
     ok |-> FALSE]

SendFrames ==
    [op : {"send"}, pc : {"loop", "sent", "failed", "answered", "gap", "return"},
     want : 1..MaxRepeats, tried : 0..MaxRepeats, sent : 0..MaxRepeats, ok : BOOLEAN]
ConnectFrames ==
    [op : {"connect"}, new : Configs, old : Configs, gaveUp : BOOLEAN, ok : BOOLEAN,
     pc : {"set", "order", "ordered", "wait", "restore", "withdraw", "withdrawn",
           "result", "return"}]

Running(s) == state[s] = "running"
Calling(s) == stack[s] # <<>>
Top(s) == stack[s][Len(stack[s])]
At(s, op, pc) == Calling(s) /\ Top(s).op = op /\ Top(s).pc = pc
SetTop(s, f) == [stack EXCEPT ![s][Len(stack[s])] = f]
\* The call of a terminated script does not go on.
WithTop(s, f) == IF Running(s) THEN SetTop(s, f) ELSE [stack EXCEPT ![s] = <<>>]
Go(s, pc) == stack' = WithTop(s, [Top(s) EXCEPT !.pc = pc])

\* Where a call waits for the main interface thread, and for the GUI.
MainWaits == {"sent", "failed", "ordered", "withdrawn"}
GuiWaits == {"set", "restore"}
Awaits(s) == Calling(s) /\ Top(s).pc \in MainWaits

FramesOf(s) == {stack[s][i] : i \in 1..Len(stack[s])}
Connecting(s) == \E f \in FramesOf(s) : f.op = "connect"
ConnectPosted == \E i \in 1..Len(inbox) : inbox[i].kind = "connect"

Init ==
    /\ gui = "open" /\ settings \in Saved
    /\ mi = "runs" /\ inbox = <<>> /\ sending = {}
    /\ cfg = settings /\ showBox = FALSE
    /\ conn \in {FALSE, Kind[settings] = "device"}
    /\ client = "idle" /\ peer = "closed"
    /\ state = [s \in Scripts |-> "new"]
    /\ shallExit = [s \in Scripts |-> FALSE]
    /\ isConn = [s \in Scripts |-> FALSE]
    /\ succeeded = [s \in Scripts |-> FALSE]
    /\ stack = [s \in Scripts |-> <<>>]
    /\ calls = 0 /\ missed = {} /\ mixed = FALSE
-----------------------------------------------------------------------------
(***************************************************************************)
(* The main interface thread.                                              *)
(***************************************************************************)
\* Mutant of Announce: the scripts are told before m_isConnected is set.
AnnounceBefore(up) ==
    /\ isConn' = [s \in Scripts |-> IF Running(s) THEN conn ELSE isConn[s]]
    /\ missed' = missed

\* dataConnectionStatusSignal: dataConnectionStatusSlot runs in this thread, for
\* every script that has connected the signal, and asks for m_isConnected.
Announce(up) ==
    /\ isConn' = [s \in Scripts |-> IF Running(s) THEN up ELSE isConn[s]]
    /\ missed' = {s \in Scripts : state[s] = "created" /\ isConn[s] # up}

Quiet == UNCHANGED <<isConn, missed>>

\* Closing a socket that is still connecting takes effect later (Qt).
ClosedClient == IF client \in {"connecting", "closing"} THEN "closing" ELSE "idle"

\* connectDataConnectionSlot(settings, false, box)
Disconnect(c, box) ==
    /\ cfg' = c /\ showBox' = box
    /\ conn' = FALSE /\ client' = ClosedClient /\ peer' = "closed"
    /\ Announce(FALSE)
    /\ mi' = "runs"

OpenDevice(c, box) ==
    /\ Kind[c] = "device"
    /\ cfg' = c /\ showBox' = box
    /\ client' = ClosedClient /\ peer' = "closed"
    /\ \/ conn' = TRUE /\ Announce(TRUE) /\ mi' = "runs"
       \* a message box first, the status after it
       \/ /\ conn' = FALSE
          /\ IF box THEN mi' = "boxOpen" /\ Quiet ELSE mi' = "runs" /\ Announce(FALSE)

\* connectToHost of a socket that is still connecting fails at once; the error
\* slot disconnects, and has the next error shown.
OpenClient(c, box) ==
    /\ Kind[c] = "client"
    /\ cfg' = c /\ peer' = "closed" /\ conn' = FALSE /\ Announce(FALSE)
    /\ IF ClosedClient = "idle"
       THEN client' = "connecting" /\ showBox' = box /\ mi' = "runs"
       ELSE /\ client' = "closing"
            /\ IF box THEN mi' = "boxClient" /\ showBox' = box
                      ELSE mi' = "runs" /\ showBox' = TRUE

Listen(c, box) ==
    /\ Kind[c] = "server"
    /\ cfg' = c /\ showBox' = box
    /\ conn' = FALSE /\ client' = ClosedClient /\ Announce(FALSE)
    /\ \/ peer' = "listening" /\ mi' = "runs"
       \/ peer' = "closed" /\ mi' = IF box THEN "boxListen" ELSE "runs"

ConnectSlot(c, on, box) ==
    \/ ~on /\ Disconnect(c, box)
    \/ on /\ (OpenDevice(c, box) \/ OpenClient(c, box) \/ Listen(c, box))

Takes(kind) == mi = "runs" /\ inbox # <<>> /\ Head(inbox).kind = kind
Consume == inbox' = Tail(inbox)

\* A script's order is a blocking one.
HandleConnect ==
    /\ Takes("connect") /\ Consume
    /\ LET o == Head(inbox) IN
        /\ ConnectSlot(o.conf, o.on, o.box)
        /\ IF o.from = Gui THEN UNCHANGED stack
           ELSE Go(o.from, IF Top(o.from).pc = "ordered" THEN "wait" ELSE "result")
    /\ UNCHANGED <<guiVars, sending, state, shallExit, succeeded, calls, mixed>>

\* Mutant of Addressed: sendingFinishedSlot does not look at the id.
AddressedToAll(s) == Scripts

\* sendingFinishedSignal(ok, id) reaches the script with that id.
Addressed(s) == {s}

Answer(s, ok) ==
    /\ succeeded' = [t \in Scripts |-> IF t \in Addressed(s) THEN ok ELSE succeeded[t]]
    /\ stack' = WithTop(s, [Top(s) EXCEPT !.pc = "answered",
                                          !.sent = IF ok THEN @ + 1 ELSE @])

\* sendDataSlot: other orders may be handled before the data are sent.
BeginSend(s) ==
    /\ sending' = sending \cup {s}
    /\ UNCHANGED <<mi, link, isConn, missed, succeeded, stack>>

\* A PCAN interface whose send fails is opened again before the answer, with a
\* message box when it cannot be opened.
Restart(s) ==
    /\ sending' = sending \cup {s}
    /\ stack' = SetTop(s, [Top(s) EXCEPT !.pc = "failed"])
    /\ OpenDevice(cfg, TRUE)
    /\ UNCHANGED succeeded

HandleSend ==
    /\ Takes("send") /\ Consume
    /\ LET s == Head(inbox).from IN
        \/ conn /\ (BeginSend(s) \/ Restart(s))
        \/ ~conn /\ Answer(s, FALSE) /\ UNCHANGED <<sending, mi, link, isConn, missed>>
    /\ UNCHANGED <<guiVars, state, shallExit, calls, mixed>>

SendEnds(s) ==
    /\ mi = "runs" /\ s \in sending
    /\ sending' = sending \ {s}
    /\ \E ok \in BOOLEAN : (Top(s).pc = "failed" => ~ok) /\ Answer(s, ok)
    /\ UNCHANGED <<guiVars, mi, inbox, link, state, shallExit, isConn, history>>

\* tcpClientSocketOnConnectedSlot; an attempt that was given up disconnects again
\* at once, but is announced first.
ClientConnects ==
    /\ mi = "runs" /\ client \in {"connecting", "closing"}
    /\ conn' = TRUE /\ Announce(TRUE)
    /\ IF client = "connecting" THEN client' = "up" /\ UNCHANGED mi
                                ELSE mi' = "vain" /\ UNCHANGED client
    /\ UNCHANGED <<guiVars, inbox, sending, cfg, showBox, peer, state, shallExit,
                   succeeded, stack, calls, mixed>>

\* tcpClientSocketOnDisconnectedSlot
ClientDisconnects ==
    /\ mi = "vain" \/ (mi = "runs" /\ client = "up")
    /\ client' = "idle" /\ conn' = FALSE /\ Announce(FALSE)
    /\ mi' = "runs"
    /\ UNCHANGED <<guiVars, inbox, sending, cfg, showBox, peer, state, shallExit,
                   succeeded, stack, calls, mixed>>

\* tcpClientSocketErrorSlot: a message box first, but not when the server closed
\* the connection; then the slot disconnects.
ClientError ==
    /\ mi = "runs" /\ client # "idle"
    /\ \/ /\ showBox
          /\ mi' = "boxClient" /\ client' = IF client = "up" THEN "up" ELSE "idle"
          /\ Quiet /\ UNCHANGED <<cfg, showBox, conn, peer>>
       \/ /\ ~showBox \/ client = "up"
          /\ cfg' = cfg /\ showBox' = TRUE
          /\ conn' = FALSE /\ client' = "idle" /\ peer' = "closed"
          /\ Announce(FALSE) /\ mi' = "runs"
    /\ UNCHANGED <<guiVars, inbox, sending, state, shallExit, succeeded, stack, calls,
                   mixed>>

\* tcpServerOnNewConnectionSlot
PeerConnects ==
    /\ mi = "runs" /\ peer = "listening"
    /\ peer' = "joined" /\ conn' = TRUE /\ Announce(TRUE)
    /\ UNCHANGED <<guiVars, mi, inbox, sending, cfg, showBox, client, state, shallExit,
                   succeeded, stack, calls, mixed>>

\* tcpServerSocketOnDisconnectedSlot: the server listens anew.
PeerLeaves ==
    /\ mi = "runs" /\ peer = "joined"
    /\ ConnectSlot(cfg, TRUE, TRUE)
    /\ UNCHANGED <<guiVars, inbox, sending, state, shallExit, succeeded, stack, calls,
                   mixed>>

\* exitThreadSlot; what it closes is in MainInterface.
HandleExit ==
    /\ Takes("exit") /\ Consume
    /\ mi' = "ended" /\ gui' = "closed"
    /\ UNCHANGED <<settings, sending, link, scriptVars, history>>
-----------------------------------------------------------------------------
(***************************************************************************)
(* The GUI thread.                                                         *)
(***************************************************************************)
EventLoop == gui \in {"open", "stopping"}
Boxes == {"boxOpen", "boxListen", "boxClient"}

\* showMessageBoxSlot returns, and the main interface thread goes on.
CloseBox ==
    /\ EventLoop /\ mi \in Boxes
    /\ \/ /\ mi = "boxOpen" /\ mi' = "runs" /\ Announce(FALSE)
          /\ UNCHANGED link
       \/ /\ mi = "boxListen" /\ mi' = "runs" /\ Quiet
          /\ UNCHANGED link
       \/ mi = "boxClient" /\ Disconnect(cfg, TRUE)
    /\ UNCHANGED <<guiVars, inbox, sending, state, shallExit, succeeded, stack, calls,
                   mixed>>

Overlap == mixed' = (mixed \/ \E s \in Scripts : Connecting(s))

\* toggleConnectionSlot.  The text of the button lags behind the status.
PressConnect ==
    /\ gui = "open" /\ mi \notin Boxes
    /\ calls < MaxCalls /\ calls' = calls + 1
    /\ \E on \in BOOLEAN : inbox' = Append(inbox, ConnectOrder(Gui, settings, on, TRUE))
    /\ Overlap
    /\ UNCHANGED <<guiVars, mi, sending, link, scriptVars, missed>>

\* Mutant of MayExit: the scripts need not have ended.
ExitAtOnce == TRUE

\* allScriptsHaveBeenStopped
MayExit == \A s \in Scripts : state[s] \in {"new", "ended", "terminated"}

\* Mutant of ToldToExit: the scripts go on.
NotTold == shallExit

ToldToExit == [s \in Scripts |-> TRUE]

\* closeEvent: disconnects, stops the scripts, waits for their end, ...
Close ==
    /\ gui = "open" /\ mi \notin Boxes
    /\ gui' = "stopping"
    /\ inbox' = Append(inbox, ConnectOrder(Gui, settings, FALSE, FALSE))
    /\ shallExit' = ToldToExit
    /\ Overlap
    /\ UNCHANGED <<settings, mi, sending, link, state, isConn, succeeded, stack, calls,
                   missed>>

\* ... and then, without an event loop, for the main interface thread.
Exit ==
    /\ gui = "stopping" /\ MayExit
    /\ gui' = "exiting"
    /\ inbox' = Append(inbox, ExitOrder)
    /\ UNCHANGED <<settings, mi, sending, link, scriptVars, history>>

\* stopScriptThread: the script is told to exit, and the GUI handles events
\* until it has ended ...
Stop(s) ==
    /\ gui = "open" /\ state[s] \in {"created", "running"} /\ ~shallExit[s]
    /\ calls < MaxCalls /\ calls' = calls + 1
    /\ shallExit' = [shallExit EXCEPT ![s] = TRUE]
    /\ UNCHANGED <<guiVars, mi, inbox, sending, link, state, isConn, succeeded, stack,
                   missed, mixed>>

\* ... or its block time is over: then it is terminated where it is.  What it has
\* asked of other threads is left; what only it would have read is reset.
Terminate(s) ==
    /\ EventLoop /\ state[s] \in {"created", "running"} /\ shallExit[s]
    /\ state' = [state EXCEPT ![s] = "terminated"]
    /\ stack' = [stack EXCEPT ![s] =
                    IF Calling(s) /\ Top(s).pc \in MainWaits \cup GuiWaits
                    THEN <<Top(s)>> ELSE <<>>]
    /\ isConn' = [isConn EXCEPT ![s] = FALSE]
    /\ succeeded' = [succeeded EXCEPT ![s] = FALSE]
    /\ missed' = missed \ {s}
    /\ UNCHANGED <<guiVars, mi, inbox, sending, link, shallExit, calls, mixed>>

\* Mutant of TakesSettings: the new settings stay when the connection failed.
TakesNewSettings(s) ==
    \/ At(s, "connect", "set") /\ settings' = Top(s).new /\ Go(s, "order")
    \/ At(s, "connect", "restore") /\ Go(s, "withdraw") /\ UNCHANGED settings

\* setAllSettingsSlot, for a script that waits for it or was terminated waiting
TakesSettings(s) ==
    \/ At(s, "connect", "set") /\ settings' = Top(s).new /\ Go(s, "order")
    \/ At(s, "connect", "restore") /\ settings' = Top(s).old /\ Go(s, "withdraw")

SetSettings(s) ==
    /\ EventLoop /\ TakesSettings(s)
    /\ UNCHANGED <<gui, mi, inbox, sending, link, state, shallExit, isConn, succeeded,
                   history>>
-----------------------------------------------------------------------------
(***************************************************************************)
(* The script threads.                                                     *)
(***************************************************************************)
\* The constructor asks for the connection state, ...
Create(s) ==
    /\ gui = "open" /\ state[s] = "new"
    /\ state' = [state EXCEPT ![s] = "created"]
    /\ isConn' = [isConn EXCEPT ![s] = conn]
    /\ UNCHANGED <<guiVars, mi, inbox, sending, link, shallExit, succeeded, stack, history>>

\* ... and only then intSignals connects the signal that reports its changes.
InitSignals(s) ==
    /\ state[s] = "created"
    /\ state' = [state EXCEPT ![s] = "running"]
    /\ UNCHANGED <<guiVars, mi, inbox, sending, link, shallExit, isConn, succeeded, stack,
                   history>>

\* The script has left its calls and its event loop.  (One that ends of its own
\* accord is like one that makes no further calls.)
End(s) ==
    /\ Running(s) /\ shallExit[s] /\ ~Calling(s)
    /\ state' = [state EXCEPT ![s] = "ended"]
    /\ UNCHANGED <<guiVars, mi, inbox, sending, link, shallExit, isConn, succeeded, stack,
                   history>>

\* The script calls scriptInf, from its main function or from an event handler.
MayCall(s) ==
    /\ Running(s) /\ calls < MaxCalls
    /\ Calling(s) => Top(s).pc \in {"gap", "wait"}

CallSend(s) ==
    /\ MayCall(s) /\ calls' = calls + 1
    /\ \E n \in 1..MaxRepeats : stack' = [stack EXCEPT ![s] = Append(@, SendFrame(n))]
    /\ UNCHANGED <<guiVars, mi, inbox, sending, link, state, shallExit, isConn, succeeded,
                   missed, mixed>>

More(f) == f.tried < f.want

\* One round of the loop in sendByteArray.
Repeat(s) ==
    /\ At(s, "send", "loop") /\ More(Top(s))
    /\ succeeded' = [succeeded EXCEPT ![s] = FALSE]
    /\ IF ~isConn[s] \/ shallExit[s]
       THEN Go(s, "return") /\ UNCHANGED inbox
       ELSE /\ stack' = WithTop(s, [Top(s) EXCEPT !.pc = "sent", !.tried = @ + 1])
            /\ inbox' = Append(inbox, SendOrder(s))
    /\ UNCHANGED <<guiVars, mi, sending, link, state, shallExit, isConn, history>>

RepeatedAll(s) ==
    /\ At(s, "send", "loop") /\ ~More(Top(s))
    /\ Go(s, "return")
    /\ UNCHANGED <<guiVars, mi, inbox, sending, link, state, shallExit, isConn, succeeded,
                   history>>

\* Mutant of AfterAnswer: the flag is read after the events have been handled.
AfterEvents(s) ==
    \/ At(s, "send", "answered") /\ Go(s, "gap")
    \/ /\ At(s, "send", "gap")
       /\ stack' = WithTop(s, [Top(s) EXCEPT !.ok = succeeded[s],
                                             !.pc = IF succeeded[s] THEN "loop" ELSE "return"])

\* hasSucceeded is the flag right after the signal; then events are handled.
AfterAnswer(s) ==
    \/ /\ At(s, "send", "answered")
       /\ stack' = WithTop(s, [Top(s) EXCEPT
                        !.ok = succeeded[s],
                        !.pc = IF ~succeeded[s] THEN "return"
                               ELSE IF @ = "answered" /\ Top(s).want > 1 THEN "gap"
                               ELSE "loop"])
    \/ At(s, "send", "gap") /\ Go(s, "loop")

ContinueSend(s) ==
    /\ AfterAnswer(s)
    /\ UNCHANGED <<guiVars, mi, inbox, sending, link, state, shallExit, isConn, succeeded,
                   history>>

\* connectSocket and its siblings; orders of others may already be posted.
CallConnect(s, c) ==
    /\ MayCall(s) /\ calls' = calls + 1
    /\ stack' = [stack EXCEPT ![s] = Append(@, ConnectFrame(c))]
    /\ mixed' = (mixed \/ ConnectPosted \/ \E t \in Scripts \ {s} : Connecting(t))
    /\ UNCHANGED <<guiVars, mi, inbox, sending, link, state, shallExit, isConn, succeeded,
                   missed>>

\* Mutant of Withdrawal: the old settings are connected again.
Reconnects(s) == ConnectOrder(s, Top(s).old, TRUE, FALSE)

\* The old settings come back disconnected.
Withdrawal(s) == ConnectOrder(s, Top(s).old, FALSE, FALSE)

PostConnect(s) ==
    /\ \/ /\ At(s, "connect", "order") /\ Go(s, "ordered")
          /\ inbox' = Append(inbox, ConnectOrder(s, Top(s).new, TRUE, FALSE))
       \/ /\ At(s, "connect", "withdraw") /\ Go(s, "withdrawn")
          /\ inbox' = Append(inbox, Withdrawal(s))
    /\ UNCHANGED <<guiVars, mi, sending, link, state, shallExit, isConn, succeeded, history>>

\* waitForMainInterfaceToConnect ends: connected, timed out, or told to exit.
WaitEnds(s) ==
    /\ At(s, "connect", "wait")
    /\ stack' = WithTop(s, [Top(s) EXCEPT !.pc = IF isConn[s] THEN "result" ELSE "restore",
                                          !.gaveUp = ~isConn[s]])
    /\ UNCHANGED <<guiVars, mi, inbox, sending, link, state, shallExit, isConn, succeeded,
                   history>>

\* succeeded = m_isConnected
Result(s) ==
    /\ At(s, "connect", "result")
    /\ stack' = WithTop(s, [Top(s) EXCEPT !.pc = "return", !.ok = isConn[s]])
    /\ UNCHANGED <<guiVars, mi, inbox, sending, link, state, shallExit, isConn, succeeded,
                   history>>

Return(s) ==
    /\ Calling(s) /\ Top(s).pc = "return"
    /\ stack' = [stack EXCEPT ![s] = SubSeq(@, 1, Len(@) - 1)]
    /\ UNCHANGED <<guiVars, mi, inbox, sending, link, state, shallExit, isConn, succeeded,
                   history>>
-----------------------------------------------------------------------------
\* The GUI waits for the main interface thread, which waits for the GUI.
Embrace == gui = "exiting" /\ mi \in Boxes

ScriptStep(s) ==
    /\ Running(s)
    /\ \/ Repeat(s) \/ RepeatedAll(s) \/ ContinueSend(s)
       \/ PostConnect(s) \/ WaitEnds(s) \/ Result(s) \/ Return(s)

MainStep == HandleConnect \/ HandleSend \/ HandleExit

Next ==
    \/ MainStep \/ ClientConnects \/ ClientDisconnects \/ ClientError
    \/ PeerConnects \/ PeerLeaves
    \/ CloseBox \/ PressConnect \/ Close \/ Exit
    \/ \E s \in Scripts :
        \/ SendEnds(s) \/ SetSettings(s) \/ Stop(s) \/ Terminate(s)
        \/ Create(s) \/ InitSignals(s) \/ End(s)
        \/ CallSend(s) \/ ScriptStep(s)
        \/ \E c \in Configs : CallConnect(s, c)

SafeSpec == Init /\ [][Next]_vars

\* Threads run, sends end (MainInterface), and the user closes message boxes.  A
\* script that shall exit and makes no call ends or is terminated; none need be
\* terminated in a call.
Fairness ==
    /\ WF_vars(MainStep) /\ WF_vars(ClientDisconnects)
    /\ WF_vars(CloseBox) /\ WF_vars(Exit)
    /\ \A s \in Scripts :
        /\ WF_vars(SendEnds(s)) /\ WF_vars(SetSettings(s))
        /\ WF_vars(InitSignals(s)) /\ WF_vars(ScriptStep(s))
        /\ WF_vars(End(s) \/ (~Calling(s) /\ Terminate(s)))

Spec == SafeSpec /\ Fairness
-----------------------------------------------------------------------------
TypeOK ==
    /\ gui \in {"open", "stopping", "exiting", "closed"}
    /\ mi \in {"runs", "vain", "ended"} \cup Boxes
    /\ settings \in Configs /\ cfg \in Configs
    /\ inbox \in Seq(Orders) /\ sending \subseteq Scripts
    /\ showBox \in BOOLEAN /\ conn \in BOOLEAN
    /\ client \in {"idle", "connecting", "closing", "up"}
    /\ peer \in {"closed", "listening", "joined"}
    /\ state \in [Scripts -> {"new", "created", "running", "ended", "terminated"}]
    /\ shallExit \in [Scripts -> BOOLEAN] /\ isConn \in [Scripts -> BOOLEAN]
    /\ succeeded \in [Scripts -> BOOLEAN]
    /\ stack \in [Scripts -> Seq(SendFrames \cup ConnectFrames)]
    /\ calls \in 0..MaxCalls
    /\ missed \subseteq Scripts /\ mixed \in BOOLEAN

(***************************************************************************)
(* What a send returns is the answer to its own data: true exactly when    *)
(* every repetition it handed over, and at least one, was reported as sent *)
(* to this call, whatever calls in its event handlers, and other scripts,  *)
(* send meanwhile.  All write the flag it reads.                           *)
(***************************************************************************)
AnswerIsOwn ==
    \A s \in Scripts : \A f \in FramesOf(s) :
        f.op = "send" /\ f.pc = "return" => (f.ok <=> f.sent > 0 /\ f.sent = f.tried)

(***************************************************************************)
(* A script that waits for the main interface thread waits for exactly one *)
(* order, which that thread still has, and the thread is there: also when  *)
(* other scripts are terminated while they wait and the program closes.    *)
(* Nothing else is queued or being sent for scripts but the one order each *)
(* terminated script was waiting for.                                      *)
(***************************************************************************)
OrdersOf(s) == {i \in 1..Len(inbox) : inbox[i].from = s}

WaitersHaveOrders ==
    \A s \in Scripts :
        /\ s \in sending \/ OrdersOf(s) # {} => Awaits(s)
        /\ s \in sending => OrdersOf(s) = {}
        /\ \A i, j \in OrdersOf(s) : i = j
        /\ Running(s) /\ Awaits(s) => mi # "ended" /\ (s \in sending \/ OrdersOf(s) # {})

(***************************************************************************)
(* A connect that gave up leaves no attempt behind: the old settings are   *)
(* back and no connection exists or can come, even when the partner        *)
(* answered while it gave up.  (A late answer may be announced for a       *)
(* moment: then the call returns true for it.)                             *)
(***************************************************************************)
GivenUpIsWithdrawn ==
    \A s \in Scripts :
        Running(s) /\ At(s, "connect", "return") /\ Top(s).gaveUp /\ ~mixed =>
            /\ settings = Top(s).old /\ cfg = Top(s).old
            /\ client \notin {"connecting", "up"} /\ peer = "closed"
            /\ conn => mi = "vain"

(***************************************************************************)
(* A script knows whether the main interface is connected: its copy of     *)
(* m_isConnected differs only while a message box delays the announcement, *)
(* or when the state changed between the script's first look and its       *)
(* connection to the signal; then it differs until the next change.        *)
(***************************************************************************)
FlagIsCurrent ==
    \A s \in Scripts :
        Running(s) /\ s \notin missed /\ mi \notin Boxes => isConn[s] = conn

(***************************************************************************)
(* Every call a script makes returns, when the program is closed, message  *)
(* boxes are shown and connection attempts fail, too.                      *)
(***************************************************************************)
CallsReturn ==
    (\E s \in Scripts : Running(s) /\ Calling(s))
        ~> (\A s \in Scripts : Running(s) => ~Calling(s))

(***************************************************************************)
(* Closing the program ends, with scripts in the middle of calls, or in    *)
(* the one deadlock: a message box of the main interface thread while the  *)
(* GUI thread already waits for it.                                        *)
(***************************************************************************)
CloseEnds == gui = "stopping" ~> (gui = "closed" \/ Embrace)

\* "The byte array is repeated until the number has been reached. [...] @return
\* True for success."
TrueMeansRepeated ==
    \A s \in Scripts : \A f \in FramesOf(s) :
        f.op = "send" /\ f.pc = "return" /\ f.ok => f.sent = f.want
=============================================================================

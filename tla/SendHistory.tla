---------------------------- MODULE SendHistory ----------------------------
(***************************************************************************)
(* The send history of the main window (mainwindowHandleData.cpp, with the *)
(* buttons in mainwindow.cpp), in the GUI thread.  The history collects    *)
(* what was sent; the user can send a selection of it again, one message   *)
(* after the other.                                                        *)
(*                                                                         *)
(* Buttons, timers and answers reach their slots through queued signals:   *)
(* what a slot finds may have changed since the signal was emitted.        *)
(*                                                                         *)
(* An answer arrives only for a successful send: the signal connected to   *)
(* MainWindowHandleData::dataHasBeenSendSlot is not emitted for a failed   *)
(* one, nor for an I2C read or an I2C/SPI slave response.                  *)
(***************************************************************************)
EXTENDS Naturals, Sequences, FiniteSets

CONSTANTS
    MaxEntries,   \* MAX_SEND_HISTORY_ENTRIES
    MaxAdds,      \* bound: messages other parts of the program send
    MaxPresses    \* bound: presses of the history's send/cancel button

ASSUME HistoryAssumption ==
    /\ MaxEntries \in Nat \ {0}
    /\ MaxAdds \in Nat /\ MaxPresses \in Nat

VARIABLES
    history,       \* m_sendHistory; messages are numbered
    toSend,        \* m_sendHistorySendData
    inProgress,    \* m_historySendIsInProgress
    sendTimer,     \* m_sendHistoryTimer.isActive()
    consoleTimer,  \* m_historyConsoleTimer.isActive()
    sendEnabled,   \* sendHistoryPushButton->isEnabled()
    clearEnabled,  \* clearHistoryPushButton->isEnabled()
    connected,     \* MainWindow::m_isConnected
    events,        \* queued signals for the slots, oldest first
    flight,        \* requests the main interface thread works on
    undefined,     \* first() was called on an empty vector
    \* what happened, for the properties
    added, presses,
    cancelled,     \* some send was cancelled
    unreported,    \* some send was not reported
    chosen,        \* the selection the user wanted to send
    sent           \* what was handed over of it

vars == <<history, toSend, inProgress, sendTimer, consoleTimer, sendEnabled, clearEnabled,
          connected, events, flight, undefined, added, presses, cancelled,
          unreported, chosen, sent>>

buttons == <<sendEnabled, clearEnabled>>
went == <<cancelled, unreported>>
user == <<added, presses, went>>
sending == <<toSend, inProgress, sendTimer, flight, undefined, chosen, sent>>

Messages == 1..MaxAdds
Events == {"press", "clear", "refresh", "elapsed", "sent"}

InSeq(s) == {s[i] : i \in 1..Len(s)}
Posted(event) == event \in InSeq(events)

\* Nothing is said of the program after undefined behaviour.
Defined == ~undefined
Post(event) == Defined /\ events' = Append(events, event)

Init ==
    /\ history = <<>> /\ toSend = <<>>
    /\ inProgress = FALSE /\ sendTimer = FALSE /\ consoleTimer = FALSE
    /\ sendEnabled = FALSE /\ clearEnabled = FALSE
    /\ connected \in BOOLEAN
    /\ events = <<>> /\ flight = 0 /\ undefined = FALSE
    /\ added = 0 /\ presses = 0
    /\ cancelled = FALSE /\ unreported = FALSE
    /\ chosen = <<>> /\ sent = <<>>
-----------------------------------------------------------------------------
(***************************************************************************)
(* Signals are emitted.  A user event is handled before the next one can   *)
(* happen; a timer elapses again only after its queued slot ran.           *)
(***************************************************************************)
UserIdle == ~Posted("press") /\ ~Posted("clear")

PressSend ==
    /\ sendEnabled /\ UserIdle
    /\ presses < MaxPresses /\ presses' = presses + 1
    /\ Post("press")
    /\ UNCHANGED <<history, sending, consoleTimer, buttons, connected, added, went>>

PressClear ==
    /\ clearEnabled /\ UserIdle
    /\ Post("clear")
    /\ UNCHANGED <<history, sending, consoleTimer, buttons, connected, user>>

\* The format or the selection is changed, which is possible while nothing is sent.
ChangeFormat ==
    /\ ~inProgress /\ UserIdle /\ ~Posted("refresh")
    /\ Post("refresh")
    /\ UNCHANGED <<history, sending, consoleTimer, buttons, connected, user>>

ConsoleTimerElapses ==
    /\ consoleTimer /\ ~Posted("refresh")
    /\ Post("refresh")
    /\ UNCHANGED <<history, sending, consoleTimer, buttons, connected, user>>

SendTimerElapses ==
    /\ sendTimer /\ ~Posted("elapsed")
    /\ Post("elapsed")
    /\ UNCHANGED <<history, sending, consoleTimer, buttons, connected, user>>

\* The main interface thread has sent a message, and says so.
Sent ==
    /\ flight > 0
    /\ flight' = flight - 1
    /\ Post("sent")
    /\ UNCHANGED <<history, toSend, inProgress, sendTimer, undefined, chosen, sent,
                   consoleTimer, buttons, connected, user>>

NotReported ==
    /\ Defined /\ flight > 0
    /\ flight' = flight - 1
    /\ unreported' = TRUE
    /\ UNCHANGED <<history, toSend, inProgress, sendTimer, undefined, chosen, sent,
                   consoleTimer, buttons, connected, added, presses, cancelled, events>>
-----------------------------------------------------------------------------
\* push_back, and pop_back if there are too many then.
HistoryWith(data) ==
    IF Len(history) < MaxEntries THEN Append(history, data) ELSE history

\* addDataToSendHistory(data), called by every sender of the GUI thread.
AddDataToSendHistory ==
    /\ Defined /\ added < MaxAdds /\ added' = added + 1
    /\ history' = HistoryWith(added + 1)
    /\ consoleTimer' = (consoleTimer \/ ~inProgress)
    /\ UNCHANGED <<sending, buttons, connected, events, presses, went>>

\* createConfig: a new main configuration starts with an empty history.
CreateConfig ==
    /\ Defined
    /\ history' = <<>>
    /\ UNCHANGED <<sending, consoleTimer, buttons, connected, events, user>>

ConnectionChanges ==
    /\ Defined
    /\ connected' = ~connected
    /\ UNCHANGED <<history, sending, consoleTimer, buttons, events, user>>
-----------------------------------------------------------------------------
(***************************************************************************)
(* The slots.                                                              *)
(***************************************************************************)
Handle(event) ==
    /\ Defined /\ events # <<>> /\ Head(events) = event
    /\ events' = Tail(events)

\* historyConsoleTimerSlot, as far as it is not display.
HistoryConsoleTimerSlot ==
    /\ consoleTimer' = FALSE
    /\ sendEnabled' = TRUE /\ clearEnabled' = TRUE

\* Mutant of FinishSend: the flag is forgotten.
FinishSendFlagKept == UNCHANGED inProgress /\ HistoryConsoleTimerSlot

\* m_historySendIsInProgress = false; enableHistoryGuiElements(true); refresh
FinishSend == inProgress' = FALSE /\ HistoryConsoleTimerSlot

\* Mutant of SendFirst: the message stays in the list.
SendFirstKept(list, before) ==
    /\ toSend' = list
    /\ IF list = <<>>
       THEN undefined' = TRUE /\ sent' = before /\ UNCHANGED flight
       ELSE sent' = Append(before, Head(list)) /\ flight' = flight + 1 /\ UNCHANGED undefined

\* emit sendDataWithTheMainInterfaceSignal(list.first()); list.pop_front()
SendFirst(list, before) ==
    IF list = <<>>
    THEN undefined' = TRUE /\ toSend' = list /\ sent' = before /\ UNCHANGED flight
    ELSE /\ toSend' = Tail(list)
         /\ sent' = Append(before, Head(list))
         /\ flight' = flight + 1
         /\ UNCHANGED undefined

\* The start and the end index select a part of the history, forwards or
\* backwards; the repetitions of it are left out.
Reversed(s) == [i \in 1..Len(s) |-> s[Len(s) + 1 - i]]
Parts == {SubSeq(history, i, j) : i, j \in 1..Len(history)} \ {<<>>}
Selections ==
    IF history = <<>> THEN {<<>>} ELSE Parts \cup {Reversed(part) : part \in Parts}

\* sendHistoryButtonSlot while sending: cancelSendHistory
CancelSend ==
    /\ Handle("press") /\ inProgress
    /\ FinishSend
    /\ sendTimer' = FALSE /\ toSend' = <<>>
    /\ cancelled' = TRUE
    /\ UNCHANGED <<history, connected, flight, undefined, chosen, sent, added, presses,
                   unreported>>

\* sendHistoryButtonSlot: sendHistory
StartSend ==
    /\ Handle("press") /\ ~inProgress /\ connected
    /\ inProgress' = TRUE
    /\ clearEnabled' = FALSE
    /\ \E selection \in Selections :
        /\ chosen' = selection
        /\ SendFirst(selection, <<>>)
    /\ UNCHANGED <<history, connected, sendTimer, consoleTimer, sendEnabled, user>>

RefuseSend ==
    /\ Handle("press") /\ ~inProgress /\ ~connected
    /\ UNCHANGED <<history, sending, consoleTimer, buttons, connected, user>>

\* clearHistoryButtonSlot
Clear ==
    /\ Handle("clear")
    /\ sendEnabled' = FALSE /\ clearEnabled' = FALSE
    /\ history' = <<>>
    /\ UNCHANGED <<sending, consoleTimer, connected, user>>

Refresh ==
    /\ Handle("refresh")
    /\ HistoryConsoleTimerSlot
    /\ UNCHANGED <<history, sending, connected, user>>

\* Mutant of StopTimer: the timer, which is periodic, is not stopped.
StopTimerNever == UNCHANGED sendTimer

StopTimer == sendTimer' = FALSE

\* sendHistoryTimerSlot
SendHistoryTimerSlot ==
    /\ Handle("elapsed")
    /\ StopTimer
    /\ \/ /\ connected
          /\ SendFirst(toSend, sent)
          /\ UNCHANGED <<inProgress, consoleTimer, buttons>>
       \/ /\ ~connected
          /\ FinishSend
          /\ UNCHANGED <<toSend, flight, undefined, sent>>
    /\ UNCHANGED <<history, connected, chosen, user>>

\* Mutant of MoreToSend: the answer to the last message is not noticed.
MoreAlways == TRUE

MoreToSend == toSend # <<>>

\* dataHasBeenSendSlot for SEND_ID_HISTOTRY
DataHasBeenSendSlot ==
    /\ Handle("sent")
    /\ \/ /\ MoreToSend
          /\ sendTimer' = TRUE
          /\ UNCHANGED <<inProgress, consoleTimer, buttons>>
       \/ /\ ~MoreToSend
          /\ FinishSend
          /\ UNCHANGED sendTimer
    /\ UNCHANGED <<history, connected, toSend, flight, undefined, chosen, sent, user>>
-----------------------------------------------------------------------------
Slots ==
    \/ CancelSend \/ StartSend \/ RefuseSend
    \/ Clear \/ Refresh \/ SendHistoryTimerSlot \/ DataHasBeenSendSlot

Stopped == undefined /\ UNCHANGED vars

Next ==
    \/ PressSend \/ PressClear \/ ChangeFormat
    \/ ConsoleTimerElapses \/ SendTimerElapses
    \/ Sent \/ NotReported
    \/ AddDataToSendHistory \/ CreateConfig \/ ConnectionChanges
    \/ Slots \/ Stopped

SafeSpec == Init /\ [][Next]_vars

\* The event loop runs, the timer elapses, the main interface thread goes on.
Spec ==
    /\ SafeSpec
    /\ WF_vars(Slots)
    /\ WF_vars(SendTimerElapses)
    /\ WF_vars(Sent \/ NotReported)
-----------------------------------------------------------------------------
TypeOK ==
    /\ history \in Seq(Messages) /\ Len(history) <= MaxEntries
    /\ toSend \in Seq(Messages)
    /\ inProgress \in BOOLEAN /\ sendTimer \in BOOLEAN /\ consoleTimer \in BOOLEAN
    /\ sendEnabled \in BOOLEAN /\ clearEnabled \in BOOLEAN /\ connected \in BOOLEAN
    /\ events \in Seq(Events)
    /\ flight \in Nat /\ undefined \in BOOLEAN
    /\ added \in 0..MaxAdds /\ presses \in 0..MaxPresses
    /\ cancelled \in BOOLEAN /\ unreported \in BOOLEAN
    /\ chosen \in Seq(Messages) /\ sent \in Seq(Messages)

(***************************************************************************)
(* What was handed over and what is left make up the selection, in order:  *)
(* also when the history changes, the connection is lost, or the answer to *)
(* a cancelled send arrives while the selection is sent.                   *)
(***************************************************************************)
SelectionIsSent == inProgress => sent \o toSend = chosen

(***************************************************************************)
(* Until somebody cancels, a message is handed over only when the one      *)
(* before was answered: one request, one answer or one timer at a time.    *)
(***************************************************************************)
Pending(event) == Cardinality({i \in 1..Len(events) : events[i] = event})
OneAtATime ==
    ~cancelled =>
        flight + Pending("sent") + (IF sendTimer THEN 1 ELSE Pending("elapsed")) <= 1

(***************************************************************************)
(* m_sendHistorySendData, "The history data which must be sent", is not    *)
(* empty when its first element is taken, although the timer's slot runs   *)
(* later than the timer elapsed, and the history and the connection change *)
(* meanwhile.  The two exceptions are real: a slot queued before a cancel  *)
(* runs after it, and an empty history can be sent once a change of the    *)
(* format has enabled its button.                                          *)
(***************************************************************************)
TakesHistoryData == undefined => cancelled \/ chosen = <<>>

(***************************************************************************)
(* If every send is reported, sending the history ends.                    *)
(***************************************************************************)
HistorySendEnds == inProgress ~> (~inProgress \/ undefined \/ unreported)

(***************************************************************************)
(* What comments of the code say and the code does not do (README, 4).     *)
(***************************************************************************)

\* "True if the history is currently sent": then something is still under way.
FlagIsTrue ==
    inProgress =>
        undefined \/ flight > 0 \/ Posted("sent") \/ sendTimer \/ Posted("elapsed")

\* "Adds data to the send history": the data is in it.
AddedIsKept == [][added' # added => added' \in InSeq(history')]_vars
=============================================================================

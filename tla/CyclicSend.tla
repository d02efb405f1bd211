----------------------------- MODULE CyclicSend -----------------------------
(***************************************************************************)
(* Cyclic sending of the send window (sendwindow.cpp), in the GUI thread.  *)
(*                                                                         *)
(* A run hands a message to the main interface thread, waits for its       *)
(* answer, and hands over the next one: at once, or when a timer elapses.  *)
(* A send script may compute each message; SequenceTableView::executeScript*)
(* waits for it by running the GUI's event loop, as does programIsClosing. *)
(* calls holds these activation records.  Every handler may run inside     *)
(* them, but only the innermost one can return.                            *)
(*                                                                         *)
(* The main interface thread is its promise: any request is answered some  *)
(* time, with success or failure, in any order (SendService).  Requests    *)
(* all carry the id SEND_ID_SEND_WINDOW_CYCLIC; run is known only here.    *)
(***************************************************************************)
EXTENDS Naturals, Sequences, FiniteSets

CONSTANTS
    MaxRepetitions,   \* largest repetition count entered
    Scripted,         \* {FALSE}, or BOOLEAN: runs may have a send script
    MaxPresses,       \* bound: presses of the send button in a behaviour
    MaxCancels        \* bound: those of them that cancel a run

ASSUME CyclicAssumption ==
    /\ MaxRepetitions \in Nat
    /\ Scripted \in SUBSET BOOLEAN
    /\ MaxPresses \in Nat /\ MaxCancels \in Nat

VARIABLES
    \* the members of SendWindow
    connected,        \* m_isConnected, as the queued status signal left it
    inProgress,       \* m_cyclicSendingIsInProgress
    closing,          \* m_programIsClosing: "no", "waiting" in the loop, "done"
    form,             \* m_currentSendRepetitionCount, ...Pause # 0, ...Script # ""
    count,            \* m_currentSendNumberOfSends
    timer,            \* m_currentSendTimer.isActive()
    \* calls in progress, and what is under way between the threads
    calls,            \* executeScript and programIsClosing, innermost last
    flight,           \* flight[run]: requests handed over and not answered
    answers,          \* sendingFinishedSignals queued for the GUI thread
    \* what happened, for the properties
    presses, cancels,
    run,              \* runs started so far: the current run
    own,              \* successful sends of the current run itself
    result            \* how the last run ended

vars == <<connected, inProgress, closing, form, count, timer, calls, flight, answers,
          presses, cancels, run, own, result>>

sendWindow == <<inProgress, form, count, timer, own, result>>
user == <<presses, cancels>>

Runs == 0..MaxPresses
Forms == [repetitions : 0..MaxRepetitions, pause : BOOLEAN, script : Scripted]

StartCall(f) == [kind |-> "start", form |-> f]
NextCall == [kind |-> "next", run |-> run]
CloseCall == [kind |-> "close"]

Calls ==
    [kind : {"start"}, form : Forms] \cup [kind : {"next"}, run : Runs] \cup {CloseCall}

Answers == [run : Runs, ok : BOOLEAN]

Push(call) == calls' = Append(calls, call)
Top == calls[Len(calls)]
Pop == calls' = SubSeq(calls, 1, Len(calls) - 1)

Init ==
    /\ connected \in BOOLEAN
    /\ inProgress = FALSE /\ closing = "no" /\ timer = FALSE
    /\ form \in Forms /\ count = 0
    /\ calls = <<>> /\ answers = <<>>
    /\ flight = [r \in Runs |-> 0]
    /\ presses = 0 /\ cancels = 0 /\ run = 0 /\ own = 0
    /\ result = "none"
-----------------------------------------------------------------------------
(***************************************************************************)
(* Steps the handlers share.                                               *)
(***************************************************************************)

\* emit sendDataWithTheMainInterfaceSignal(data, SEND_ID_SEND_WINDOW_CYCLIC)
Emit(r) == flight' = [flight EXCEPT ![r] = @ + 1]

\* m_currentSendTimer.stop(); m_cyclicSendingIsInProgress = false
StopRun(why) ==
    /\ timer' = FALSE /\ inProgress' = FALSE
    /\ result' = IF inProgress THEN why ELSE result

\* The part of sendDataWithTheMainInterface after its script.
StartRun(f) ==
    /\ inProgress' = TRUE
    /\ form' = f /\ count' = 0
    /\ run' = run + 1 /\ own' = 0 /\ result' = "none"
    /\ Emit(run + 1)
    /\ UNCHANGED timer

\* Mutant of SendNext: the timer, which is periodic, is not stopped.
SendNextTimerRuns ==
    /\ UNCHANGED timer
    /\ IF form.script
       THEN Push(NextCall) /\ UNCHANGED flight
       ELSE Emit(run) /\ UNCHANGED calls

\* sendTimerElapsedSlot, up to the script.
SendNext ==
    /\ timer' = (timer /\ ~form.pause)
    /\ IF form.script
       THEN Push(NextCall) /\ UNCHANGED flight
       ELSE Emit(run) /\ UNCHANGED calls
-----------------------------------------------------------------------------
(***************************************************************************)
(* The user: the send button, which is also the cancel button              *)
(* (sendButtonPressedSlot), and the main window's close button.            *)
(***************************************************************************)
Press ==
    /\ closing # "done" /\ presses < MaxPresses
    /\ presses' = presses + 1

PressCancel ==
    /\ Press /\ inProgress
    /\ cancels < MaxCancels /\ cancels' = cancels + 1
    /\ StopRun("cancelled")
    /\ UNCHANGED <<connected, closing, form, count, calls, flight, answers, run, own>>

\* Without a connection, or while closing, nothing is sent.
PressSend(f) ==
    /\ Press /\ ~inProgress
    /\ connected /\ closing = "no"
    /\ IF f.script
       THEN Push(StartCall(f)) /\ UNCHANGED <<sendWindow, flight, run>>
       ELSE StartRun(f) /\ UNCHANGED calls
    /\ UNCHANGED <<connected, closing, answers, cancels>>

\* closeEvent calls programIsClosing, which waits for the run to end.
CloseEvent ==
    /\ closing = "no"
    /\ closing' = "waiting"
    /\ Push(CloseCall)
    /\ UNCHANGED <<connected, sendWindow, flight, answers, user, run>>

CloseReturns ==
    /\ calls # <<>> /\ Top = CloseCall
    /\ ~inProgress
    /\ closing' = "done"
    /\ Pop
    /\ UNCHANGED <<connected, sendWindow, flight, answers, user, run>>
-----------------------------------------------------------------------------
(***************************************************************************)
(* executeScript returns: with the message, or empty (the script failed,   *)
(* is blocked, or has nothing to send).  Nothing is checked again: the     *)
(* run may have been cancelled, and another one started, meanwhile.        *)
(***************************************************************************)
StartScriptReturns ==
    /\ calls # <<>> /\ Top.kind = "start"
    /\ Pop
    /\ \E empty \in BOOLEAN :
        IF empty \/ inProgress
        THEN UNCHANGED <<sendWindow, flight, run>>
        ELSE StartRun(Top.form)
    /\ UNCHANGED <<connected, closing, answers, user>>

NextScriptReturns ==
    /\ calls # <<>> /\ Top.kind = "next"
    /\ Pop
    /\ \/ Emit(Top.run) /\ UNCHANGED sendWindow
       \/ StopRun("stopped") /\ UNCHANGED <<flight, form, count, own>>
    /\ UNCHANGED <<connected, closing, answers, user, run>>

\* sendTimerElapsedSlot called by the timer.
TimerElapses ==
    /\ timer
    /\ SendNext
    /\ UNCHANGED <<connected, inProgress, closing, form, count, answers, user, run, own,
                   result>>
-----------------------------------------------------------------------------
(***************************************************************************)
(* dataHasBeenSendSlot for SEND_ID_SEND_WINDOW_CYCLIC.  Nothing says which *)
(* request the answer belongs to.                                          *)
(***************************************************************************)
NextAnswer ==
    /\ answers # <<>>
    /\ answers' = Tail(answers)

Counted ==
    /\ count' = count + 1
    /\ own' = own + (IF Head(answers).run = run THEN 1 ELSE 0)

\* Mutant of LastOne: one send too few.
LastButOne == count + 1 >= form.repetitions

LastOne == count + 1 > form.repetitions

\* An answer for a run that is over.
AnswerIgnored ==
    /\ NextAnswer /\ ~inProgress
    /\ UNCHANGED <<connected, closing, sendWindow, calls, flight, user, run>>

AnswerLast ==
    /\ NextAnswer /\ Head(answers).ok /\ inProgress /\ closing = "no"
    /\ LastOne
    /\ Counted
    /\ StopRun("complete")
    /\ UNCHANGED <<connected, closing, form, calls, flight, user, run>>

AnswerNext ==
    /\ NextAnswer /\ Head(answers).ok /\ inProgress /\ closing = "no"
    /\ ~LastOne
    /\ Counted
    /\ IF form.pause
       THEN timer' = TRUE /\ UNCHANGED <<calls, flight>>
       ELSE SendNext
    /\ UNCHANGED <<connected, inProgress, closing, form, user, run, result>>

\* Mutant of AnswerWhileClosing: the answer is dropped.
DroppedWhileClosing ==
    /\ NextAnswer /\ Head(answers).ok /\ inProgress /\ closing # "no"
    /\ UNCHANGED <<connected, closing, sendWindow, calls, flight, user, run>>

AnswerWhileClosing ==
    /\ NextAnswer /\ Head(answers).ok /\ inProgress /\ closing # "no"
    /\ StopRun("stopped")
    /\ UNCHANGED <<connected, closing, form, count, own, calls, flight, user, run>>

\* Mutant of SendFailed: the error is shown, the run is left as it is.
ErrorShownOnly == UNCHANGED <<inProgress, timer, result>>

\* cyclicSendErrorReceived
SendFailed == StopRun("stopped")

AnswerFailed ==
    /\ NextAnswer /\ ~Head(answers).ok /\ inProgress
    /\ SendFailed
    /\ UNCHANGED <<connected, closing, form, count, own, calls, flight, user, run>>
-----------------------------------------------------------------------------
(***************************************************************************)
(* The main interface thread, until closeEvent tells it to exit.           *)
(***************************************************************************)
Answer(r) ==
    /\ flight[r] > 0 /\ closing # "done"
    /\ flight' = [flight EXCEPT ![r] = @ - 1]
    /\ \E ok \in BOOLEAN : answers' = Append(answers, [run |-> r, ok |-> ok])
    /\ UNCHANGED <<connected, closing, sendWindow, calls, user, run>>

\* setIsConnected, from dataConnectionStatusSlot
ConnectionChanges ==
    /\ connected' = ~connected
    /\ UNCHANGED <<closing, sendWindow, calls, flight, answers, user, run>>

HandleAnswer ==
    AnswerIgnored \/ AnswerLast \/ AnswerNext \/ AnswerWhileClosing \/ AnswerFailed

Next ==
    \/ PressCancel \/ \E f \in Forms : PressSend(f)
    \/ CloseEvent \/ CloseReturns
    \/ StartScriptReturns \/ NextScriptReturns
    \/ TimerElapses \/ HandleAnswer
    \/ \E r \in Runs : Answer(r)
    \/ ConnectionChanges

SafeSpec == Init /\ [][Next]_vars

\* The GUI's event loops run, scripts return or are found to be blocked, and
\* the main interface thread answers.
Fairness ==
    /\ WF_vars(CloseReturns)
    /\ WF_vars(StartScriptReturns \/ NextScriptReturns)
    /\ WF_vars(TimerElapses)
    /\ WF_vars(HandleAnswer)
    /\ \A r \in Runs : WF_vars(Answer(r))

Spec == SafeSpec /\ Fairness
-----------------------------------------------------------------------------
TypeOK ==
    /\ connected \in BOOLEAN /\ inProgress \in BOOLEAN /\ timer \in BOOLEAN
    /\ closing \in {"no", "waiting", "done"}
    /\ form \in Forms /\ count \in 0..(MaxRepetitions + 1)
    /\ calls \in Seq(Calls)
    /\ flight \in [Runs -> Nat]
    /\ answers \in Seq(Answers)
    /\ presses \in 0..MaxPresses /\ cancels \in 0..MaxCancels
    /\ run \in 0..presses /\ own \in Nat
    /\ result \in {"none", "complete", "stopped", "cancelled"}

InSeq(s) == {s[i] : i \in 1..Len(s)}
NextCalls == {i \in 1..Len(calls) : calls[i].kind = "next"}
\* The requests under way, those of a run numbered.
Requests == UNION {{r} \X (1..flight[r]) : r \in Runs}
InFlight == Cardinality(Requests)

\* What will continue a run: a request, its answer, a script, the timer.
Chains ==
    InFlight + Len(answers) + Cardinality(NextCalls) + (IF timer THEN 1 ELSE 0)

(***************************************************************************)
(* The timer runs only for a run in progress: however a run ends (count,   *)
(* error, cancel, empty script result, closing) it leaves no timer behind  *)
(* that would send once more.                                              *)
(***************************************************************************)
TimerOnlyInRun == timer => inProgress

(***************************************************************************)
(* A run in progress is driven: something is under way that will continue  *)
(* or end it, so the window cannot be stuck showing "cancel" while nothing *)
(* is sent, also after cancels and restarts that leave answers under way.  *)
(***************************************************************************)
RunIsDriven ==
    inProgress =>
        timer \/ answers # <<>> \/ NextCalls # {} \/ \E r \in Runs : flight[r] > 0

(***************************************************************************)
(* Only a cancel leaves a message under way that nobody waits for: the     *)
(* number of sends that drive a run never grows on its own (each would     *)
(* send at full rate).                                                     *)
(***************************************************************************)
ChainsBounded == Chains <= cancels + (IF inProgress THEN 1 ELSE 0)

Waiting == InFlight + Len(answers) > 0

Repeat == INSTANCE RepeatSend WITH
    running <- inProgress,
    waiting <- Waiting,
    left <- IF inProgress
            THEN form.repetitions + 1 - count - (IF Waiting THEN 1 ELSE 0)
            ELSE 0

(***************************************************************************)
(* As long as nobody has cancelled, a run sends in lockstep with the       *)
(* answers and is complete after exactly its repetition count plus one     *)
(* sends, whatever scripts, errors and nested event loops do.              *)
(***************************************************************************)
SendsInLockstep == Repeat!Init /\ [][cancels' = 0 => Repeat!Next]_(Repeat!vars)

\* The window was closed inside executeScript: it cannot return any more.
ScriptSuspended ==
    \E i, j \in 1..Len(calls) : i < j /\ calls[i].kind = "next" /\ calls[j] = CloseCall

(***************************************************************************)
(* The program can be closed in a run, the loop in programIsClosing gets   *)
(* its answer: however cancels, restarts, errors and scripts follow one    *)
(* another, with the one exception that ScriptCallsEnd is about.           *)
(***************************************************************************)
ProgramCloses == closing = "waiting" ~> (closing = "done" \/ ScriptSuspended)

(***************************************************************************)
(* What comments of the code say and the code does not do (README, 4).     *)
(***************************************************************************)

\* "The number of successfully sends during the current send process"
CountIsOwn == inProgress => count = own

\* "After this execution time the script thread is regarded as blocked": a
\* call of executeScript ends.
ScriptCallsEnd == (NextCalls # {}) ~> (NextCalls = {})
=============================================================================

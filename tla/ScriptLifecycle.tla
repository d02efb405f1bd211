--------------------------- MODULE ScriptLifecycle ---------------------------
(***************************************************************************)
(* The life of worker script threads (scriptwindow.cpp, scriptThread.cpp). *)
(*                                                                         *)
(* The script table of the GUI thread holds a raw pointer to the thread of *)
(* each running script.  A thread that ends posts EXITED; the GUI clears   *)
(* the pointer then and deletes the thread.  Stopping a script runs the    *)
(* GUI's event loop until the thread has ended, or shows a message box and *)
(* terminates it.  The wait remembers the row, by its number, not the      *)
(* thread.  Scripts may start, pause and stop each other; such a call      *)
(* blocks the script until the GUI thread has served it.                   *)
(*                                                                         *)
(* calls holds the stops in progress, innermost last.  Where the behaviour *)
(* of the C++ program is undefined, fault is set and the model stops.      *)
(***************************************************************************)
EXTENDS Naturals, Sequences, FiniteSets

CONSTANTS
    Scripts,       \* names of scripts
    Threads,       \* ScriptThread objects: each is created at most once
    Windowed,      \* those of them with a user interface the user can close
    NoThread,      \* a null pointer
    MaxActs        \* bound: actions of the user and calls of setScriptState

ASSUME ScriptAssumption ==
    /\ IsFiniteSet(Scripts)
    /\ NoThread \notin Threads
    /\ Windowed \subseteq Threads
    /\ MaxActs \in Nat

VARIABLES
    table,         \* rows of tableWidget: name and thread pointer
    phase,         \* phase[t]: what thread t is doing
    shallExit,     \* threads whose m_shallExit is set
    shallPause,    \* threads whose m_shallPause is set
    events,        \* signals queued for the script window
    calls,         \* calls of the GUI thread that wait in an event loop
    acts,          \* actions of the user and calls of setScriptState so far
    fault,         \* which undefined behaviour occurred, "none" so far
    disturbed      \* a row was moved, added or removed, or a script started,
                   \* inside such a call

vars == <<table, phase, shallExit, shallPause, events, calls, acts, fault, disturbed>>

Rows == 1..Len(table)
Row(s, t) == [script |-> s, thread |-> t]
InTable(t) == \E r \in Rows : table[r].thread = t

\* States of QThread and ScriptThread: "leaving" has posted EXITED but run()
\* has not returned, "calling" is blocked in setScriptState.
Running == {"running", "paused", "calling", "leaving"}
Existing == Running \cup {"finished"}
Phases == Existing \cup {"new", "terminated", "deleted"}

Exited(t) == [kind |-> "exited", thread |-> t]
Order(t, state, s) == [kind |-> "order", thread |-> t, state |-> state, script |-> s]
Orders == [kind : {"order"}, thread : Threads, state : 0..2, script : Scripts]
Events == [kind : {"exited"}, thread : Threads] \cup Orders

\* A call of stopScriptThread: where it waits, the row and the thread it looks
\* at, and what its caller (op) goes on with: the script whose row is removed,
\* or the script that gave the order.
Stop(op, row, t, for) == [op |-> op, at |-> "wait", row |-> row, thread |-> t, for |-> for]
Ops == {"button", "remove", "order", "unload", "close"}
Calls ==
    [op : Ops, at : {"wait", "box", "drain"}, row : Nat, thread : Threads \cup {NoThread},
     for : Scripts \cup Threads \cup {NoThread}]

Top == calls[Len(calls)]
Below == SubSeq(calls, 1, Len(calls) - 1)
Inside == calls # <<>>

Init ==
    /\ table \in UNION {[1..n -> [script : Scripts, thread : {NoThread}]] :
                          n \in 0..Cardinality(Scripts)}
    /\ \A i, j \in Rows : table[i].script = table[j].script => i = j
    /\ phase = [t \in Threads |-> "new"]
    /\ shallExit = {} /\ shallPause = {}
    /\ events = <<>> /\ calls = <<>>
    /\ acts = 0
    /\ fault = "none" /\ disturbed = FALSE
-----------------------------------------------------------------------------
(***************************************************************************)
(* Parts of the handlers.                                                  *)
(***************************************************************************)
Undefined(what) ==
    /\ fault' = what
    /\ UNCHANGED <<table, phase, shallExit, shallPause, events, calls, disturbed>>

SetPointer(r, t) == table' = [table EXCEPT ![r].thread = t]

\* Mutant of MayStart: a running script is started once more.
MayAlwaysStart(r) == TRUE

\* if(!currentThread)
MayStart(r) == table[r].thread = NoThread

\* startScriptThread, of which ph is phase after what its caller changes.  The
\* user interface of the script may fail to load; a running script is resumed.
StartScriptThread(r, ph, thenPause) ==
    \/ /\ MayStart(r)
       /\ \E t \in Threads :
            /\ phase[t] = "new"
            /\ phase' = [ph EXCEPT ![t] = "running"]
            /\ SetPointer(r, t)
            /\ shallPause' = IF thenPause THEN shallPause \cup {t} ELSE shallPause
       /\ disturbed' = (disturbed \/ Inside)
    \/ /\ MayStart(r)
       /\ phase' = ph
       /\ UNCHANGED <<table, shallPause, disturbed>>
    \/ /\ ~MayStart(r)
       /\ phase' = ph
       /\ shallPause' = shallPause \ {table[r].thread}
       /\ UNCHANGED <<table, disturbed>>

\* if(thread)
HasThread(r) == table[r].thread # NoThread

\* Mutant of AskToExit: exit() alone, which a script in a loop of its own ignores.
AskNobody(t) == UNCHANGED shallExit

\* thread->m_shallExit = true; thread->exit()
AskToExit(t) == shallExit' = shallExit \cup {t}

\* The start of stopScriptThread: returns at once for a row without a thread.
BeginStop(op, r, for) ==
    /\ HasThread(r)
    /\ AskToExit(table[r].thread)
    /\ calls' = Append(calls, Stop(op, r, table[r].thread, for))

\* tableWidget->removeRow(r)
WithoutRow(tab, r) == [i \in 1..(Len(tab) - 1) |-> tab[IF i < r THEN i ELSE i + 1]]

\* Mutant of Served: the semaphore of the call is not released.
NotServed(ph, t) == ph

\* The order of script t has been carried out: setScriptState returns.
Served(ph, t) == [ph EXCEPT ![t] = "running"]

\* The rows after r that stopAllScripts still has to wait for.
Remaining(r, tab) == {i \in (r + 1)..Len(tab) : tab[i].thread # NoThread}

Occupied(tab) == \E i \in 1..Len(tab) : tab[i].thread # NoThread

\* allScriptsHaveBeenStopped: the rows are removed, or the program is closed.
AllStopped(op, tab, below) ==
    /\ ~Occupied(tab)
    /\ calls' = below
    /\ table' = IF op = "unload" THEN <<>> ELSE tab
    /\ fault' = IF op = "close" THEN "closed" ELSE fault
    /\ disturbed' = (disturbed \/ below # <<>>)
    /\ UNCHANGED shallExit

\* stopAllScripts goes on behind row r of tab; below are the calls around it.
\* Then its callers wait for every row, also those that it has passed.
StopFurther(op, r, tab, below) ==
    \/ /\ \E next \in Remaining(r, tab) :
            /\ \A i \in Remaining(r, tab) : next <= i
            /\ calls' = Append(below, Stop(op, next, tab[next].thread, NoThread))
            /\ AskToExit(tab[next].thread)
       /\ table' = tab
       /\ UNCHANGED <<fault, disturbed>>
    \/ /\ Remaining(r, tab) = {} /\ Occupied(tab)
       /\ calls' = Append(below, [Stop(op, 0, NoThread, NoThread) EXCEPT !.at = "drain"])
       /\ table' = tab
       /\ UNCHANGED <<shallExit, fault, disturbed>>
    \/ AllStopped(op, tab, below)
-----------------------------------------------------------------------------
(***************************************************************************)
(* The user.  A message box (they are modal) keeps him from everything     *)
(* else; the event loops of the waits do not.                              *)
(***************************************************************************)
Press ==
    /\ fault = "none"
    /\ \A i \in 1..Len(calls) : calls[i].at # "box"
    /\ acts < MaxActs /\ acts' = acts + 1
    /\ UNCHANGED events

PressStart(r) ==
    /\ Press
    /\ StartScriptThread(r, phase, FALSE)
    /\ UNCHANGED <<shallExit, calls, fault>>

PressPause(r) ==
    /\ Press
    /\ HasThread(r)
    /\ shallPause' = shallPause \cup {table[r].thread}
    /\ UNCHANGED <<table, phase, shallExit, calls, disturbed, fault>>

PressStop(r) ==
    /\ Press
    /\ BeginStop("button", r, NoThread)
    /\ UNCHANGED <<table, phase, shallPause, disturbed, fault>>

\* removeScriptSlot
PressRemove(r) ==
    /\ Press
    /\ \/ /\ BeginStop("remove", r, table[r].script)
          /\ UNCHANGED <<table, disturbed>>
       \/ /\ ~HasThread(r)
          /\ table' = WithoutRow(table, r)
          /\ disturbed' = (disturbed \/ Inside)
          /\ UNCHANGED <<calls, shallExit>>
    /\ UNCHANGED <<phase, shallPause, fault>>

\* addScript: the new row is the first one.
PressAdd(s) ==
    /\ Press
    /\ \A r \in Rows : table[r].script # s
    /\ table' = <<Row(s, NoThread)>> \o table
    /\ disturbed' = (disturbed \/ Inside)
    /\ UNCHANGED <<phase, shallExit, shallPause, calls, fault>>

\* moveTableEntryDownSlot of row r, or moveTableEntryUpSlot of the next one
PressMove(r) ==
    /\ Press
    /\ r + 1 \in Rows
    /\ table' = [table EXCEPT ![r] = table[r + 1], ![r + 1] = table[r]]
    /\ disturbed' = (disturbed \/ Inside)
    /\ UNCHANGED <<phase, shallExit, shallPause, calls, fault>>

\* unloadConfigSlot, and closeEvent of the main window (which Qt does not nest)
PressStopAll(op) ==
    /\ Press
    /\ \A i \in 1..Len(calls) : op = "close" => calls[i].op # "close"
    /\ StopFurther(op, 0, table, calls)
    /\ UNCHANGED <<phase, shallPause>>
-----------------------------------------------------------------------------
(***************************************************************************)
(* The wait in stopScriptThread and what its caller does afterwards.       *)
(***************************************************************************)
Waits(where) == fault = "none" /\ Inside /\ Top.at = where

Named(s) == {r \in Rows : table[r].script = s}

\* stopScriptThread returns to its caller; ph and tab are what it leaves.
Return(ph, tab) ==
    \/ /\ Top.op = "button"
       /\ calls' = Below /\ phase' = ph /\ table' = tab
       /\ UNCHANGED <<shallExit, fault, disturbed>>
    \/ /\ Top.op = "remove"
       /\ \E r \in Named(Top.for) : table' = WithoutRow(tab, r)
       /\ calls' = Below /\ phase' = ph
       /\ disturbed' = (disturbed \/ Len(calls) > 1)
       /\ UNCHANGED <<shallExit, fault>>
    \/ /\ Top.op = "order" /\ ph[Top.for] = "calling"
       /\ calls' = Below /\ table' = tab
       /\ phase' = Served(ph, Top.for)
       /\ UNCHANGED <<shallExit, fault, disturbed>>
    \/ /\ Top.op \in {"unload", "close"}
       /\ StopFurther(Top.op, Top.row, tab, Below)
       /\ phase' = ph
    \* the row to be removed, or the script that gave the order, is gone
    \/ Top.op = "remove" /\ Named(Top.for) = {} /\ Undefined("noRow")
    \/ Top.op = "order" /\ ph[Top.for] # "calling" /\ Undefined("deadCaller")

\* thread != 0 and isRunning(), for the thread that is in the row by now
StillRuns(r) == table[r].thread \in {t \in Threads : phase[t] \in Running}

\* The row number is not valid any more: item() returns null.
RowIsGone ==
    /\ Waits("wait") /\ Top.row \notin Rows
    /\ Undefined("noRow")
    /\ UNCHANGED acts

\* Mutant of Clear: the pointer is left to threadStateChangedSlot.
LeaveThePointer == table

Clear == [table EXCEPT ![Top.row].thread = NoThread]

\* thread == 0, or not isRunning(): the loop ends.
StopSeesEnd ==
    /\ Waits("wait") /\ Top.row \in Rows
    /\ ~StillRuns(Top.row)
    /\ Return(phase, Clear)
    /\ UNCHANGED <<shallPause, events, acts>>

\* counter > thread->m_blockTime
StopTimesOut ==
    /\ Waits("wait") /\ Top.row \in Rows
    /\ StillRuns(Top.row)
    /\ calls' = Append(Below, [Top EXCEPT !.at = "box", !.thread = table[Top.row].thread])
    /\ table' = Clear
    /\ UNCHANGED <<phase, shallExit, shallPause, events, acts, fault, disturbed>>

\* Mutant of Terminated: the thread object is deleted as well.
TerminatedAndDeleted(t) == [phase EXCEPT ![t] = "deleted"]

\* terminateScriptThread
Terminated(t) == [phase EXCEPT ![t] = IF @ \in Running THEN "terminated" ELSE @]

BoxConfirmed ==
    /\ Waits("box")
    /\ IF phase[Top.thread] = "deleted"
       THEN Undefined("useAfterDelete")
       ELSE Return(Terminated(Top.thread), table)
    /\ UNCHANGED <<shallPause, events, acts>>

DrainEnds ==
    /\ Waits("drain")
    /\ AllStopped(Top.op, table, Below)
    /\ UNCHANGED <<phase, shallPause, events, acts>>
-----------------------------------------------------------------------------
(***************************************************************************)
(* Queued signals: in order, in whichever event loop is running.           *)
(***************************************************************************)
NextEvent(kind) ==
    /\ fault = "none"
    /\ events # <<>> /\ Head(events).kind = kind
    /\ events' = Tail(events)
    /\ UNCHANGED acts

\* Mutant of ClearPointersTo: the pointer stays in the table.
KeepPointersTo(t) == UNCHANGED table

ClearPointersTo(t) ==
    table' = [r \in Rows |-> IF table[r].thread = t THEN Row(table[r].script, NoThread)
                             ELSE table[r]]

\* threadStateChangedSlot(EXITED): a thread that is still running must not be
\* deleted.
HandleExited ==
    /\ NextEvent("exited")
    /\ LET t == Head(events).thread
       IN  IF phase[t] = "leaving"
           THEN /\ fault' = "deletedRunning"
                /\ UNCHANGED <<table, phase>>
           ELSE /\ ClearPointersTo(t)
                /\ phase' = [phase EXCEPT ![t] = "deleted"]
                /\ UNCHANGED fault
    /\ UNCHANGED <<shallExit, shallPause, calls, disturbed>>

\* setScriptStateSlot.  A script may not address its own row.
Sender == Head(events).thread
Addressed == {r \in Named(Head(events).script) : table[r].thread # Sender}

ServeOrder == NextEvent("order") /\ phase[Sender] = "calling"

HandleNoRow ==
    /\ ServeOrder /\ Addressed = {}
    /\ phase' = Served(phase, Sender)
    /\ UNCHANGED <<table, shallExit, shallPause, calls, fault, disturbed>>

\* A stopped script is started also in order to pause it.
HandleStart ==
    /\ ServeOrder
    /\ \E r \in Addressed :
        /\ Head(events).state = 0 \/ (Head(events).state = 1 /\ MayStart(r))
        /\ StartScriptThread(r, Served(phase, Sender), Head(events).state = 1)
    /\ UNCHANGED <<shallExit, calls, fault>>

HandlePause ==
    /\ ServeOrder /\ Head(events).state = 1
    /\ \E r \in Addressed :
        /\ HasThread(r)
        /\ shallPause' = shallPause \cup {table[r].thread}
    /\ phase' = Served(phase, Sender)
    /\ UNCHANGED <<table, shallExit, calls, fault, disturbed>>

HandleStop ==
    /\ ServeOrder /\ Head(events).state = 2
    /\ \E r \in Addressed :
        \/ BeginStop("order", r, Sender) /\ UNCHANGED phase
        \/ /\ ~HasThread(r)
           /\ phase' = Served(phase, Sender)
           /\ UNCHANGED <<shallExit, calls>>
    /\ UNCHANGED <<table, shallPause, fault, disturbed>>

\* The script was terminated in its call: the result and the semaphore that the
\* signal refers to were on its stack.
HandleOrderOfTerminated ==
    /\ NextEvent("order") /\ phase[Sender] # "calling"
    /\ fault' = "deadCaller"
    /\ UNCHANGED <<table, phase, shallExit, shallPause, calls, disturbed>>
-----------------------------------------------------------------------------
(***************************************************************************)
(* A script thread.                                                        *)
(***************************************************************************)
Acts(t, from, to) ==
    /\ fault = "none"
    /\ phase[t] = from /\ phase' = [phase EXCEPT ![t] = to]
    /\ UNCHANGED <<table, calls, fault, disturbed>>

\* exec() returns: somebody asked for it, or the script called stopScript.
Leave(t) ==
    /\ Acts(t, "running", "leaving")
    /\ AskToExit(t)
    /\ events' = Append(events, Exited(t))
    /\ UNCHANGED <<shallPause, acts>>

Finish(t) ==
    /\ Acts(t, "leaving", "finished")
    /\ UNCHANGED <<shallExit, shallPause, events, acts>>

\* pauseTimerSlot, and the end of its loop
Pause(t) ==
    /\ Acts(t, "running", "paused")
    /\ t \in shallPause
    /\ UNCHANGED <<shallExit, shallPause, events, acts>>

Resume(t) ==
    /\ Acts(t, "paused", "running")
    /\ t \notin shallPause \/ t \in shallExit \/ t \in Windowed
    /\ UNCHANGED <<shallExit, shallPause, events, acts>>

SetScriptState(t, state, s) ==
    /\ Acts(t, "running", "calling")
    /\ acts < MaxActs /\ acts' = acts + 1
    /\ events' = Append(events, Order(t, state, s))
    /\ UNCHANGED <<shallExit, shallPause>>

User ==
    \/ \E r \in Rows :
        PressStart(r) \/ PressPause(r) \/ PressStop(r) \/ PressRemove(r) \/ PressMove(r)
    \/ \E s \in Scripts : PressAdd(s)
    \/ \E op \in {"unload", "close"} : PressStopAll(op)

Waiting == RowIsGone \/ StopSeesEnd \/ StopTimesOut \/ BoxConfirmed \/ DrainEnds

Handle ==
    \/ HandleExited \/ HandleNoRow \/ HandleStart \/ HandlePause \/ HandleStop
    \/ HandleOrderOfTerminated

Script(t) ==
    \/ Leave(t) \/ Finish(t) \/ Pause(t) \/ Resume(t)
    \/ \E state \in 0..2, s \in Scripts : SetScriptState(t, state, s)

\* The program was closed, or its behaviour is undefined.
Over == fault # "none" /\ UNCHANGED vars

\* No thread runs, the user does nothing more, and nobody waits, or for ever.
Idle ==
    /\ fault = "none" /\ acts = MaxActs /\ events = <<>>
    /\ Inside => Top.at = "drain"
    /\ \A t \in Threads : phase[t] \notin {"running", "leaving"}
    /\ UNCHANGED vars

Next == User \/ Waiting \/ Handle \/ (\E t \in Threads : Script(t)) \/ Over \/ Idle

SafeSpec == Init /\ [][Next]_vars

\* The GUI's event loops run, and message boxes are confirmed.  A script need
\* not react to anything, but a thread that leaves run() ends.
Fairness ==
    /\ WF_vars(Waiting)
    /\ WF_vars(Handle)
    /\ \A t \in Threads : WF_vars(Finish(t))

Spec == SafeSpec /\ Fairness
-----------------------------------------------------------------------------
TypeOK ==
    /\ table \in Seq([script : Scripts, thread : Threads \cup {NoThread}])
    /\ phase \in [Threads -> Phases]
    /\ shallExit \subseteq Threads /\ shallPause \subseteq Threads
    /\ events \in Seq(Events)
    /\ calls \in Seq(Calls)
    /\ acts \in 0..MaxActs
    /\ fault \in {"none", "closed", "noRow", "deadCaller", "useAfterDelete", "deletedRunning"}
    /\ disturbed \in BOOLEAN

\* Rows refer to threads that exist, and no two rows share one.
TableIsLive ==
    /\ \A r \in Rows : table[r].thread # NoThread => phase[table[r].thread] \in Existing
    /\ \A r, q \in Rows :
        table[r].thread = table[q].thread /\ table[r].thread # NoThread => r = q

\* EXITED, which carries a raw pointer, is there once; its thread exists.
ExitedOnce ==
    \A i, j \in 1..Len(events) :
        events[i].kind = "exited" =>
            /\ phase[events[i].thread] \in {"leaving", "finished", "terminated"}
            /\ events[i] = events[j] => i = j

(***************************************************************************)
(* The pointers of the table, which every handler of the window follows    *)
(* unchecked, and those in EXITED signals, which threadStateChangedSlot    *)
(* deletes, are never dangling: a thread is deleted only when no row and   *)
(* no signal refers to it any more, however stops, restarts, moved rows    *)
(* and late EXITED signals follow one another.                             *)
(***************************************************************************)
NoDanglingThread == TableIsLive /\ ExitedOnce

\* A message box is open about this thread; it will be terminated.
InBox(t) == \E i \in 1..Len(calls) : calls[i].at = "box" /\ calls[i].thread = t

(***************************************************************************)
(* A running script can be stopped: it is in the table, or it was asked to *)
(* exit, or its termination is being confirmed.  Once rows are changed, or *)
(* a script is started, inside a stop it may not: removeScriptSlot removes *)
(* the row of a script that was started again meanwhile.                   *)
(***************************************************************************)
NoOrphans ==
    ~disturbed =>
        \A t \in Threads :
            phase[t] \in {"running", "paused", "calling"} =>
                InTable(t) \/ t \in shallExit \/ InBox(t)

\* A script that waits for its order, in the queue or in the GUI's calls.
InService(t) ==
    \/ \E i \in 1..Len(events) : events[i].kind = "order" /\ events[i].thread = t
    \/ \E i \in 1..Len(calls) : calls[i].op = "order" /\ calls[i].for = t

(***************************************************************************)
(* A script blocked in setScriptState is remembered: its order is queued,  *)
(* or is being carried out by a call that will release it.                 *)
(***************************************************************************)
CallersRemembered == \A t \in Threads : phase[t] = "calling" => InService(t)

\* "The function stops the script thread which is connected the a given row."
\* A script is terminated only after it was asked to exit.
TerminatedWereAsked ==
    \A t \in Threads : phase[t] = "terminated" => t \in shallExit

(***************************************************************************)
(* That is so until rows are changed, or a script is started, inside a     *)
(* wait, which remembers the row by its number only.                       *)
(***************************************************************************)
TerminatesTheRightOne == ~disturbed => TerminatedWereAsked

(***************************************************************************)
(* Every stop ends, also those of a script that never reacts, and with it  *)
(* unloading the configuration and closing the program: until a script is  *)
(* started inside the wait for all of them.                                *)
(***************************************************************************)
StopsEnd == (calls # <<>>) ~> (calls = <<>> \/ fault # "none" \/ disturbed)

(***************************************************************************)
(* A script's call of setScriptState returns, or the script is terminated, *)
(* also when scripts stop each other.                                      *)
(***************************************************************************)
CallsReturn ==
    \A t \in Threads : phase[t] = "calling" ~> (phase[t] # "calling" \/ fault # "none" \/ disturbed)
=============================================================================

--------------------------- MODULE SequenceScript ---------------------------
(***************************************************************************)
(* Scripts of sequences (sequencetableview.cpp): executeScript hands data  *)
(* to a script thread and waits, in an event loop of its own, for a flag.  *)
(*                                                                         *)
(* There is one thread for single and one for cyclic sequences; the flags  *)
(* belong to the thread, not to the call.  The request carries pointers    *)
(* to the local variables of executeScript.  A script that takes too long  *)
(* is terminated with its thread, and a new thread takes its place.        *)
(*                                                                         *)
(* The script threads run in parallel to the GUI thread.  A script sets a  *)
(* flag, posts its dialog to the GUI thread, waits, and clears the flag;   *)
(* the GUI thread handles what is posted to it, reads that flag, and then  *)
(* looks at the time: each of these is a step of its own.                  *)
(*                                                                         *)
(* calls is the stack of the GUI thread: calls of executeScript, which are *)
(* followed by message boxes (about a blocked script), and dialogs of the  *)
(* scripts.  Each runs an event loop, in which further calls may be made.  *)
(***************************************************************************)
EXTENDS Naturals, Sequences, FiniteSets

CONSTANTS
    Singles,       \* calls of executeScript for a single sequence
    Cyclics,       \* calls for a cyclic one
    NoCall,        \* a thread without a job
    MaxDialogs     \* bound: dialogs shown by scripts

CallIds == Singles \cup Cyclics

ASSUME SequenceAssumption ==
    /\ Singles \cap Cyclics = {}
    /\ NoCall \notin CallIds
    /\ MaxDialogs \in Nat

\* There is a script thread of each kind, from its first use on.
Kinds == {"single", "cyclic"}
Kind(c) == IF c \in Singles THEN "single" ELSE "cyclic"

VARIABLES
    \* the threads m_scriptSingle and m_scriptCyclic
    thread,        \* which thread it is: counts those it has replaced
    finished,      \* m_scriptFunctionIsFinished
    dialog,        \* m_dialogIsShown
    queue,         \* requests posted to the thread
    job,           \* the request it works on
    script,        \* where the script is
    \* the GUI thread
    posted,        \* dialogs posted to it
    calls,         \* its event loops, innermost last
    data,          \* sendData of each call
    outcome,       \* what each call returned
    \* what happened
    dialogs,       \* dialogs asked for so far
    nested,        \* kinds for which a call was made inside another one
    fault          \* memory that is no longer there was used

vars == <<thread, finished, dialog, queue, job, script, posted, calls, data, outcome,
          dialogs, nested, fault>>
scripts == <<thread, finished, dialog, queue, job, script>>
history == <<dialogs, nested, fault>>

\* Contents of sendData: as given by the caller, computed by the script, none.
Contents == {"given", "computed", "empty"}

\* The loop of executeScript: at its condition, in processEvents, and after it has
\* seen that no dialog is shown.
Loops == {"test", "events", "checked"}

\* Of a script: m_dialogIsShown is set; the dialog is posted; its answer is there.
Places == {"runs", "asks", "waits", "answered"}

Loop(c) == [at |-> "test", kind |-> Kind(c), call |-> c]
Request(k) == [at |-> "dialog", kind |-> k, thread |-> thread[k]]

Dialogs == [at : {"dialog"}, kind : Kinds, thread : Nat]
Frames == [at : Loops \cup {"box"}, kind : Kinds, call : CallIds] \cup Dialogs

Top == calls[Len(calls)]
Pop == calls' = SubSeq(calls, 1, Len(calls) - 1)
Push(frame) == calls' = Append(calls, frame)
GoTo(place) == calls' = [calls EXCEPT ![Len(calls)].at = place]

\* The calls that wait for the thread of kind k.
Waiting(k) ==
    {calls[i].call : i \in {j \in 1..Len(calls) : calls[j].at \in Loops /\ calls[j].kind = k}}

\* Call c has not returned: its local variables exist.
InCalls(c) == \E i \in 1..Len(calls) : calls[i].at # "dialog" /\ calls[i].call = c

\* The thread that a dialog was posted by has not been terminated.
HasThread(d) == d.thread = thread[d.kind]

NoFault == fault = "none"

Init ==
    /\ thread = [k \in Kinds |-> 0]
    /\ finished = [k \in Kinds |-> TRUE]
    /\ dialog = [k \in Kinds |-> FALSE]
    /\ queue = [k \in Kinds |-> <<>>]
    /\ job = [k \in Kinds |-> NoCall]
    /\ script = [k \in Kinds |-> "runs"]
    /\ posted = <<>> /\ calls = <<>>
    /\ data = [c \in CallIds |-> "given"]
    /\ outcome = [c \in CallIds |-> "none"]
    /\ dialogs = 0 /\ nested = {} /\ fault = "none"
-----------------------------------------------------------------------------
(***************************************************************************)
(* executeScript in the GUI thread.                                        *)
(***************************************************************************)
InEventLoop == calls # <<>> => Top.at \in {"events", "box", "dialog"}

\* A user who faces a message box cannot send a single sequence; a timer or an
\* answer may still continue a cyclic one.
MayCall(k) == k = "single" => \A i \in 1..Len(calls) : calls[i].at \in Loops

\* Mutant of FlagAtCall: the flag of the last call is not reset.
FlagKept(k) == UNCHANGED finished

FlagAtCall(k) == finished' = [finished EXCEPT ![k] = FALSE]

Execute(c) ==
    /\ NoFault /\ InEventLoop /\ MayCall(Kind(c))
    /\ outcome[c] = "none" /\ ~InCalls(c)
    /\ FlagAtCall(Kind(c))
    /\ queue' = [queue EXCEPT ![Kind(c)] = Append(@, c)]
    /\ Push(Loop(c))
    /\ nested' = nested \cup (IF Waiting(Kind(c)) = {} THEN {} ELSE {Kind(c)})
    /\ UNCHANGED <<thread, dialog, job, script, posted, data, outcome, dialogs, fault>>

LoopIs(place) == NoFault /\ calls # <<>> /\ Top.at = place

\* Events are handled until the loop goes on.
Continues ==
    /\ LoopIs("test") /\ ~finished[Top.kind]
    /\ GoTo("events")
    /\ UNCHANGED <<scripts, posted, data, outcome, history>>

\* The loop ends by the flag of the thread that there is now.
SeesFinished ==
    /\ LoopIs("test") /\ finished[Top.kind]
    /\ outcome' = [outcome EXCEPT ![Top.call] = data[Top.call]]
    /\ Pop
    /\ UNCHANGED <<scripts, posted, data, history>>

\* Mutants of MayTimeOut: no script is regarded as blocked; dialogs count too.
NeverBlocked(k) == FALSE
DialogCounts(k) == TRUE

\* The time in which a dialog is shown does not count.
MayTimeOut(k) == ~dialog[k]

\* After processEvents: callTime starts anew when a dialog is shown.
ReadsDialog ==
    /\ LoopIs("events")
    /\ GoTo(IF MayTimeOut(Top.kind) THEN "checked" ELSE "test")
    /\ UNCHANGED <<scripts, posted, data, outcome, history>>

\* m_blockTime is not over.
HasTime ==
    /\ LoopIs("checked")
    /\ GoTo("test")
    /\ UNCHANGED <<scripts, posted, data, outcome, history>>

\* Mutant of DropPosted: the requests of the old thread go to the new one.
KeepPosted(k) == queue' = queue

\* disconnect, removePostedEvents
DropPosted(k) == queue' = [queue EXCEPT ![k] = <<>>]

\* terminateThread and createThread: a new object with a set flag and no dialog.
\* What the old thread posted to the GUI thread stays there.
ReplaceThread(k) ==
    /\ thread' = [thread EXCEPT ![k] = @ + 1]
    /\ finished' = [finished EXCEPT ![k] = TRUE]
    /\ dialog' = [dialog EXCEPT ![k] = FALSE]
    /\ DropPosted(k)
    /\ job' = [job EXCEPT ![k] = NoCall]
    /\ script' = [script EXCEPT ![k] = "runs"]

\* Mutant of ClearData: the data are sent as they are.
SendAnyway(c) == UNCHANGED data

ClearData(c) == data' = [data EXCEPT ![c] = "empty"]

\* The script may have ended, or asked for a dialog, since the loop looked.
TimesOut ==
    /\ LoopIs("checked")
    /\ ReplaceThread(Top.kind)
    /\ ClearData(Top.call)
    /\ GoTo("box")
    /\ UNCHANGED <<posted, outcome, history>>

\* QMessageBox: "... is blocked"
BoxConfirmed ==
    /\ LoopIs("box")
    /\ outcome' = [outcome EXCEPT ![Top.call] = data[Top.call]]
    /\ Pop
    /\ UNCHANGED <<scripts, posted, data, history>>

\* The GUI thread shows a dialog on top of what it does.
DialogOpens ==
    /\ NoFault /\ InEventLoop /\ posted # <<>>
    /\ Push(Head(posted)) /\ posted' = Tail(posted)
    /\ UNCHANGED <<scripts, data, outcome, history>>

\* The answer goes to the stack of the thread, if that is still there.
DialogCloses ==
    /\ LoopIs("dialog")
    /\ Pop
    /\ IF HasThread(Top)
       THEN script' = [script EXCEPT ![Top.kind] = "answered"] /\ UNCHANGED fault
       ELSE fault' \in {"none", "answer"} /\ UNCHANGED script
    /\ UNCHANGED <<thread, finished, dialog, queue, job, posted, data, outcome, dialogs,
                   nested>>
-----------------------------------------------------------------------------
(***************************************************************************)
(* executeScriptSlot in a script thread.                                   *)
(***************************************************************************)
\* A variable of call c is used, which exists if its frame does.
Uses(c) == fault' = IF InCalls(c) THEN "none" ELSE "variable"

Take(k) ==
    /\ NoFault /\ job[k] = NoCall /\ queue[k] # <<>>
    /\ job' = [job EXCEPT ![k] = Head(queue[k])]
    /\ queue' = [queue EXCEPT ![k] = Tail(@)]
    /\ Uses(Head(queue[k]))
    /\ UNCHANGED <<thread, finished, dialog, script, posted, calls, data, outcome, dialogs,
                   nested>>

ScriptIs(k, place) == NoFault /\ job[k] # NoCall /\ script[k] = place

\* The script returns data or nothing, or fails.
ScriptEnds(k) ==
    /\ ScriptIs(k, "runs")
    /\ Uses(job[k])
    /\ \E d \in {"computed", "empty"} : data' = [data EXCEPT ![job[k]] = d]
    /\ finished' = [finished EXCEPT ![k] = TRUE]
    /\ job' = [job EXCEPT ![k] = NoCall]
    /\ UNCHANGED <<thread, dialog, queue, script, posted, calls, outcome, dialogs, nested>>

\* A dialog of the script, also one about an error: first the flag, ...
AsksForDialog(k) ==
    /\ ScriptIs(k, "runs")
    /\ dialogs < MaxDialogs /\ dialogs' = dialogs + 1
    /\ dialog' = [dialog EXCEPT ![k] = TRUE]
    /\ script' = [script EXCEPT ![k] = "asks"]
    /\ UNCHANGED <<thread, finished, queue, job, posted, calls, data, outcome, nested, fault>>

\* ... then a signal that waits until the GUI thread has handled it, ...
PostsDialog(k) ==
    /\ ScriptIs(k, "asks")
    /\ posted' = Append(posted, Request(k))
    /\ script' = [script EXCEPT ![k] = "waits"]
    /\ UNCHANGED <<thread, finished, dialog, queue, job, calls, data, outcome, history>>

\* ... and the flag again.
LeavesDialog(k) ==
    /\ ScriptIs(k, "answered")
    /\ dialog' = [dialog EXCEPT ![k] = FALSE]
    /\ script' = [script EXCEPT ![k] = "runs"]
    /\ UNCHANGED <<thread, finished, queue, job, posted, calls, data, outcome, history>>

\* A call waits, inside the dialog of a script, for the thread of that script,
\* which waits for the dialog: neither ends, and the time does not count.
Buried ==
    \E i, j \in 1..Len(calls) :
        /\ i < j /\ calls[i].at = "dialog" /\ HasThread(calls[i])
        /\ calls[j].at \in Loops /\ calls[j].kind = calls[i].kind

Stopped ==
    /\ ~NoFault \/ Buried \/ \A c \in CallIds : outcome[c] # "none"
    /\ UNCHANGED vars

LoopStep ==
    \/ Continues \/ SeesFinished \/ ReadsDialog \/ HasTime \/ TimesOut
    \/ BoxConfirmed \/ DialogCloses

Next ==
    \/ \E c \in CallIds : Execute(c)
    \/ LoopStep \/ DialogOpens
    \/ \E k \in Kinds :
        \/ Take(k) \/ ScriptEnds(k)
        \/ AsksForDialog(k) \/ PostsDialog(k) \/ LeavesDialog(k)
    \/ Stopped

SafeSpec == Init /\ [][Next]_vars

\* The GUI's loops run, handle what is posted, and the block time passes; the user
\* closes dialogs; a script thread gets from the flag to the signal, and from the
\* answer to the flag.  Scripts need not end.
Fairness ==
    /\ WF_vars(LoopStep) /\ SF_vars(TimesOut) /\ SF_vars(DialogOpens)
    /\ \A k \in Kinds : WF_vars(PostsDialog(k)) /\ WF_vars(LeavesDialog(k))

Spec == SafeSpec /\ Fairness
-----------------------------------------------------------------------------
TypeOK ==
    /\ thread \in [Kinds -> Nat]
    /\ finished \in [Kinds -> BOOLEAN] /\ dialog \in [Kinds -> BOOLEAN]
    /\ queue \in [Kinds -> Seq(CallIds)]
    /\ job \in [Kinds -> CallIds \cup {NoCall}]
    /\ script \in [Kinds -> Places]
    /\ posted \in Seq(Dialogs) /\ calls \in Seq(Frames)
    /\ data \in [CallIds -> Contents]
    /\ outcome \in [CallIds -> Contents \cup {"none"}]
    /\ dialogs \in 0..MaxDialogs
    /\ nested \subseteq Kinds /\ fault \in {"none", "variable", "answer"}

\* The GUI thread shows, at depth i, a dialog that its script waits for.
ShownFor(i) == i \in 1..Len(calls) /\ calls[i].at = "dialog" /\ HasThread(calls[i])

ShownStays == \A i \in 1..Len(calls) : ShownFor(i) /\ i <= Len(calls') => ShownFor(i)'

(***************************************************************************)
(* No script is terminated under the dialog that the GUI thread shows for  *)
(* it, by a call of any depth: that dialog stays the one of a thread that  *)
(* exists until it is closed.  (A script may be terminated that asked for  *)
(* a dialog after the loop had looked at the flag: the dialog of a thread  *)
(* that is gone appears then, and its answer is written to freed memory.)  *)
(* This is about the order of three steps of each thread.                  *)
(***************************************************************************)
DialogKeepsThread == [][ShownStays]_vars

Requests(k) == {queue[k][i] : i \in 1..Len(queue[k])} \cup ({job[k]} \ {NoCall})

(***************************************************************************)
(* The pointers a script thread holds, or will get, are to variables of    *)
(* calls that still wait for it: a call only returns with its request done *)
(* or withdrawn.  Scripts that are blocked, replaced threads and calls of  *)
(* the other kind do not change that; a nested call of the same kind does. *)
(***************************************************************************)
RequestsAreLive ==
    /\ \A k \in Kinds \ nested : Requests(k) \subseteq Waiting(k)
    /\ fault = "variable" => nested # {}

\* "@return The resulting data from the script."
ReturnsScriptData == \A c \in CallIds : outcome[c] # "given"

(***************************************************************************)
(* The data the caller gave are never sent as they are: what is returned   *)
(* was computed by the script, or nothing is.  This too holds as long as   *)
(* calls of the kind are not nested, whatever the other kind does.         *)
(***************************************************************************)
ScriptDataOrNothing ==
    \A c \in CallIds : outcome[c] = "given" => Kind(c) \in nested

(***************************************************************************)
(* Every call of executeScript ends, also when scripts hang, when calls    *)
(* are nested, and when the thread is replaced under an outer call.  Only  *)
(* a call made inside the dialog of a script of its kind does not.         *)
(***************************************************************************)
EveryCallEnds == \A c \in CallIds : InCalls(c) ~> (~InCalls(c) \/ ~NoFault \/ Buried)
=============================================================================

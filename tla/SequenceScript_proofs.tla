----------------------- MODULE SequenceScript_proofs -----------------------
(***************************************************************************)
(* Proofs about SequenceScript, for any number of calls, nested to any     *)
(* depth, and any number of dialogs.                                       *)
(*                                                                         *)
(* The flag of a thread says nothing about a call by itself.  What makes   *)
(* it work, as long as calls of a kind are not nested, is that there is    *)
(* one waiting call at most, and that the request is with the thread       *)
(* exactly until the flag is set (KindInv).  A dialog is protected by the  *)
(* order in which its script sets the flag and posts it (DialogInv), and   *)
(* the loop handles events and reads the flag (CheckedInv).                *)
(***************************************************************************)
EXTENDS SequenceScript, SequenceTheorems, TLAPS

Depth == 1..Len(calls)
PostedDepth == 1..Len(posted)

LoopAt(i, k) == calls[i].at \in Loops /\ calls[i].kind = k
DialogAt(i, k) == calls[i].at = "dialog" /\ calls[i].kind = k

\* Dialogs of the thread that there is now, on the GUI's stack and on their way.
ShownAt(i, k) == DialogAt(i, k) /\ calls[i].thread = thread[k]
PostedAt(i, k) == posted[i].kind = k /\ posted[i].thread = thread[k]

\* Loops and boxes wait for the thread of the kind of their call.
FramesOfCalls ==
    \A i \in Depth : calls[i].at # "dialog" => calls[i].kind = Kind(calls[i].call)

\* The thread is given one request at a time.
OneRequest(k) == queue[k] = <<>> \/ (Len(queue[k]) = 1 /\ job[k] = NoCall)

OneLoop(k) == \A i, j \in Depth : LoopAt(i, k) /\ LoopAt(j, k) => i = j

\* A call that may return has got its data.
FinishedHasData(k) ==
    finished[k] => \A i \in Depth : LoopAt(i, k) => data[calls[i].call] # "given"

KindInv(k) ==
    /\ OneLoop(k)
    /\ OneRequest(k)
    /\ Requests(k) = IF finished[k] THEN {} ELSE Waiting(k)
    /\ FinishedHasData(k)

\* A call whose script was blocked has no data.
BoxHasNoData == \A i \in Depth : calls[i].at = "box" => data[calls[i].call] # "given"

TypeInv == TypeOK /\ FramesOfCalls

FaultInv == fault = "variable" => nested # {}

RequestInv == FaultInv /\ BoxHasNoData /\ \A k \in Kinds \ nested : KindInv(k)

Inv == TypeInv /\ RequestInv /\ ScriptDataOrNothing
-----------------------------------------------------------------------------
(***************************************************************************)
(* The stack of the GUI thread.                                            *)
(***************************************************************************)
LEMMA FrameIs ==
    ASSUME NEW f \in Frames
    PROVE  /\ f.at \in Loops \cup {"box", "dialog"} /\ f.kind \in Kinds
           /\ f.at # "dialog" => f.call \in CallIds
           /\ f.at = "dialog" => f \in Dialogs /\ f.thread \in Nat
  BY DEF Frames, Dialogs, Loops

LEMMA LoopFrame ==
    ASSUME NEW c \in CallIds
    PROVE  Loop(c) \in Frames /\ Loop(c).at = "test" /\ Loop(c).kind = Kind(c)
           /\ Loop(c).call = c /\ Kind(c) \in Kinds
  BY DEF Loop, Frames, Loops, Kind, Kinds

LEMMA PushCalls ==
    ASSUME calls \in Seq(Frames), NEW f \in Frames, Push(f)
    PROVE  /\ calls' \in Seq(Frames) /\ Len(calls) \in Nat
           /\ Len(calls') = Len(calls) + 1 /\ calls'[Len(calls) + 1] = f
           /\ \A i \in Depth : calls'[i] = calls[i]
           /\ Depth' = Depth \cup {Len(calls) + 1} /\ Len(calls) + 1 \notin Depth
  <1>1. /\ calls' \in Seq(Frames) /\ Len(calls) \in Nat
        /\ Len(calls') = Len(calls) + 1 /\ calls'[Len(calls) + 1] = f
        /\ \A i \in 1..Len(calls) : calls'[i] = calls[i]
    BY AppendProperties, LenProperties DEF Push
  <1> QED
    BY <1>1 DEF Depth

LEMMA TopFrame ==
    ASSUME calls \in Seq(Frames), calls # <<>>
    PROVE  Len(calls) \in Nat \ {0} /\ Len(calls) \in Depth /\ Top \in Frames
           /\ Top = calls[Len(calls)]
  <1>1. Len(calls) \in Nat \ {0}
    BY EmptySeq, LenProperties
  <1>2. Len(calls) \in Depth
    BY <1>1 DEF Depth
  <1> QED
    BY <1>1, <1>2, ElementOfSeq DEF Top, Depth

LEMMA PopCalls ==
    ASSUME calls \in Seq(Frames), calls # <<>>, Pop
    PROVE  /\ calls' \in Seq(Frames) /\ Len(calls') = Len(calls) - 1
           /\ Depth' = Depth \ {Len(calls)}
           /\ \A i \in Depth' : calls'[i] = calls[i]
  <1> DEFINE n == Len(calls)
  <1>1. n \in Nat \ {0}
    BY TopFrame
  <1>2. \A i \in 1..n : calls[i] \in Frames
    BY ElementOfSeq
  <1>3. /\ calls' \in Seq(Frames)
        /\ Len(calls') = IF 1 <= n - 1 THEN n - 1 - 1 + 1 ELSE 0
        /\ \A i \in 1..(n - 1 - 1 + 1) : calls'[i] = calls[1 + i - 1]
    BY <1>1, <1>2, SubSeqProperties DEF Pop
  <1> HIDE DEF n
  <1>4. Len(calls') = n - 1
    BY <1>1, <1>3
  <1>5. 1..(n - 1) = (1..n) \ {n}
    BY <1>1
  <1>6. \A i \in 1..(n - 1) : calls'[i] = calls[i]
    BY <1>1, <1>3
  <1> QED
    BY <1>3, <1>4, <1>5, <1>6 DEF n, Depth

\* A call of executeScript goes on to another place.
LEMMA GoToCalls ==
    ASSUME calls \in Seq(Frames), calls # <<>>, NEW place \in Loops \cup {"box"},
           Top.at # "dialog", GoTo(place)
    PROVE  /\ calls' \in Seq(Frames) /\ Len(calls') = Len(calls) /\ Depth' = Depth
           /\ \A i \in Depth \ {Len(calls)} : calls'[i] = calls[i]
           /\ calls'[Len(calls)].at = place
           /\ calls'[Len(calls)].kind = Top.kind /\ calls'[Len(calls)].call = Top.call
  <1> DEFINE f == [Top EXCEPT !.at = place]
  <1>1. Top \in [at : Loops \cup {"box"}, kind : Kinds, call : CallIds]
    BY TopFrame DEF Frames, Dialogs
  <1>2. f \in Frames /\ f.at = place /\ f.kind = Top.kind /\ f.call = Top.call
    BY <1>1 DEF Frames
  <1>3. calls' = [calls EXCEPT ![Len(calls)] = f]
    BY DEF GoTo, Top
  <1> HIDE DEF f
  <1>4. /\ calls' \in Seq(Frames) /\ Len(calls') = Len(calls)
        /\ \A i \in 1..Len(calls) : calls'[i] = IF i = Len(calls) THEN f ELSE calls[i]
    BY <1>2, <1>3, ExceptSeq, TopFrame DEF Depth
  <1> QED
    BY <1>2, <1>4, TopFrame DEF Depth

\* The calls that wait, elementwise.
LEMMA WaitingIs ==
    ASSUME NEW k
    PROVE  \A c : c \in Waiting(k) <=> \E i \in Depth : LoopAt(i, k) /\ calls[i].call = c
  BY DEF Waiting, Depth, LoopAt
-----------------------------------------------------------------------------
(***************************************************************************)
(* The dialogs posted to the GUI thread.                                   *)
(***************************************************************************)
LEMMA PostCalls ==
    ASSUME posted \in Seq(Dialogs), NEW d \in Dialogs, posted' = Append(posted, d)
    PROVE  /\ posted' \in Seq(Dialogs)
           /\ PostedDepth' = PostedDepth \cup {Len(posted) + 1}
           /\ Len(posted) + 1 \notin PostedDepth
           /\ posted'[Len(posted) + 1] = d
           /\ \A i \in PostedDepth : posted'[i] = posted[i]
  <1>1. /\ posted' \in Seq(Dialogs) /\ Len(posted) \in Nat
        /\ Len(posted') = Len(posted) + 1 /\ posted'[Len(posted) + 1] = d
        /\ \A i \in 1..Len(posted) : posted'[i] = posted[i]
    BY AppendProperties, LenProperties
  <1> QED
    BY <1>1 DEF PostedDepth

LEMMA TakePosted ==
    ASSUME posted \in Seq(Dialogs), posted # <<>>, posted' = Tail(posted)
    PROVE  /\ posted' \in Seq(Dialogs)
           /\ Head(posted) = posted[1] /\ 1 \in PostedDepth /\ Head(posted) \in Dialogs
           /\ \A i \in PostedDepth' : i + 1 \in PostedDepth \ {1} /\ posted'[i] = posted[i + 1]
           /\ \A i \in PostedDepth \ {1} : i - 1 \in PostedDepth' /\ posted'[i - 1] = posted[i]
  <1>1. Len(posted) \in Nat \ {0}
    BY EmptySeq, LenProperties
  <1>2. /\ posted' \in Seq(Dialogs) /\ Len(posted') = Len(posted) - 1
        /\ Head(posted) = posted[1] /\ Head(posted) \in Dialogs
        /\ \A i \in 1..(Len(posted) - 1) : posted'[i] = posted[i + 1]
    BY <1>1, HeadTailProperties, ElementOfSeq
  <1> QED
    BY <1>1, <1>2 DEF PostedDepth
-----------------------------------------------------------------------------
(***************************************************************************)
(* Type correctness.                                                       *)
(***************************************************************************)
LEMMA TypeInit == Init => TypeInv
  <1> SUFFICES ASSUME Init PROVE TypeInv
    OBVIOUS
  <1>1. \A S : <<>> \in Seq(S) /\ Len(<<>>) = 0
    BY EmptySeq
  <1>2. FramesOfCalls
    BY <1>1 DEF Init, FramesOfCalls, Depth
  <1>3. TypeOK
    <2>1. <<>> \in Seq(CallIds) /\ <<>> \in Seq(Frames) /\ <<>> \in Seq(Dialogs)
      BY <1>1
    <2>2. dialogs \in 0..MaxDialogs
      BY SequenceAssumption DEF Init
    <2> QED
      BY <2>1, <2>2 DEF Init, TypeOK, Contents, Places
  <1> QED
    BY <1>2, <1>3 DEF TypeInv

LEMMA QueueType ==
    ASSUME TypeOK, NEW k \in Kinds
    PROVE  /\ \A c \in CallIds : [queue EXCEPT ![k] = Append(@, c)] \in [Kinds -> Seq(CallIds)]
           /\ [queue EXCEPT ![k] = <<>>] \in [Kinds -> Seq(CallIds)]
           /\ queue[k] # <<>> =>
                /\ Head(queue[k]) \in CallIds
                /\ [queue EXCEPT ![k] = Tail(@)] \in [Kinds -> Seq(CallIds)]
  <1>1. queue[k] \in Seq(CallIds) /\ queue \in [Kinds -> Seq(CallIds)]
    BY DEF TypeOK
  <1>2. \A c \in CallIds : Append(queue[k], c) \in Seq(CallIds)
    BY <1>1, AppendProperties
  <1>3. <<>> \in Seq(CallIds)
    BY EmptySeq
  <1>4. queue[k] # <<>> => Head(queue[k]) \in CallIds /\ Tail(queue[k]) \in Seq(CallIds)
    BY <1>1, HeadTailProperties
  <1> QED
    BY <1>1, <1>2, <1>3, <1>4

\* The frames are those before the step, some fewer, or one more.
LEMMA FramesPop ==
    ASSUME TypeInv, calls # <<>>, Pop
    PROVE  calls' \in Seq(Frames) /\ FramesOfCalls'
  <1>1. calls \in Seq(Frames) /\ FramesOfCalls
    BY DEF TypeInv, TypeOK
  <1> QED
    BY <1>1, PopCalls DEF FramesOfCalls

LEMMA FramesPush ==
    ASSUME TypeInv, NEW f \in Frames, Push(f), f.at # "dialog" => f.kind = Kind(f.call)
    PROVE  calls' \in Seq(Frames) /\ FramesOfCalls'
  <1>1. calls \in Seq(Frames) /\ FramesOfCalls
    BY DEF TypeInv, TypeOK
  <1> QED
    BY <1>1, PushCalls DEF FramesOfCalls

LEMMA FramesGo ==
    ASSUME TypeInv, calls # <<>>, NEW place \in Loops \cup {"box"}, Top.at # "dialog",
           GoTo(place)
    PROVE  calls' \in Seq(Frames) /\ FramesOfCalls'
  <1>1. calls \in Seq(Frames) /\ FramesOfCalls
    BY DEF TypeInv, TypeOK
  <1>2. Top.kind = Kind(Top.call)
    BY <1>1, TopFrame DEF FramesOfCalls
  <1> QED
    BY <1>1, <1>2, GoToCalls DEF FramesOfCalls

\* The innermost call of executeScript.
LEMMA TopCall ==
    ASSUME TypeInv, calls # <<>>, Top.at # "dialog"
    PROVE  Top.call \in CallIds /\ Top.kind = Kind(Top.call) /\ Top.kind \in Kinds
  <1>1. calls \in Seq(Frames) /\ FramesOfCalls
    BY DEF TypeInv, TypeOK
  <1> QED
    BY <1>1, TopFrame, FrameIs DEF FramesOfCalls

LEMMA TypeStep == TypeInv /\ [Next]_vars => TypeInv'
  <1> SUFFICES ASSUME TypeInv, [Next]_vars PROVE TypeInv'
    OBVIOUS
  <1> USE DEF TypeInv
  <1>0. calls \in Seq(Frames)
    BY DEF TypeOK
  <1>1. ASSUME NEW c \in CallIds, Execute(c) PROVE TypeInv'
    <2>1. calls' \in Seq(Frames) /\ FramesOfCalls'
      BY <1>1, LoopFrame, FramesPush DEF Execute
    <2>2. TypeOK'
      BY <1>1, <2>1, LoopFrame, QueueType DEF Execute, FlagAtCall, TypeOK
    <2> QED
      BY <2>1, <2>2
  <1>2. CASE Continues \/ ReadsDialog \/ HasTime
    <2>1. PICK place \in Loops \cup {"box"} : calls # <<>> /\ Top.at # "dialog" /\ GoTo(place)
      BY <1>2 DEF Continues, ReadsDialog, HasTime, LoopIs, Loops
    <2>2. calls' \in Seq(Frames) /\ FramesOfCalls'
      BY <2>1, FramesGo
    <2>3. TypeOK'
      BY <1>2, <2>2 DEF Continues, ReadsDialog, HasTime, TypeOK, scripts, history
    <2> QED
      BY <2>2, <2>3
  <1>3. CASE SeesFinished \/ BoxConfirmed
    <2>1. calls # <<>> /\ Top.at # "dialog" /\ Pop
      BY <1>3 DEF SeesFinished, BoxConfirmed, LoopIs
    <2>2. calls' \in Seq(Frames) /\ FramesOfCalls' /\ Top.call \in CallIds
      BY <2>1, FramesPop, TopCall
    <2>3. TypeOK'
      BY <1>3, <2>2 DEF SeesFinished, BoxConfirmed, TypeOK, scripts, history
    <2> QED
      BY <2>2, <2>3
  <1>4. CASE TimesOut
    <2>1. calls # <<>> /\ Top.at # "dialog" /\ GoTo("box")
      BY <1>4 DEF TimesOut, LoopIs
    <2>2. calls' \in Seq(Frames) /\ FramesOfCalls'
      BY <2>1, FramesGo
    <2>3. Top.call \in CallIds /\ Top.kind \in Kinds
      BY <2>1, TopCall
    <2>4. thread' \in [Kinds -> Nat] /\ script' \in [Kinds -> Places]
      BY <1>4, <2>3 DEF TimesOut, ReplaceThread, TypeOK, Places
    <2>5. TypeOK'
      BY <1>4, <2>2, <2>3, <2>4, QueueType
      DEF TimesOut, TypeOK, ReplaceThread, DropPosted, ClearData, Contents, history
    <2> QED
      BY <2>2, <2>5
  <1>5. CASE DialogOpens
    <2>1. /\ Head(posted) \in Dialogs /\ posted' \in Seq(Dialogs) /\ Push(Head(posted))
      BY <1>5, TakePosted DEF DialogOpens, TypeOK
    <2>2. Head(posted) \in Frames /\ Head(posted).at = "dialog"
      BY <2>1 DEF Frames, Dialogs
    <2>3. calls' \in Seq(Frames) /\ FramesOfCalls'
      BY <2>1, <2>2, FramesPush
    <2>4. TypeOK'
      BY <1>5, <2>1, <2>3 DEF DialogOpens, TypeOK, scripts, history
    <2> QED
      BY <2>3, <2>4
  <1>6. CASE DialogCloses
    <2>1. Pop /\ calls # <<>> /\ Top \in Frames
      BY <1>0, <1>6, TopFrame DEF DialogCloses, LoopIs
    <2>2. calls' \in Seq(Frames) /\ FramesOfCalls' /\ Top.kind \in Kinds
      BY <2>1, FramesPop, FrameIs
    <2>3. script' \in [Kinds -> Places] /\ fault' \in {"none", "variable", "answer"}
      <3>1. CASE HasThread(Top)
        BY <1>6, <2>2, <3>1 DEF DialogCloses, TypeOK, Places
      <3>2. CASE ~HasThread(Top)
        BY <1>6, <3>2 DEF DialogCloses, TypeOK
      <3> QED
        BY <3>1, <3>2
    <2>4. TypeOK'
      BY <1>6, <2>2, <2>3 DEF DialogCloses, TypeOK
    <2> QED
      BY <2>2, <2>4
  <1>7. ASSUME NEW k \in Kinds, Take(k) PROVE TypeInv'
    <2>1. TypeOK'
      <3>1. fault' \in {"none", "variable", "answer"}
        BY <1>7 DEF Take, Uses
      <3> QED
        BY <1>7, <3>1, QueueType DEF Take, TypeOK
    <2>2. FramesOfCalls'
      BY <1>7 DEF Take, FramesOfCalls, Depth
    <2> QED
      BY <2>1, <2>2
  <1>8. ASSUME NEW k \in Kinds, ScriptEnds(k) PROVE TypeInv'
    <2>1. TypeOK'
      <3>1. fault' \in {"none", "variable", "answer"}
        BY <1>8 DEF ScriptEnds, Uses
      <3>2. data' \in [CallIds -> Contents]
        BY <1>8 DEF ScriptEnds, ScriptIs, TypeOK, Contents
      <3> QED
        BY <1>8, <3>1, <3>2 DEF ScriptEnds, TypeOK
    <2>2. FramesOfCalls'
      BY <1>8 DEF ScriptEnds, FramesOfCalls, Depth
    <2> QED
      BY <2>1, <2>2
  <1>9. ASSUME NEW k \in Kinds, AsksForDialog(k) \/ PostsDialog(k) \/ LeavesDialog(k)
        PROVE  TypeInv'
    <2>1. script' \in [Kinds -> Places] /\ dialog' \in [Kinds -> BOOLEAN]
      BY <1>9 DEF AsksForDialog, PostsDialog, LeavesDialog, TypeOK, Places
    <2>2. dialogs' \in 0..MaxDialogs
      BY <1>9, SequenceAssumption DEF AsksForDialog, PostsDialog, LeavesDialog, history, TypeOK
    <2>3. posted' \in Seq(Dialogs)
      <3>1. Request(k) \in Dialogs
        BY DEF Request, Dialogs, TypeOK
      <3> QED
        BY <1>9, <3>1, PostCalls DEF AsksForDialog, PostsDialog, LeavesDialog, TypeOK
    <2>4. /\ UNCHANGED <<thread, finished, queue, job, calls, data, outcome, nested, fault>>
      BY <1>9 DEF AsksForDialog, PostsDialog, LeavesDialog, history
    <2>5. TypeOK'
      BY <2>1, <2>2, <2>3, <2>4 DEF TypeOK
    <2> QED
      BY <2>4, <2>5 DEF FramesOfCalls, Depth
  <1>10. CASE UNCHANGED vars
    BY <1>10 DEF vars, TypeOK, FramesOfCalls, Depth
  <1> QED
    BY <1>1, <1>2, <1>3, <1>4, <1>5, <1>6, <1>7, <1>8, <1>9, <1>10
    DEF Next, LoopStep, Stopped

(***************************************************************************)
(* Every state of the sequence scripts has the types of TypeOK.            *)
(***************************************************************************)
THEOREM TypeCorrect == SafeSpec => []TypeOK
  <1>1. SafeSpec => []TypeInv
    BY TypeInit, TypeStep, PTL DEF SafeSpec
  <1> QED
    BY <1>1, PTL DEF TypeInv
-----------------------------------------------------------------------------
(***************************************************************************)
(* Requests and the calls that wait for them.                              *)
(***************************************************************************)

\* What a thread has to do, elementwise.
LEMMA RequestsIs ==
    ASSUME TypeOK, NEW k \in Kinds
    PROVE  /\ queue[k] = <<>> => Requests(k) = {job[k]} \ {NoCall}
           /\ queue[k] # <<>> => Head(queue[k]) \in Requests(k)
           /\ job[k] # NoCall => job[k] \in Requests(k)
           /\ Requests(k) = {} => queue[k] = <<>> /\ job[k] = NoCall
  <1>1. queue[k] \in Seq(CallIds)
    BY DEF TypeOK
  <1>2. queue[k] = <<>> => Len(queue[k]) = 0
    BY EmptySeq
  <1>3. queue[k] # <<>> =>
            Len(queue[k]) \in Nat \ {0} /\ Head(queue[k]) = queue[k][1]
    BY <1>1, EmptySeq, HeadTailProperties, LenProperties
  <1>4. queue[k] # <<>> => Head(queue[k]) \in Requests(k)
    BY <1>3 DEF Requests
  <1>5. queue[k] = <<>> => Requests(k) = {job[k]} \ {NoCall}
    BY <1>2 DEF Requests
  <1> QED
    BY <1>4, <1>5 DEF Requests

\* A single request, in the queue.
LEMMA OneQueued ==
    ASSUME TypeOK, NEW k \in Kinds, NEW c \in CallIds,
           queue[k] = <<>>, job[k] = NoCall,
           queue' = [queue EXCEPT ![k] = Append(@, c)], job' = job
    PROVE  OneRequest(k)' /\ Requests(k)' = {c}
  <1>1. queue'[k] = Append(<<>>, c)
    BY DEF TypeOK
  <1>2. Len(queue'[k]) = 1 /\ queue'[k][1] = c
    <2>1. <<>> \in Seq(CallIds) /\ Len(<<>>) = 0
      BY EmptySeq
    <2> QED
      BY <1>1, <2>1, AppendProperties
  <1> QED
    BY <1>2 DEF OneRequest, Requests

\* It is taken from the queue.
LEMMA OneTaken ==
    ASSUME TypeOK, NEW k \in Kinds, OneRequest(k), Take(k)
    PROVE  /\ OneRequest(k)' /\ Requests(k)' = Requests(k)
           /\ Head(queue[k]) \in Requests(k)
  <1>1. queue[k] \in Seq(CallIds) /\ queue[k] # <<>> /\ Len(queue[k]) = 1
    BY DEF TypeOK, OneRequest, Take
  <1>2. Head(queue[k]) = queue[k][1] /\ queue[k][1] \in CallIds
    BY <1>1, HeadTailProperties, ElementOfSeq
  <1>3. Tail(queue[k]) = <<>>
    <2>1. Tail(queue[k]) \in Seq(CallIds) /\ Len(Tail(queue[k])) = 0
      BY <1>1, HeadTailProperties
    <2> QED
      BY <2>1, EmptySeq
  <1>4. queue'[k] = <<>> /\ job'[k] = queue[k][1] /\ Len(<<>>) = 0
    BY <1>2, <1>3, EmptySeq DEF Take, TypeOK
  <1>5. job[k] = NoCall /\ queue[k][1] # NoCall
    BY <1>2, SequenceAssumption DEF Take
  <1> QED
    BY <1>1, <1>2, <1>4, <1>5 DEF OneRequest, Requests

\* Nothing of what concerns kind k has changed.
LEMMA KindKept ==
    ASSUME TypeInv, NEW k \in Kinds, KindInv(k),
           finished'[k] = finished[k], queue'[k] = queue[k], job'[k] = job[k],
           \A i \in Depth' : LoopAt(i, k)' =>
               i \in Depth /\ LoopAt(i, k) /\ calls'[i].call = calls[i].call,
           \A i \in Depth : LoopAt(i, k) => i \in Depth' /\ LoopAt(i, k)',
           \A i \in Depth : LoopAt(i, k) /\ data[calls[i].call] # "given" =>
                                data'[calls[i].call] # "given"
    PROVE  KindInv(k)'
  <1>1. OneLoop(k)'
    BY DEF KindInv, OneLoop
  <1>2. OneRequest(k)' /\ Requests(k)' = Requests(k)
    BY DEF KindInv, OneRequest, Requests
  <1>3. Waiting(k)' = Waiting(k)
    <2>1. \A c : c \in Waiting(k)' <=> \E i \in Depth' : LoopAt(i, k)' /\ calls'[i].call = c
      BY DEF Waiting, Depth, LoopAt
    <2>2. \A c : c \in Waiting(k)' <=> c \in Waiting(k)
      BY <2>1, WaitingIs
    <2> QED
      BY <2>2
  <1>4. FinishedHasData(k)'
    BY DEF KindInv, FinishedHasData
  <1> QED
    BY <1>1, <1>2, <1>3, <1>4 DEF KindInv

\* Elementwise, in the next state.
LEMMA WaitingNext ==
    ASSUME NEW k
    PROVE  \A c : c \in Waiting(k)' <=> \E i \in Depth' : LoopAt(i, k)' /\ calls'[i].call = c
  BY DEF Waiting, Depth, LoopAt

LEMMA CallsOfFrames ==
    ASSUME Inv
    PROVE  \A i \in Depth : calls[i].at \in Loops \cup {"box"} => calls[i].call \in CallIds
  <1>1. \A i \in Depth : calls[i] \in Frames
    BY ElementOfSeq DEF Inv, TypeInv, TypeOK, Depth
  <1> QED
    BY <1>1, FrameIs DEF Loops

LEMMA RequestInit == Init => RequestInv /\ ScriptDataOrNothing
  <1> SUFFICES ASSUME Init PROVE RequestInv /\ ScriptDataOrNothing
    OBVIOUS
  <1>1. Len(<<>>) = 0
    BY EmptySeq
  <1>2. Depth = {}
    BY <1>1 DEF Init, Depth
  <1>3. \A k \in Kinds : Requests(k) = {}
    BY <1>1 DEF Init, Requests
  <1>4. \A k \in Kinds : KindInv(k)
    BY <1>2, <1>3 DEF Init, KindInv, OneLoop, OneRequest, FinishedHasData
  <1> QED
    BY <1>2, <1>4 DEF Init, RequestInv, FaultInv, BoxHasNoData, ScriptDataOrNothing

\* A call begins: unless it is nested, its thread has nothing to do.
LEMMA ExecuteKeeps ==
    ASSUME Inv, NEW c \in CallIds, Execute(c)
    PROVE  (RequestInv /\ ScriptDataOrNothing)'
  <1> USE DEF Inv
  <1> DEFINE k0 == Kind(c)
  <1>1. calls \in Seq(Frames) /\ Loop(c) \in Frames /\ Push(Loop(c)) /\ k0 \in Kinds
    BY LoopFrame DEF TypeInv, TypeOK, Execute
  <1>2. \A i \in Depth : calls'[i] = calls[i]
    BY <1>1, PushCalls
  <1>3. /\ Depth' = Depth \cup {Len(calls) + 1} /\ Len(calls) + 1 \notin Depth
        /\ calls'[Len(calls) + 1] = Loop(c)
    BY <1>1, PushCalls
  <1>4. /\ Loop(c).at \in Loops /\ Loop(c).at # "box" /\ Loop(c).kind = k0
        /\ Loop(c).call = c
    BY LoopFrame DEF Loops
  <1>5. ASSUME NEW k \in Kinds \ nested' PROVE KindInv(k)'
    <2>1. k \in Kinds /\ k \notin nested /\ KindInv(k)
      BY <1>5 DEF Execute, RequestInv
    <2>2. CASE k # k0
      <3>1. finished'[k] = finished[k] /\ queue'[k] = queue[k] /\ job' = job /\ data' = data
        BY <2>1, <2>2 DEF Execute, FlagAtCall, TypeInv, TypeOK
      <3>2. \A i \in Depth' : LoopAt(i, k)' => i \in Depth
        BY <1>3, <1>4, <2>2 DEF LoopAt
      <3> QED
        BY <1>2, <1>3, <2>1, <3>1, <3>2, KindKept DEF LoopAt
    <2>3. CASE k = k0
      <3>1. Waiting(k0) = {}
        BY <1>1, <1>5, <2>3 DEF Execute
      <3>2. Requests(k0) = {}
        BY <2>1, <2>3, <3>1 DEF KindInv
      <3>3. queue[k0] = <<>> /\ job[k0] = NoCall
        BY <1>1, <3>2, RequestsIs DEF TypeInv
      <3>4. OneRequest(k0)' /\ Requests(k0)' = {c}
        BY <1>1, <3>3, OneQueued DEF Execute, TypeInv
      <3>5. \A i \in Depth : ~LoopAt(i, k0)
        BY <3>1, WaitingIs
      <3>6. \A i \in Depth' : LoopAt(i, k0)' <=> i = Len(calls) + 1
        BY <1>2, <1>3, <1>4, <3>5 DEF LoopAt
      <3>7. Waiting(k0)' = {c}
        <4>1. \A d : d \in Waiting(k0)' <=> d = c
          BY <1>3, <1>4, <3>6, WaitingNext
        <4> QED
          BY <4>1
      <3>8. ~finished'[k0]
        BY <1>1 DEF Execute, FlagAtCall, TypeInv, TypeOK
      <3> QED
        BY <2>3, <3>4, <3>6, <3>7, <3>8 DEF KindInv, OneLoop, FinishedHasData
    <2> QED
      BY <2>2, <2>3
  <1>6. BoxHasNoData'
    BY <1>2, <1>3, <1>4 DEF RequestInv, BoxHasNoData, Execute
  <1>7. FaultInv' /\ ScriptDataOrNothing'
    BY DEF Execute, RequestInv, FaultInv, ScriptDataOrNothing
  <1> QED
    BY <1>5, <1>6, <1>7 DEF RequestInv

\* The innermost call, box or dialog ends; the others see no change.
LEMMA PopKeepsKind ==
    ASSUME TypeInv, NEW k \in Kinds, KindInv(k), calls # <<>>, Pop,
           ~LoopAt(Len(calls), k), UNCHANGED <<finished, queue, job, data>>
    PROVE  KindInv(k)'
  <1>1. calls \in Seq(Frames)
    BY DEF TypeInv, TypeOK
  <1>2. Depth' = Depth \ {Len(calls)} /\ \A i \in Depth' : calls'[i] = calls[i]
    BY <1>1, PopCalls
  <1> QED
    BY <1>2, KindKept DEF LoopAt

LEMMA PopKeepsBoxes ==
    ASSUME TypeInv, BoxHasNoData, calls # <<>>, Pop, data' = data
    PROVE  BoxHasNoData'
  <1>1. Depth' = Depth \ {Len(calls)} /\ \A i \in Depth' : calls'[i] = calls[i]
    BY PopCalls DEF TypeInv, TypeOK
  <1> QED
    BY <1>1 DEF BoxHasNoData

\* A call returns what its script computed.
LEMMA SeesFinishedKeeps ==
    ASSUME Inv, SeesFinished
    PROVE  (RequestInv /\ ScriptDataOrNothing)'
  <1> USE DEF Inv
  <1>1. /\ calls # <<>> /\ Pop /\ Top.at = "test" /\ finished[Top.kind]
        /\ UNCHANGED <<finished, queue, job, data, nested, fault>> /\ calls \in Seq(Frames)
    BY DEF SeesFinished, LoopIs, scripts, history, TypeInv, TypeOK
  <1>2. Len(calls) \in Depth /\ Top = calls[Len(calls)] /\ Top.at \in Loops
    BY <1>1, TopFrame DEF Loops
  <1>3. ASSUME NEW k \in Kinds \ nested PROVE KindInv(k)'
    <2>1. KindInv(k)
      BY DEF RequestInv
    <2>2. CASE k # Top.kind
      BY <1>1, <1>2, <2>1, <2>2, PopKeepsKind DEF LoopAt
    <2>3. CASE k = Top.kind
      <3>1. Depth' = Depth \ {Len(calls)} /\ \A i \in Depth' : calls'[i] = calls[i]
        BY <1>1, PopCalls
      <3>2. Requests(k)' = {} /\ finished'[k]
        <4>1. finished[k] /\ finished'[k] /\ Requests(k)' = Requests(k)
          BY <1>1, <2>3 DEF Requests
        <4> QED
          BY <2>1, <4>1 DEF KindInv
      <3>3. OneRequest(k)'
        BY <1>1, <2>1 DEF KindInv, OneRequest
      <3>4. OneLoop(k)' /\ FinishedHasData(k)'
        BY <1>1, <2>1, <3>1 DEF KindInv, OneLoop, FinishedHasData, LoopAt
      <3> QED
        BY <3>2, <3>3, <3>4 DEF KindInv
    <2> QED
      BY <2>2, <2>3
  <1>4. FaultInv' /\ BoxHasNoData'
    BY <1>1, PopKeepsBoxes DEF RequestInv, FaultInv
  <1>5. ScriptDataOrNothing'
    <2>1. Top.call \in CallIds /\ Top.kind = Kind(Top.call) /\ Top.kind \in Kinds
      BY <1>1, TopCall
    <2>2. Top.kind \notin nested => data[Top.call] # "given"
      BY <1>1, <1>2, <2>1 DEF RequestInv, KindInv, FinishedHasData, LoopAt
    <2>3. \A c \in CallIds : outcome'[c] = IF c = Top.call THEN data[c] ELSE outcome[c]
      BY <2>1 DEF SeesFinished, TypeInv, TypeOK
    <2> QED
      BY <1>1, <2>1, <2>2, <2>3 DEF ScriptDataOrNothing
  <1> QED
    BY <1>1, <1>3, <1>4, <1>5 DEF RequestInv

\* A blocked script loses its thread, and the request with it.
LEMMA TimesOutKeeps ==
    ASSUME Inv, TimesOut
    PROVE  (RequestInv /\ ScriptDataOrNothing)'
  <1> USE DEF Inv
  <1> DEFINE top == Len(calls)
             k0 == Top.kind
  <1>1. /\ calls # <<>> /\ Top.at = "checked" /\ UNCHANGED <<nested, fault, outcome>>
        /\ GoTo("box") /\ calls \in Seq(Frames)
    BY DEF TimesOut, LoopIs, history, TypeInv, TypeOK
  <1>2. top \in Depth /\ Top = calls[top] /\ Top.at \in Loops
    BY <1>1, TopFrame DEF Loops
  <1>3. Top.call \in CallIds /\ k0 \in Kinds
    BY <1>1, TopCall
  <1>4. /\ Depth' = Depth /\ \A i \in Depth \ {top} : calls'[i] = calls[i]
        /\ calls'[top].at = "box" /\ calls'[top].at \notin Loops
        /\ calls'[top].call = Top.call
    BY <1>1, GoToCalls DEF Loops
  <1>5. \A c \in CallIds : data'[c] = IF c = Top.call THEN "empty" ELSE data[c]
    BY <1>3 DEF TimesOut, ClearData, TypeInv, TypeOK
  <1>6. \A i \in Depth : calls[i].at \in Loops \cup {"box"} => calls[i].call \in CallIds
    BY CallsOfFrames
  <1>7. ASSUME NEW k \in Kinds \ nested' PROVE KindInv(k)'
    <2>1. k \in Kinds /\ KindInv(k)
      BY <1>1, <1>7 DEF RequestInv
    <2>2. CASE k # k0
      <3>1. finished'[k] = finished[k] /\ queue'[k] = queue[k] /\ job'[k] = job[k]
        BY <1>3, <2>1, <2>2 DEF TimesOut, ReplaceThread, DropPosted, TypeInv, TypeOK
      <3>2. /\ \A i \in Depth' : LoopAt(i, k)' =>
                   i \in Depth /\ LoopAt(i, k) /\ calls'[i].call = calls[i].call
            /\ \A i \in Depth : LoopAt(i, k) => i \in Depth' /\ LoopAt(i, k)'
        BY <1>2, <1>4, <2>2 DEF LoopAt
      <3>3. \A i \in Depth : LoopAt(i, k) /\ data[calls[i].call] # "given" =>
                                 data'[calls[i].call] # "given"
        BY <1>5, <1>6 DEF LoopAt
      <3> QED
        BY <2>1, <3>1, <3>2, <3>3, KindKept
    <2>3. CASE k = k0
      <3>1. queue'[k] = <<>> /\ job'[k] = NoCall /\ finished'[k]
        BY <1>3, <2>3 DEF TimesOut, ReplaceThread, DropPosted, TypeInv, TypeOK
      <3>2. Requests(k)' = {} /\ OneRequest(k)'
        <4>1. Len(<<>>) = 0
          BY EmptySeq
        <4> QED
          BY <3>1, <4>1 DEF Requests, OneRequest
      <3>3. \A i \in Depth' : ~LoopAt(i, k)'
        BY <1>1, <1>2, <1>4, <2>1, <2>3 DEF KindInv, OneLoop, LoopAt
      <3> QED
        BY <3>1, <3>2, <3>3 DEF KindInv, OneLoop, FinishedHasData
    <2> QED
      BY <2>2, <2>3
  <1>8. BoxHasNoData'
    BY <1>2, <1>3, <1>4, <1>5, <1>6 DEF RequestInv, BoxHasNoData
  <1>9. FaultInv' /\ ScriptDataOrNothing'
    BY <1>1 DEF RequestInv, FaultInv, ScriptDataOrNothing
  <1> QED
    BY <1>7, <1>8, <1>9 DEF RequestInv

\* The call of a blocked script returns without data.
LEMMA BoxConfirmedKeeps ==
    ASSUME Inv, BoxConfirmed
    PROVE  (RequestInv /\ ScriptDataOrNothing)'
  <1> USE DEF Inv
  <1>1. /\ calls # <<>> /\ Pop /\ Top.at = "box" /\ calls \in Seq(Frames)
        /\ UNCHANGED <<finished, queue, job, data, nested, fault>>
    BY DEF BoxConfirmed, LoopIs, scripts, history, TypeInv, TypeOK
  <1>2. Len(calls) \in Depth /\ Top = calls[Len(calls)] /\ Top.at \notin Loops
    BY <1>1, TopFrame DEF Loops
  <1>3. \A k \in Kinds \ nested : KindInv(k)'
    BY <1>1, <1>2, PopKeepsKind DEF LoopAt, RequestInv
  <1>4. FaultInv' /\ BoxHasNoData'
    BY <1>1, PopKeepsBoxes DEF RequestInv, FaultInv
  <1>5. ScriptDataOrNothing'
    <2>1. Top.call \in CallIds /\ data[Top.call] # "given"
      BY <1>1, <1>2, TopCall DEF RequestInv, BoxHasNoData
    <2>2. \A c \in CallIds : outcome'[c] = IF c = Top.call THEN data[c] ELSE outcome[c]
      BY <2>1 DEF BoxConfirmed, TypeInv, TypeOK
    <2> QED
      BY <1>1, <2>1, <2>2 DEF ScriptDataOrNothing
  <1> QED
    BY <1>1, <1>3, <1>4, <1>5 DEF RequestInv

\* The request that a thread takes is that of a call which waits.
LEMMA TakeKeeps ==
    ASSUME Inv, NEW k0 \in Kinds, Take(k0)
    PROVE  (RequestInv /\ ScriptDataOrNothing)'
  <1> USE DEF Inv
  <1>1. UNCHANGED <<finished, calls, data, outcome, nested>> /\ NoFault
    BY DEF Take
  <1>2. Depth' = Depth
    BY <1>1 DEF Depth
  <1>3. ASSUME NEW k \in Kinds \ nested PROVE KindInv(k)'
    <2>1. KindInv(k)
      BY DEF RequestInv
    <2>2. CASE k # k0
      <3>1. queue'[k] = queue[k] /\ job'[k] = job[k]
        BY <2>2 DEF Take, TypeInv, TypeOK
      <3> QED
        BY <1>1, <1>2, <2>1, <3>1, KindKept DEF LoopAt
    <2>3. CASE k = k0
      <3>1. OneRequest(k)' /\ Requests(k)' = Requests(k)
        BY <2>1, <2>3, OneTaken DEF KindInv, TypeInv
      <3>2. Waiting(k)' = Waiting(k)
        BY <1>1 DEF Waiting
      <3>3. OneLoop(k)' /\ FinishedHasData(k)'
        BY <1>1, <1>2, <2>1 DEF KindInv, OneLoop, FinishedHasData, LoopAt
      <3> QED
        BY <1>1, <2>1, <3>1, <3>2, <3>3 DEF KindInv
    <2> QED
      BY <2>2, <2>3
  <1>4. FaultInv'
    <2>1. CASE k0 \in nested
      BY <1>1, <2>1 DEF FaultInv
    <2>2. CASE k0 \notin nested
      <3>1. KindInv(k0)
        BY <2>2 DEF RequestInv
      <3>2. Head(queue[k0]) \in Waiting(k0)
        BY <3>1, OneTaken DEF KindInv, TypeInv
      <3>3. InCalls(Head(queue[k0]))
        BY <3>2 DEF InCalls, Waiting, Loops
      <3> QED
        BY <3>3 DEF Take, Uses, FaultInv
    <2> QED
      BY <2>1, <2>2
  <1>5. BoxHasNoData' /\ ScriptDataOrNothing'
    BY <1>1, <1>2 DEF RequestInv, BoxHasNoData, ScriptDataOrNothing
  <1> QED
    BY <1>1, <1>3, <1>4, <1>5 DEF RequestInv

\* The data a script computes are those of the call that waits for them.
LEMMA ScriptEndsKeeps ==
    ASSUME Inv, NEW k0 \in Kinds, ScriptEnds(k0)
    PROVE  (RequestInv /\ ScriptDataOrNothing)'
  <1> USE DEF Inv
  <1>1. UNCHANGED <<queue, calls, outcome, nested>> /\ job[k0] # NoCall
    BY DEF ScriptEnds, ScriptIs
  <1>2. Depth' = Depth
    BY <1>1 DEF Depth
  <1>3. job[k0] \in CallIds /\ data'[job[k0]] # "given"
    BY <1>1 DEF ScriptEnds, TypeInv, TypeOK
  <1>4. \A c \in CallIds : c # job[k0] => data'[c] = data[c]
    BY DEF ScriptEnds, TypeInv, TypeOK
  <1>5. \A i \in Depth : calls[i].at \in Loops \cup {"box"} => calls[i].call \in CallIds
    BY CallsOfFrames
  <1>6. ASSUME NEW k \in Kinds \ nested PROVE KindInv(k)'
    <2>1. KindInv(k)
      BY DEF RequestInv
    <2>2. CASE k # k0
      <3>1. finished'[k] = finished[k] /\ job'[k] = job[k]
        BY <2>2 DEF ScriptEnds, TypeInv, TypeOK
      <3>2. \A i \in Depth : LoopAt(i, k) /\ data[calls[i].call] # "given" =>
                                 data'[calls[i].call] # "given"
        BY <1>3, <1>4, <1>5 DEF LoopAt
      <3> QED
        BY <1>1, <1>2, <2>1, <3>1, <3>2, KindKept DEF LoopAt
    <2>3. CASE k = k0
      <3>1. queue[k] = <<>> /\ Requests(k) = {job[k]}
        <4>1. queue[k] = <<>>
          BY <1>1, <2>1, <2>3 DEF KindInv, OneRequest
        <4> QED
          BY <1>1, <2>3, <4>1, RequestsIs DEF TypeInv
      <3>2. Waiting(k) = {job[k]}
        BY <2>1, <3>1 DEF KindInv
      <3>3. queue'[k] = <<>> /\ job'[k] = NoCall /\ finished'[k]
        BY <1>1, <2>3, <3>1 DEF ScriptEnds, TypeInv, TypeOK
      <3>4. Requests(k)' = {} /\ OneRequest(k)'
        <4>1. Len(<<>>) = 0
          BY EmptySeq
        <4> QED
          BY <3>3, <4>1 DEF Requests, OneRequest
      <3>5. \A i \in Depth : LoopAt(i, k) => calls[i].call = job[k]
        BY <3>2, WaitingIs
      <3>6. OneLoop(k)' /\ FinishedHasData(k)'
        BY <1>1, <1>2, <1>3, <2>1, <2>3, <3>5 DEF KindInv, OneLoop, FinishedHasData, LoopAt
      <3> QED
        BY <3>3, <3>4, <3>6 DEF KindInv
    <2> QED
      BY <2>2, <2>3
  <1>7. FaultInv'
    <2>1. CASE k0 \in nested
      BY <1>1, <2>1 DEF FaultInv
    <2>2. CASE k0 \notin nested
      <3>1. KindInv(k0) /\ job[k0] \in Requests(k0)
        BY <1>1, <2>2, RequestsIs DEF RequestInv, TypeInv
      <3>2. job[k0] \in Waiting(k0)
        BY <3>1 DEF KindInv
      <3>3. InCalls(job[k0])
        BY <3>2 DEF InCalls, Waiting, Loops
      <3> QED
        BY <3>3 DEF ScriptEnds, Uses, FaultInv
    <2> QED
      BY <2>1, <2>2
  <1>8. BoxHasNoData'
    BY <1>1, <1>2, <1>3, <1>4, <1>5 DEF RequestInv, BoxHasNoData
  <1>9. ScriptDataOrNothing'
    BY <1>1 DEF ScriptDataOrNothing
  <1> QED
    BY <1>1, <1>6, <1>7, <1>8, <1>9 DEF RequestInv

\* The steps that only move the loop, or concern a dialog.
LEMMA LoopMovesKeeps ==
    ASSUME Inv, Continues \/ ReadsDialog \/ HasTime
    PROVE  (RequestInv /\ ScriptDataOrNothing)'
  <1> USE DEF Inv
  <1>1. PICK place \in Loops : calls # <<>> /\ Top.at \in Loops /\ GoTo(place)
    BY DEF Continues, ReadsDialog, HasTime, LoopIs, Loops
  <1>2. /\ UNCHANGED <<finished, queue, job, data, outcome, nested, fault>>
        /\ calls \in Seq(Frames)
    BY DEF Continues, ReadsDialog, HasTime, scripts, history, TypeInv, TypeOK
  <1>3. /\ Depth' = Depth /\ Top = calls[Len(calls)] /\ Len(calls) \in Depth
        /\ \A i \in Depth \ {Len(calls)} : calls'[i] = calls[i]
        /\ calls'[Len(calls)].at \in Loops /\ calls'[Len(calls)].at # "box"
        /\ calls'[Len(calls)].kind = Top.kind /\ calls'[Len(calls)].call = Top.call
    BY <1>1, <1>2, GoToCalls, TopFrame DEF Loops
  <1>4. ASSUME NEW k \in Kinds \ nested PROVE KindInv(k)'
    <2>1. \A i \in Depth : LoopAt(i, k)' <=> LoopAt(i, k)
      BY <1>1, <1>3 DEF LoopAt
    <2>2. \A i \in Depth : calls'[i].call = calls[i].call
      BY <1>3
    <2> QED
      BY <1>2, <1>3, <2>1, <2>2, KindKept DEF RequestInv
  <1>5. BoxHasNoData'
    BY <1>2, <1>3 DEF RequestInv, BoxHasNoData
  <1> QED
    BY <1>2, <1>4, <1>5 DEF RequestInv, FaultInv, ScriptDataOrNothing

LEMMA DialogOpensKeeps ==
    ASSUME Inv, DialogOpens
    PROVE  (RequestInv /\ ScriptDataOrNothing)'
  <1> USE DEF Inv
  <1> DEFINE f == Head(posted)
  <1>1. /\ f \in Dialogs /\ Push(f) /\ calls \in Seq(Frames)
        /\ UNCHANGED <<finished, queue, job, data, outcome, nested, fault>>
    BY TakePosted DEF DialogOpens, scripts, history, TypeInv, TypeOK
  <1>2. f \in Frames /\ f.at = "dialog" /\ f.at \notin Loops
    BY <1>1 DEF Frames, Dialogs, Loops
  <1> HIDE DEF f
  <1>3. /\ Depth' = Depth \cup {Len(calls) + 1} /\ calls'[Len(calls) + 1] = f
        /\ \A i \in Depth : calls'[i] = calls[i]
    BY <1>1, <1>2, PushCalls
  <1>4. ASSUME NEW k \in Kinds \ nested PROVE KindInv(k)'
    <2>1. KindInv(k)
      BY DEF RequestInv
    <2>2. \A i \in Depth' : LoopAt(i, k)' => i \in Depth /\ LoopAt(i, k)
      BY <1>2, <1>3 DEF LoopAt
    <2> QED
      BY <1>1, <1>3, <2>1, <2>2, KindKept DEF LoopAt
  <1>5. BoxHasNoData'
    BY <1>1, <1>2, <1>3 DEF RequestInv, BoxHasNoData
  <1>6. FaultInv' /\ ScriptDataOrNothing'
    BY <1>1 DEF RequestInv, FaultInv, ScriptDataOrNothing
  <1> QED
    BY <1>1, <1>4, <1>5, <1>6 DEF RequestInv

LEMMA DialogClosesKeeps ==
    ASSUME Inv, DialogCloses
    PROVE  (RequestInv /\ ScriptDataOrNothing)'
  <1> USE DEF Inv
  <1>1. /\ calls # <<>> /\ Pop /\ Top.at = "dialog" /\ Top.at \notin Loops
        /\ UNCHANGED <<finished, queue, job, data, outcome, nested>>
    BY DEF DialogCloses, LoopIs, Loops
  <1>2. \A k \in Kinds \ nested : KindInv(k)'
    BY <1>1, PopKeepsKind DEF LoopAt, RequestInv, Top
  <1>3. FaultInv'
    BY <1>1 DEF DialogCloses, RequestInv, FaultInv
  <1>4. BoxHasNoData' /\ ScriptDataOrNothing'
    BY <1>1, PopKeepsBoxes DEF RequestInv, ScriptDataOrNothing
  <1> QED
    BY <1>1, <1>2, <1>3, <1>4 DEF RequestInv

\* No request, call or data are concerned.
LEMMA NothingConcerned ==
    ASSUME Inv, UNCHANGED <<finished, queue, job, calls, data, outcome, nested, fault>>
    PROVE  (RequestInv /\ ScriptDataOrNothing)'
  <1>1. Depth' = Depth
    BY DEF Depth
  <1>2. \A k \in Kinds \ nested : KindInv(k)'
    BY <1>1, KindKept DEF Inv, RequestInv, LoopAt
  <1> QED
    BY <1>1, <1>2 DEF Inv, RequestInv, FaultInv, BoxHasNoData, ScriptDataOrNothing

LEMMA RequestStep == Inv /\ [Next]_vars => (RequestInv /\ ScriptDataOrNothing)'
  <1> SUFFICES ASSUME Inv, [Next]_vars PROVE (RequestInv /\ ScriptDataOrNothing)'
    OBVIOUS
  <1>1. CASE UNCHANGED vars
    BY <1>1, NothingConcerned DEF vars
  <1>2. ASSUME NEW k \in Kinds, AsksForDialog(k) \/ PostsDialog(k) \/ LeavesDialog(k)
        PROVE  (RequestInv /\ ScriptDataOrNothing)'
    BY <1>2, NothingConcerned DEF AsksForDialog, PostsDialog, LeavesDialog, history
  <1> QED
    BY <1>1, <1>2, ExecuteKeeps, SeesFinishedKeeps, TimesOutKeeps, BoxConfirmedKeeps,
       TakeKeeps, ScriptEndsKeeps, LoopMovesKeeps, DialogOpensKeeps, DialogClosesKeeps
    DEF Next, LoopStep, Stopped

LEMMA InvAlways == SafeSpec => []Inv
  <1>1. Init => Inv
    BY TypeInit, RequestInit DEF Inv
  <1>2. Inv /\ [Next]_vars => Inv'
    BY TypeStep, RequestStep DEF Inv
  <1> QED
    BY <1>1, <1>2, PTL DEF SafeSpec

(***************************************************************************)
(* A script thread holds, and will get, pointers to variables of waiting   *)
(* calls only, until calls for the same thread are nested.                 *)
(***************************************************************************)
THEOREM RequestsLive == SafeSpec => []RequestsAreLive
  <1>1. Inv => RequestsAreLive
    BY DEF Inv, RequestInv, FaultInv, KindInv, RequestsAreLive
  <1> QED
    BY <1>1, InvAlways, PTL

(***************************************************************************)
(* What a call returns was computed by its script, or is empty, until      *)
(* calls for the same thread are nested.                                   *)
(***************************************************************************)
THEOREM ComputedOrNothing == SafeSpec => []ScriptDataOrNothing
  <1>1. Inv => ScriptDataOrNothing
    BY DEF Inv
  <1> QED
    BY <1>1, InvAlways, PTL
-----------------------------------------------------------------------------
(***************************************************************************)
-----------------------------------------------------------------------------
(***************************************************************************)
(* Dialogs.                                                                *)
(***************************************************************************)

\* A script asks for one dialog at a time and waits for it; the flag is set before
\* the dialog is posted, and until its answer has arrived.
DialogInv(k) ==
    /\ dialog[k] <=> script[k] # "runs"
    /\ script[k] # "runs" => job[k] # NoCall
    /\ \A i \in Depth : ShownAt(i, k) => script[k] = "waits"
    /\ \A i \in PostedDepth : PostedAt(i, k) => script[k] = "waits"
    /\ \A i, j \in Depth : ShownAt(i, k) /\ ShownAt(j, k) => i = j
    /\ \A i, j \in PostedDepth : PostedAt(i, k) /\ PostedAt(j, k) => i = j
    /\ \A i \in Depth, j \in PostedDepth : ~(ShownAt(i, k) /\ PostedAt(j, k))
    /\ script[k] = "waits" =>
            (\E i \in Depth : ShownAt(i, k)) \/ (\E i \in PostedDepth : PostedAt(i, k))

\* There is no dialog yet of a thread that comes later.
ThreadsKnown(k) ==
    /\ \A i \in Depth : DialogAt(i, k) => calls[i].thread <= thread[k]
    /\ \A i \in PostedDepth : posted[i].kind = k => posted[i].thread <= thread[k]

AllDialogs == \A k \in Kinds : DialogInv(k) /\ ThreadsKnown(k)

\* A loop that has seen no dialog is the innermost one, and there is none.
CheckedInv ==
    \A i \in Depth : calls[i].at = "checked" =>
        i = Len(calls) /\ \A j \in Depth : ~ShownAt(j, calls[i].kind)

\* The dialogs of kind k are the same.
LEMMA DialogKept ==
    ASSUME NEW k \in Kinds, DialogInv(k), ThreadsKnown(k),
           thread'[k] = thread[k], dialog'[k] = dialog[k], script'[k] = script[k],
           script[k] # "runs" => job'[k] # NoCall,
           \A i \in Depth' : DialogAt(i, k)' => i \in Depth /\ calls'[i] = calls[i],
           \A i \in Depth : DialogAt(i, k) => i \in Depth' /\ calls'[i] = calls[i],
           posted' = posted
    PROVE  DialogInv(k)' /\ ThreadsKnown(k)'
  <1>1. /\ \A i \in Depth' : DialogAt(i, k)' => i \in Depth /\ DialogAt(i, k)
        /\ \A i \in Depth' : ShownAt(i, k)' => i \in Depth /\ ShownAt(i, k)
    BY DEF DialogAt, ShownAt
  <1>2. \A i \in Depth : ShownAt(i, k) => i \in Depth' /\ ShownAt(i, k)'
    BY DEF DialogAt, ShownAt
  <1>3. PostedDepth' = PostedDepth /\ \A i \in PostedDepth : PostedAt(i, k)' <=> PostedAt(i, k)
    BY DEF PostedDepth, PostedAt
  <1>4. DialogInv(k)'
    BY <1>1, <1>2, <1>3 DEF DialogInv
  <1> QED
    BY <1>1, <1>3, <1>4 DEF ThreadsKnown

\* A step that does not change the stack.
LEMMA StackKept ==
    ASSUME NEW k \in Kinds, UNCHANGED calls
    PROVE  /\ Depth' = Depth
           /\ \A i \in Depth' : DialogAt(i, k)' => i \in Depth /\ calls'[i] = calls[i]
           /\ \A i \in Depth : DialogAt(i, k) => i \in Depth' /\ calls'[i] = calls[i]
  BY DEF Depth

\* A step of a call of executeScript.
LEMMA CallKeepsDialogs ==
    ASSUME TypeInv,
           \/ \E f \in Frames : Push(f) /\ f.at # "dialog"
           \/ calls # <<>> /\ Top.at # "dialog" /\ Pop
           \/ /\ calls # <<>> /\ Top.at # "dialog"
              /\ \E place \in Loops \cup {"box"} : GoTo(place)
    PROVE  /\ \A i \in Depth' : calls'[i].at = "dialog" => i \in Depth /\ calls'[i] = calls[i]
           /\ \A i \in Depth : calls[i].at = "dialog" => i \in Depth' /\ calls'[i] = calls[i]
  <1>0. calls \in Seq(Frames)
    BY DEF TypeInv, TypeOK
  <1>1. CASE \E f \in Frames : Push(f) /\ f.at # "dialog"
    BY <1>0, <1>1, PushCalls
  <1>2. CASE calls # <<>> /\ Top.at # "dialog" /\ Pop
    BY <1>0, <1>2, PopCalls, TopFrame
  <1>3. ASSUME calls # <<>>, Top.at # "dialog", NEW place \in Loops \cup {"box"}, GoTo(place)
        PROVE  /\ \A i \in Depth' : calls'[i].at = "dialog" => i \in Depth /\ calls'[i] = calls[i]
               /\ \A i \in Depth : calls[i].at = "dialog" => i \in Depth' /\ calls'[i] = calls[i]
    <2>1. place # "dialog"
      BY DEF Loops
    <2> QED
      BY <1>0, <1>3, <2>1, GoToCalls, TopFrame
  <1> QED
    BY <1>1, <1>2, <1>3

\* The new thread has no dialog, whatever the old one has left.
LEMMA TimesOutDialogs ==
    ASSUME TypeInv, AllDialogs, TimesOut, NEW k \in Kinds
    PROVE  DialogInv(k)' /\ ThreadsKnown(k)'
  <1>1. calls # <<>> /\ Top.at # "dialog" /\ GoTo("box") /\ posted' = posted
    BY DEF TimesOut, LoopIs
  <1>2. Top.kind \in Kinds
    BY <1>1, TopCall
  <1>3. /\ \A i \in Depth' : DialogAt(i, k)' => i \in Depth /\ calls'[i] = calls[i]
        /\ \A i \in Depth : DialogAt(i, k) => i \in Depth' /\ calls'[i] = calls[i]
    BY <1>1, CallKeepsDialogs DEF DialogAt
  <1>4. DialogInv(k) /\ ThreadsKnown(k)
    BY DEF AllDialogs
  <1>5. CASE k # Top.kind
    <2>1. /\ thread'[k] = thread[k] /\ dialog'[k] = dialog[k] /\ script'[k] = script[k]
          /\ job'[k] = job[k]
      BY <1>2, <1>5 DEF TimesOut, ReplaceThread, TypeInv, TypeOK
    <2> QED
      BY <1>1, <1>3, <1>4, <2>1, DialogKept DEF DialogInv
  <1>6. CASE k = Top.kind
    <2>1. /\ thread'[k] = thread[k] + 1 /\ ~dialog'[k] /\ script'[k] = "runs"
          /\ thread[k] \in Nat
      BY <1>2, <1>6 DEF TimesOut, ReplaceThread, TypeInv, TypeOK
    <2>2. \A i \in Depth' : DialogAt(i, k)' => calls'[i].thread < thread'[k]
      <3>1. \A i \in Depth : calls[i] \in Frames
        BY ElementOfSeq DEF TypeInv, TypeOK, Depth
      <3>2. \A i \in Depth : DialogAt(i, k) => calls[i].thread \in Nat
        BY <3>1, FrameIs DEF DialogAt
      <3>3. \A i \in Depth' : DialogAt(i, k)' => i \in Depth /\ DialogAt(i, k)
        BY <1>3 DEF DialogAt
      <3> QED
        BY <1>3, <1>4, <2>1, <3>2, <3>3 DEF ThreadsKnown
    <2>3. \A i \in PostedDepth' : posted'[i].kind = k => posted'[i].thread < thread'[k]
      <3>1. \A i \in PostedDepth : posted[i].thread \in Nat
        <4>1. \A i \in PostedDepth : posted[i] \in Dialogs
          BY ElementOfSeq DEF TypeInv, TypeOK, PostedDepth
        <4> QED
          BY <4>1 DEF Dialogs
      <3> QED
        BY <1>1, <1>4, <2>1, <3>1 DEF ThreadsKnown, PostedDepth
    <2>4. /\ \A i \in Depth' : ~ShownAt(i, k)' /\ (DialogAt(i, k)' => calls'[i].thread <= thread'[k])
          /\ \A i \in PostedDepth' :
                ~PostedAt(i, k)' /\ (posted'[i].kind = k => posted'[i].thread <= thread'[k])
      <3>1. \A i \in Depth' : DialogAt(i, k)' => calls'[i].thread \in Int
        <4>1. calls' \in Seq(Frames)
          BY <1>1, FramesGo
        <4>2. \A i \in Depth' : calls'[i] \in Frames
          BY <4>1, ElementOfSeq DEF Depth
        <4> QED
          BY <4>2, FrameIs DEF DialogAt
      <3>2. \A i \in PostedDepth' : posted'[i].thread \in Int
        <4>1. \A i \in PostedDepth' : posted'[i] \in Dialogs
          BY <1>1, ElementOfSeq DEF TypeInv, TypeOK, PostedDepth
        <4> QED
          BY <4>1 DEF Dialogs
      <3>3. \A x, y \in Int : x < y => x <= y /\ x # y
        OBVIOUS
      <3>4. thread'[k] \in Int
        BY <2>1
      <3> QED
        BY <2>2, <2>3, <3>1, <3>2, <3>3, <3>4 DEF ShownAt, PostedAt
    <2> QED
      BY <2>1, <2>4 DEF DialogInv, ThreadsKnown
  <1> QED
    BY <1>5, <1>6

\* The dialog leaves the queue for the stack, with or without its thread.
LEMMA OpensDialogs ==
    ASSUME TypeInv, AllDialogs, DialogOpens, NEW k \in Kinds
    PROVE  DialogInv(k)' /\ ThreadsKnown(k)'
  <1> DEFINE d == Head(posted)
  <1>0. PICK n : n = Len(calls) + 1
    OBVIOUS
  <1>1. /\ d \in Dialogs /\ d = posted[1] /\ 1 \in PostedDepth /\ Push(d)
        /\ \A i \in PostedDepth' : i + 1 \in PostedDepth \ {1} /\ posted'[i] = posted[i + 1]
        /\ \A i \in PostedDepth \ {1} : i - 1 \in PostedDepth' /\ posted'[i - 1] = posted[i]
        /\ UNCHANGED <<thread, dialog, script, job>>
    BY TakePosted DEF DialogOpens, scripts, TypeInv, TypeOK
  <1>2. d \in Frames /\ d.at = "dialog"
    BY <1>1 DEF Frames, Dialogs
  <1>3. /\ Depth' = Depth \cup {n} /\ n \notin Depth /\ calls'[n] = d
        /\ \A i \in Depth : calls'[i] = calls[i]
    BY <1>0, <1>1, <1>2, PushCalls DEF TypeInv, TypeOK
  <1>4. DialogInv(k) /\ ThreadsKnown(k)
    BY DEF AllDialogs
  <1> HIDE DEF d
  <1>5. /\ \A i \in Depth : DialogAt(i, k)' <=> DialogAt(i, k)
        /\ \A i \in Depth : ShownAt(i, k)' <=> ShownAt(i, k)
        /\ ShownAt(n, k)' <=> PostedAt(1, k)
    BY <1>1, <1>2, <1>3 DEF DialogAt, ShownAt, PostedAt
  <1>6. /\ \A i \in PostedDepth' : PostedAt(i, k)' <=> PostedAt(i + 1, k)
        /\ \A i \in PostedDepth \ {1} : PostedAt(i - 1, k)' <=> PostedAt(i, k)
    BY <1>1 DEF PostedAt
  <1>7. ThreadsKnown(k)'
    <2>1. \A i \in Depth' : DialogAt(i, k)' => calls'[i].thread <= thread'[k]
      <3>1. DialogAt(n, k)' => d.thread <= thread[k]
        BY <1>1, <1>3, <1>4 DEF DialogAt, ThreadsKnown
      <3> QED
        BY <1>1, <1>3, <1>4, <1>5, <3>1 DEF ThreadsKnown
    <2>2. \A i \in PostedDepth' : posted'[i].kind = k => posted'[i].thread <= thread'[k]
      BY <1>1, <1>4 DEF ThreadsKnown
    <2> QED
      BY <2>1, <2>2 DEF ThreadsKnown
  <1>8. CASE PostedAt(1, k)
    <2>1. /\ script[k] = "waits" /\ \A i \in Depth : ~ShownAt(i, k)
          /\ \A i \in PostedDepth : PostedAt(i, k) => i = 1
      BY <1>1, <1>4, <1>8 DEF DialogInv
    <2>2. /\ \A i \in Depth' : ShownAt(i, k)' <=> i = n
          /\ \A i \in PostedDepth' : ~PostedAt(i, k)'
      BY <1>1, <1>3, <1>5, <1>6, <1>8, <2>1
    <2> QED
      BY <1>1, <1>3, <1>4, <1>7, <2>1, <2>2 DEF DialogInv
  <1>9. CASE ~PostedAt(1, k)
    <2>1. \A i \in Depth' : ShownAt(i, k)' <=> i \in Depth /\ ShownAt(i, k)
      BY <1>3, <1>5, <1>9
    <2>2. \A i, j \in PostedDepth' : PostedAt(i, k)' /\ PostedAt(j, k)' => i = j
      <3> SUFFICES ASSUME NEW i \in PostedDepth', NEW j \in PostedDepth',
                          PostedAt(i, k)', PostedAt(j, k)'
                   PROVE  i = j
        OBVIOUS
      <3>1. i + 1 = j + 1
        BY <1>1, <1>4, <1>6 DEF DialogInv
      <3> QED
        BY <3>1 DEF PostedDepth
    <2>3. (\E i \in PostedDepth : PostedAt(i, k)) => \E i \in PostedDepth' : PostedAt(i, k)'
      <3> SUFFICES ASSUME NEW i \in PostedDepth, PostedAt(i, k)
                   PROVE  i - 1 \in PostedDepth' /\ PostedAt(i - 1, k)'
        OBVIOUS
      <3>1. i # 1
        BY <1>9
      <3> QED
        BY <1>1, <1>6, <3>1
    <2>4. \A i \in PostedDepth' : PostedAt(i, k)' => PostedAt(i + 1, k) /\ i + 1 \in PostedDepth
      BY <1>1, <1>6
    <2>5. \A i \in Depth', j \in PostedDepth' : ~(ShownAt(i, k)' /\ PostedAt(j, k)')
      BY <1>4, <2>1, <2>4 DEF DialogInv
    <2>6. script[k] = "waits" =>
            (\E i \in Depth' : ShownAt(i, k)') \/ (\E i \in PostedDepth' : PostedAt(i, k)')
      BY <1>3, <1>4, <2>1, <2>3 DEF DialogInv
    <2> QED
      BY <1>1, <1>4, <1>7, <2>1, <2>2, <2>4, <2>5, <2>6 DEF DialogInv
  <1> QED
    BY <1>8, <1>9

\* The answer arrives, or there is nobody to get it.
LEMMA ClosesDialogs ==
    ASSUME TypeInv, AllDialogs, DialogCloses, NEW k \in Kinds
    PROVE  DialogInv(k)' /\ ThreadsKnown(k)'
  <1> DEFINE n == Len(calls)
  <1>1. /\ Pop /\ calls # <<>> /\ Top.at = "dialog" /\ posted' = posted
        /\ UNCHANGED <<thread, dialog, job>>
    BY DEF DialogCloses, LoopIs
  <1>2. n \in Depth /\ Top = calls[n] /\ Top.kind \in Kinds
    BY <1>1, TopFrame, FrameIs DEF TypeInv, TypeOK
  <1>3. Depth' = Depth \ {n} /\ \A i \in Depth' : calls'[i] = calls[i]
    BY <1>1, PopCalls DEF TypeInv, TypeOK
  <1>4. DialogInv(k) /\ ThreadsKnown(k)
    BY DEF AllDialogs
  <1>5. ShownAt(n, k) <=> Top.kind = k /\ HasThread(Top)
    BY <1>1, <1>2 DEF ShownAt, DialogAt, HasThread
  <1> HIDE DEF n
  <1>6. \A i \in Depth' : ShownAt(i, k)' <=> ShownAt(i, k)
    BY <1>1, <1>3 DEF ShownAt, DialogAt
  <1>7. PostedDepth' = PostedDepth /\ \A i \in PostedDepth : PostedAt(i, k)' <=> PostedAt(i, k)
    BY <1>1 DEF PostedDepth, PostedAt
  <1>8. ThreadsKnown(k)'
    BY <1>1, <1>3, <1>4, <1>7 DEF ThreadsKnown, DialogAt
  <1>9. CASE ShownAt(n, k)
    <2>1. /\ script[k] = "waits" /\ \A i \in Depth : ShownAt(i, k) => i = n
          /\ \A i \in PostedDepth : ~PostedAt(i, k)
      BY <1>2, <1>4, <1>9 DEF DialogInv
    <2>2. script'[k] = "answered"
      BY <1>2, <1>5, <1>9 DEF DialogCloses, TypeInv, TypeOK
    <2>3. \A i \in Depth' : ~ShownAt(i, k)'
      BY <1>3, <1>6, <2>1
    <2> QED
      BY <1>1, <1>4, <1>7, <1>8, <2>1, <2>2, <2>3 DEF DialogInv
  <1>10. CASE ~ShownAt(n, k)
    <2>1. script'[k] = script[k]
      <3>1. CASE HasThread(Top)
        BY <1>2, <1>5, <1>10, <3>1 DEF DialogCloses, TypeInv, TypeOK
      <3>2. CASE ~HasThread(Top)
        BY <3>2 DEF DialogCloses
      <3> QED
        BY <3>1, <3>2
    <2>2. \A i \in Depth : ShownAt(i, k) => i \in Depth'
      BY <1>3, <1>10
    <2> QED
      BY <1>1, <1>3, <1>4, <1>6, <1>7, <1>8, <2>1, <2>2 DEF DialogInv
  <1> QED
    BY <1>9, <1>10

LEMMA DialogStep == TypeInv /\ AllDialogs /\ [Next]_vars => AllDialogs'
  <1> SUFFICES ASSUME TypeInv, AllDialogs, [Next]_vars, NEW k \in Kinds
               PROVE  DialogInv(k)' /\ ThreadsKnown(k)'
    BY DEF AllDialogs
  <1>0. DialogInv(k) /\ ThreadsKnown(k)
    BY DEF AllDialogs
  <1>1. ASSUME UNCHANGED <<thread, dialog, script, job, posted>>,
               \A i \in Depth' : calls'[i].at = "dialog" => i \in Depth /\ calls'[i] = calls[i],
               \A i \in Depth : calls[i].at = "dialog" => i \in Depth' /\ calls'[i] = calls[i]
        PROVE  DialogInv(k)' /\ ThreadsKnown(k)'
    <2>1. script[k] # "runs" => job'[k] # NoCall
      BY <1>0, <1>1 DEF DialogInv
    <2> QED
      BY <1>0, <1>1, <2>1, DialogKept DEF DialogAt
  <1>2. ASSUME NEW c \in CallIds, Execute(c) PROVE DialogInv(k)' /\ ThreadsKnown(k)'
    <2>1. \E f \in Frames : Push(f) /\ f.at # "dialog"
      BY <1>2, LoopFrame DEF Execute
    <2>2. UNCHANGED <<thread, dialog, script, job, posted>>
      BY <1>2 DEF Execute
    <2> QED
      BY <1>1, <2>1, <2>2, CallKeepsDialogs
  <1>3. CASE SeesFinished \/ BoxConfirmed
    <2>1. calls # <<>> /\ Top.at # "dialog" /\ Pop
      BY <1>3 DEF SeesFinished, BoxConfirmed, LoopIs
    <2>2. UNCHANGED <<thread, dialog, script, job, posted>>
      BY <1>3 DEF SeesFinished, BoxConfirmed, scripts
    <2> QED
      BY <1>1, <2>1, <2>2, CallKeepsDialogs
  <1>4. CASE Continues \/ ReadsDialog \/ HasTime
    <2>1. calls # <<>> /\ Top.at # "dialog" /\ \E place \in Loops \cup {"box"} : GoTo(place)
      BY <1>4 DEF Continues, ReadsDialog, HasTime, LoopIs, Loops
    <2>2. UNCHANGED <<thread, dialog, script, job, posted>>
      BY <1>4 DEF Continues, ReadsDialog, HasTime, scripts
    <2> QED
      BY <1>1, <2>1, <2>2, CallKeepsDialogs
  <1>5. ASSUME NEW k0 \in Kinds, Take(k0) PROVE DialogInv(k)' /\ ThreadsKnown(k)'
    <2>1. UNCHANGED <<thread, dialog, script, posted, calls>>
      BY <1>5 DEF Take
    <2>2. script[k] # "runs" => job'[k] # NoCall
      BY <1>0, <1>5 DEF Take, DialogInv, TypeInv, TypeOK
    <2> QED
      BY <1>0, <2>1, <2>2, StackKept, DialogKept
  <1>6. ASSUME NEW k0 \in Kinds, ScriptEnds(k0) PROVE DialogInv(k)' /\ ThreadsKnown(k)'
    <2>1. UNCHANGED <<thread, dialog, script, posted, calls>>
      BY <1>6 DEF ScriptEnds
    <2>2. script[k] # "runs" => job'[k] # NoCall
      BY <1>0, <1>6 DEF ScriptEnds, ScriptIs, DialogInv, TypeInv, TypeOK
    <2> QED
      BY <1>0, <2>1, <2>2, StackKept, DialogKept
  <1>7. ASSUME NEW k0 \in Kinds, AsksForDialog(k0) \/ LeavesDialog(k0)
        PROVE  DialogInv(k)' /\ ThreadsKnown(k)'
    <2>1. UNCHANGED <<thread, posted, calls, job>>
      BY <1>7 DEF AsksForDialog, LeavesDialog
    <2>2. CASE k # k0
      <3>1. dialog'[k] = dialog[k] /\ script'[k] = script[k]
        BY <1>7, <2>2 DEF AsksForDialog, LeavesDialog, TypeInv, TypeOK
      <3>2. script[k] # "runs" => job'[k] # NoCall
        BY <1>0, <2>1 DEF DialogInv
      <3> QED
        BY <1>0, <2>1, <3>1, <3>2, StackKept, DialogKept
    <2>3. CASE k = k0
      <3>1. script[k] # "waits" /\ script'[k] # "waits" /\ job'[k] # NoCall
        BY <1>7, <2>1, <2>3 DEF AsksForDialog, LeavesDialog, ScriptIs, TypeInv, TypeOK
      <3>2. dialog'[k] <=> script'[k] # "runs"
        BY <1>7, <2>3 DEF AsksForDialog, LeavesDialog, ScriptIs, TypeInv, TypeOK
      <3>3. /\ \A i \in Depth' : ~ShownAt(i, k)'
            /\ \A i \in PostedDepth' : ~PostedAt(i, k)'
        BY <1>0, <2>1, <3>1 DEF DialogInv, ShownAt, DialogAt, PostedAt, Depth, PostedDepth
      <3>4. ThreadsKnown(k)'
        BY <1>0, <2>1 DEF ThreadsKnown, DialogAt, Depth, PostedDepth
      <3> QED
        BY <3>1, <3>2, <3>3, <3>4 DEF DialogInv
    <2> QED
      BY <2>2, <2>3
  <1>8. ASSUME NEW k0 \in Kinds, PostsDialog(k0) PROVE DialogInv(k)' /\ ThreadsKnown(k)'
    <2>0. PICK n : n = Len(posted) + 1
      OBVIOUS
    <2>1. /\ Request(k0) \in Dialogs /\ Request(k0).kind = k0 /\ Request(k0).thread = thread[k0]
          /\ thread[k0] \in Nat
      BY DEF Request, Dialogs, TypeInv, TypeOK
    <2>2. /\ PostedDepth' = PostedDepth \cup {n} /\ n \notin PostedDepth
          /\ posted'[n] = Request(k0) /\ \A i \in PostedDepth : posted'[i] = posted[i]
      BY <1>8, <2>0, <2>1, PostCalls DEF PostsDialog, TypeInv, TypeOK
    <2>3. UNCHANGED <<thread, dialog, calls, job>>
      BY <1>8 DEF PostsDialog
    <2>4. \A i \in PostedDepth : PostedAt(i, k)' <=> PostedAt(i, k)
      BY <2>2, <2>3 DEF PostedAt
    <2>5. Depth' = Depth /\ \A i \in Depth : ShownAt(i, k)' <=> ShownAt(i, k)
      BY <2>3 DEF Depth, ShownAt, DialogAt
    <2>6. ThreadsKnown(k)'
      BY <1>0, <2>1, <2>2, <2>3 DEF ThreadsKnown, DialogAt, Depth
    <2>7. CASE k # k0
      <3>1. script'[k] = script[k] /\ ~PostedAt(n, k)'
        BY <1>8, <2>1, <2>2, <2>7 DEF PostsDialog, PostedAt, TypeInv, TypeOK
      <3>2. \A i \in PostedDepth' : PostedAt(i, k)' => i \in PostedDepth /\ PostedAt(i, k)
        BY <2>2, <2>4, <3>1
      <3> QED
        BY <1>0, <2>2, <2>3, <2>4, <2>5, <2>6, <3>1, <3>2 DEF DialogInv
    <2>8. CASE k = k0
      <3>1. script[k] = "asks" /\ script'[k] = "waits"
        BY <1>8, <2>8 DEF PostsDialog, ScriptIs, TypeInv, TypeOK
      <3>2. /\ \A i \in Depth : ~ShownAt(i, k)
            /\ \A i \in PostedDepth : ~PostedAt(i, k)
        BY <1>0, <3>1 DEF DialogInv
      <3>3. \A i \in PostedDepth' : PostedAt(i, k)' <=> i = n
        BY <2>1, <2>2, <2>3, <2>4, <2>8, <3>2 DEF PostedAt
      <3> QED
        BY <1>0, <2>2, <2>3, <2>5, <2>6, <3>1, <3>2, <3>3 DEF DialogInv
    <2> QED
      BY <2>7, <2>8
  <1>9. CASE UNCHANGED vars
    <2>1. UNCHANGED <<thread, dialog, script, job, posted, calls>>
      BY <1>9 DEF vars
    <2>2. script[k] # "runs" => job'[k] # NoCall
      BY <1>0, <2>1 DEF DialogInv
    <2> QED
      BY <1>0, <2>1, <2>2, StackKept, DialogKept
  <1> QED
    BY <1>2, <1>3, <1>4, <1>5, <1>6, <1>7, <1>8, <1>9, TimesOutDialogs, OpensDialogs,
       ClosesDialogs
    DEF Next, LoopStep, Stopped

\* A loop that leaves its place after the look at the flag leaves it for good, and
\* while it is there no dialog opens.
LEMMA CheckedStep == TypeInv /\ AllDialogs /\ CheckedInv /\ [Next]_vars => CheckedInv'
  <1> SUFFICES ASSUME TypeInv, AllDialogs, CheckedInv, [Next]_vars PROVE CheckedInv'
    OBVIOUS
  <1>0. calls \in Seq(Frames)
    BY DEF TypeInv, TypeOK
  <1>1. ASSUME \A i \in Depth' : calls'[i].at # "checked" PROVE CheckedInv'
    BY <1>1 DEF CheckedInv
  <1>2. ASSUME InEventLoop PROVE \A i \in Depth : calls[i].at # "checked"
    <2>1. Len(<<>>) = 0
      BY EmptySeq
    <2>2. CASE calls = <<>>
      BY <2>1, <2>2 DEF Depth
    <2>3. CASE calls # <<>>
      BY <1>0, <1>2, <2>3, TopFrame DEF InEventLoop, CheckedInv
    <2> QED
      BY <2>2, <2>3
  <1>3. ASSUME NEW f \in Frames, Push(f), InEventLoop, f.at # "checked" PROVE CheckedInv'
    BY <1>0, <1>1, <1>2, <1>3, PushCalls
  <1>4. ASSUME calls # <<>>, Pop PROVE CheckedInv'
    <2>1. \A i \in Depth \ {Len(calls)} : calls[i].at # "checked"
      BY DEF CheckedInv
    <2> QED
      BY <1>0, <1>1, <1>4, <2>1, PopCalls
  <1>5. ASSUME calls # <<>>, Top.at # "dialog", NEW place \in Loops \cup {"box"}, GoTo(place),
               place # "checked"
        PROVE  CheckedInv'
    <2>1. \A i \in Depth \ {Len(calls)} : calls[i].at # "checked"
      BY DEF CheckedInv
    <2> QED
      BY <1>0, <1>1, <1>5, <2>1, GoToCalls
  <1>6. ASSUME NEW c \in CallIds, Execute(c) PROVE CheckedInv'
    BY <1>3, <1>6, LoopFrame DEF Execute
  <1>7. CASE DialogOpens
    <2>1. Head(posted) \in Dialogs
      BY <1>7, TakePosted DEF DialogOpens, TypeInv, TypeOK
    <2>2. Head(posted) \in Frames /\ Head(posted).at # "checked"
      BY <2>1 DEF Frames, Dialogs
    <2> QED
      BY <1>3, <1>7, <2>2 DEF DialogOpens
  <1>8. CASE SeesFinished \/ BoxConfirmed \/ DialogCloses
    BY <1>4, <1>8 DEF SeesFinished, BoxConfirmed, DialogCloses, LoopIs
  <1>9. CASE Continues \/ HasTime \/ TimesOut
    BY <1>5, <1>9 DEF Continues, HasTime, TimesOut, LoopIs, Loops
  <1>10. CASE ReadsDialog
    <2>1. calls # <<>> /\ Top.at = "events" /\ thread' = thread
      BY <1>10 DEF ReadsDialog, LoopIs, scripts
    <2>2. CASE ~MayTimeOut(Top.kind)
      BY <1>5, <1>10, <2>1, <2>2 DEF ReadsDialog, Loops
    <2>3. CASE MayTimeOut(Top.kind)
      <3>1. GoTo("checked") /\ "checked" \in Loops \cup {"box"}
        BY <1>10, <2>3 DEF ReadsDialog, Loops
      <3>2. Top.kind \in Kinds
        BY <2>1, TopCall
      <3>3. PICK k \in Kinds : k = Top.kind
        BY <3>2
      <3>4. \A i \in Depth : ~ShownAt(i, k)
        BY <2>3, <3>3 DEF AllDialogs, DialogInv, MayTimeOut
      <3>5. /\ Len(calls') = Len(calls) /\ Depth' = Depth
            /\ \A i \in Depth \ {Len(calls)} : calls'[i] = calls[i]
            /\ calls'[Len(calls)].at = "checked" /\ calls'[Len(calls)].kind = k
        BY <1>0, <2>1, <3>1, <3>3, GoToCalls
      <3>6. \A i \in Depth \ {Len(calls)} : calls[i].at # "checked"
        BY DEF CheckedInv
      <3>7. \A i \in Depth : ~ShownAt(i, k)'
        BY <2>1, <3>4, <3>5 DEF ShownAt, DialogAt
      <3>8. \A i \in Depth' : calls'[i].at = "checked" =>
                i = Len(calls') /\ calls'[i].kind = k
        BY <3>5, <3>6
      <3> QED
        BY <3>5, <3>7, <3>8 DEF CheckedInv
    <2> QED
      BY <2>2, <2>3
  <1>11. ASSUME UNCHANGED <<calls, thread>> PROVE CheckedInv'
    BY <1>11 DEF CheckedInv, ShownAt, DialogAt, Depth
  <1>12. ASSUME NEW k \in Kinds,
                Take(k) \/ ScriptEnds(k) \/ AsksForDialog(k) \/ PostsDialog(k) \/ LeavesDialog(k)
         PROVE  CheckedInv'
    BY <1>11, <1>12 DEF Take, ScriptEnds, AsksForDialog, PostsDialog, LeavesDialog
  <1>13. CASE UNCHANGED vars
    BY <1>11, <1>13 DEF vars
  <1> QED
    BY <1>6, <1>7, <1>8, <1>9, <1>10, <1>12, <1>13 DEF Next, LoopStep, Stopped

DialogsInv == TypeInv /\ AllDialogs /\ CheckedInv

LEMMA DialogsInvAlways == SafeSpec => []DialogsInv
  <1>1. Init => AllDialogs /\ CheckedInv
    <2>1. Len(<<>>) = 0
      BY EmptySeq
    <2>2. Init => Depth = {} /\ PostedDepth = {}
      BY <2>1 DEF Init, Depth, PostedDepth
    <2> QED
      BY <2>2 DEF Init, AllDialogs, DialogInv, ThreadsKnown, CheckedInv
  <1>2. DialogsInv /\ [Next]_vars => DialogsInv'
    BY TypeStep, DialogStep, CheckedStep DEF DialogsInv
  <1> QED
    BY <1>1, <1>2, TypeInit, PTL DEF SafeSpec, DialogsInv

\* A dialog on the stack stays there, or its event loop ends.
LEMMA ShownStep == DialogsInv /\ [Next]_vars => [ShownStays]_vars
  <1> SUFFICES ASSUME DialogsInv, [Next]_vars, NEW i \in Depth, ShownFor(i), i \in Depth'
               PROVE  ShownFor(i)'
    <2>1. Len(calls') \in Nat => \A i \in Depth : i <= Len(calls') => i \in Depth'
      BY DEF Depth
    <2>2. [Next]_vars /\ DialogsInv => Len(calls') \in Nat
      <3>1. [Next]_vars /\ DialogsInv => calls' \in Seq(Frames)
        BY TypeStep DEF DialogsInv, TypeInv, TypeOK
      <3> QED
        BY <3>1, LenProperties
    <2> QED
      BY <2>1, <2>2 DEF ShownStays, Depth
  <1>0. calls \in Seq(Frames) /\ TypeInv
    BY DEF DialogsInv, TypeInv, TypeOK
  <1>1. calls[i].at = "dialog" /\ calls[i].thread = thread[calls[i].kind]
    BY DEF ShownFor, HasThread
  <1>2. ASSUME calls'[i] = calls[i], thread'[calls[i].kind] = thread[calls[i].kind]
        PROVE  ShownFor(i)'
    BY <1>1, <1>2 DEF ShownFor, HasThread, Depth
  <1>3. ASSUME NEW c \in CallIds, Execute(c) PROVE ShownFor(i)'
    <2>1. calls'[i] = calls[i]
      BY <1>0, <1>3, LoopFrame, PushCalls DEF Execute
    <2> QED
      BY <1>2, <1>3, <2>1 DEF Execute
  <1>4. CASE SeesFinished \/ BoxConfirmed \/ DialogCloses
    <2>1. Pop /\ calls # <<>> /\ thread' = thread
      BY <1>4 DEF SeesFinished, BoxConfirmed, DialogCloses, LoopIs, scripts
    <2> QED
      BY <1>0, <1>2, <2>1, PopCalls
  <1>5. CASE Continues \/ ReadsDialog \/ HasTime
    <2>1. calls # <<>> /\ Top.at # "dialog" /\ \E place \in Loops \cup {"box"} : GoTo(place)
      BY <1>5 DEF Continues, ReadsDialog, HasTime, LoopIs, Loops
    <2>2. calls'[i] = calls[i]
      BY <1>0, <1>1, <2>1, CallKeepsDialogs
    <2> QED
      BY <1>2, <1>5, <2>2 DEF Continues, ReadsDialog, HasTime, scripts
  <1>6. CASE TimesOut
    <2>1. calls # <<>> /\ Top.at = "checked" /\ GoTo("box")
      BY <1>6 DEF TimesOut, LoopIs
    <2>2. calls'[i] = calls[i]
      BY <1>0, <1>1, <2>1, CallKeepsDialogs
    <2>3. calls[i].kind # Top.kind
      BY <1>0, <1>1, <2>1, TopFrame DEF DialogsInv, CheckedInv, ShownAt, DialogAt
    <2>4. calls[i].kind \in Kinds
      BY <1>0, ElementOfSeq, FrameIs DEF Depth
    <2>5. thread'[calls[i].kind] = thread[calls[i].kind]
      BY <1>0, <1>6, <2>3, <2>4 DEF TimesOut, ReplaceThread, TypeInv, TypeOK
    <2> QED
      BY <1>2, <2>2, <2>5
  <1>7. CASE DialogOpens
    <2>1. Head(posted) \in Dialogs
      BY <1>0, <1>7, TakePosted DEF DialogOpens, TypeInv, TypeOK
    <2>2. calls'[i] = calls[i]
      BY <1>0, <1>7, <2>1, PushCalls DEF DialogOpens, Frames
    <2> QED
      BY <1>2, <1>7, <2>2 DEF DialogOpens, scripts
  <1>8. ASSUME NEW k \in Kinds,
               Take(k) \/ ScriptEnds(k) \/ AsksForDialog(k) \/ PostsDialog(k) \/ LeavesDialog(k)
        PROVE  ShownFor(i)'
    BY <1>2, <1>8 DEF Take, ScriptEnds, AsksForDialog, PostsDialog, LeavesDialog
  <1>9. CASE UNCHANGED vars
    BY <1>2, <1>9 DEF vars
  <1> QED
    BY <1>3, <1>4, <1>5, <1>6, <1>7, <1>8, <1>9 DEF Next, LoopStep, Stopped

(***************************************************************************)
(* No script is terminated under the dialog that the GUI thread shows for  *)
(* it: the loop looks at the flag after it has handled events, handles     *)
(* none until it has terminated the script, and the flag is set before the *)
(* dialog is posted.                                                       *)
(***************************************************************************)
THEOREM DialogsKeepThreads == SafeSpec => DialogKeepsThread
  BY DialogsInvAlways, ShownStep, PTL DEF SafeSpec, DialogKeepsThread
-----------------------------------------------------------------------------
(***************************************************************************)
(* The one deadlock.                                                       *)
(***************************************************************************)

\* The innermost event loop of the GUI thread can end, by the flag, by the timeout,
\* or by the user; or the dialog that stops its clock is on its way there or back;
\* or its call is buried.
InnermostGoesOn ==
    calls # <<>> =>
        \/ Top.at \in {"box", "dialog"}
        \/ finished[Top.kind] \/ MayTimeOut(Top.kind)
        \/ script[Top.kind] \in {"asks", "answered"}
        \/ \E i \in PostedDepth : PostedAt(i, Top.kind)
        \/ Buried

(***************************************************************************)
(* However calls, message boxes and dialogs are nested, and threads are    *)
(* replaced, the GUI thread can leave its innermost loop, unless that is a *)
(* call inside the dialog of a script of its kind: no other deadlock       *)
(* exists.                                                                 *)
(***************************************************************************)
THEOREM OnlyBuriedBlocks == SafeSpec => []InnermostGoesOn
  <1>1. DialogsInv => InnermostGoesOn
    <2> SUFFICES ASSUME DialogsInv, calls # <<>>, Top.at \notin {"box", "dialog"},
                        dialog[Top.kind], script[Top.kind] \notin {"asks", "answered"},
                        \A i \in PostedDepth : ~PostedAt(i, Top.kind)
                 PROVE  Buried
      BY DEF InnermostGoesOn, MayTimeOut
    <2>1. /\ Len(calls) \in Nat \ {0} /\ Top \in Frames /\ Top = calls[Len(calls)]
          /\ Len(calls) \in Depth
      BY TopFrame DEF DialogsInv, TypeInv, TypeOK
    <2>2. Top.at \in Loops /\ Top.kind \in Kinds
      BY <2>1, FrameIs
    <2>3. script[Top.kind] = "waits"
      BY <2>2 DEF DialogsInv, AllDialogs, DialogInv, TypeInv, TypeOK, Places
    <2>4. PICK i \in Depth : ShownAt(i, Top.kind)
      BY <2>2, <2>3 DEF DialogsInv, AllDialogs, DialogInv
    <2>5. i < Len(calls)
      BY <2>1, <2>4 DEF ShownAt, DialogAt, Depth
    <2> QED
      BY <2>1, <2>2, <2>4, <2>5 DEF Buried, ShownAt, DialogAt, HasThread, Depth
  <1> QED
    BY <1>1, DialogsInvAlways, PTL
=============================================================================

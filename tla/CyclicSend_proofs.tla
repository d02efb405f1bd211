------------------------- MODULE CyclicSend_proofs -------------------------
(***************************************************************************)
(* Proofs about CyclicSend, for every repetition count, with and without   *)
(* scripts, for every number of presses and cancels and every nesting of   *)
(* the calls that wait in an event loop.                                   *)
(***************************************************************************)
EXTENDS CyclicSend, FiniteSetTheorems, SequenceTheorems, TLAPS

\* A run in progress still has a send to report.
CountInRange == inProgress => count <= form.repetitions

\* Each call that will start a run was made by a press of its own.
StartCalls == {i \in 1..Len(calls) : calls[i].kind = "start"}
StartsPressed == run + Cardinality(StartCalls) <= presses

TypeInv == TypeOK /\ CountInRange /\ StartsPressed
-----------------------------------------------------------------------------
(***************************************************************************)
(* The calls in progress.                                                  *)
(***************************************************************************)

\* A new call is the innermost one.
LEMMA PushCalls ==
    ASSUME calls \in Seq(Calls), NEW c \in Calls, Push(c)
    PROVE  /\ calls' \in Seq(Calls) /\ Len(calls) \in Nat
           /\ Len(calls') = Len(calls) + 1 /\ calls'[Len(calls) + 1] = c
           /\ \A i \in 1..Len(calls) : calls'[i] = calls[i]
  BY AppendProperties, LenProperties DEF Push

\* The innermost call returns, the others stay.
LEMMA PopCalls ==
    ASSUME calls \in Seq(Calls), calls # <<>>, Pop
    PROVE  /\ calls' \in Seq(Calls) /\ Len(calls) \in Nat \ {0}
           /\ Len(calls') = Len(calls) - 1
           /\ \A i \in 1..Len(calls') : calls'[i] = calls[i]
           /\ Top \in Calls /\ Top = calls[Len(calls)]
  <1>1. Len(calls) \in Nat \ {0}
    BY EmptySeq, LenProperties
  <1>2. \A i \in 1..Len(calls) : calls[i] \in Calls
    BY ElementOfSeq
  <1>3. /\ calls' \in Seq(Calls)
        /\ Len(calls') = IF 1 <= Len(calls) - 1 THEN Len(calls) - 1 - 1 + 1 ELSE 0
        /\ \A i \in 1..(Len(calls) - 1 - 1 + 1) : calls'[i] = calls[1 + i - 1]
    BY <1>1, <1>2, SubSeqProperties DEF Pop
  <1>4. Len(calls') = Len(calls) - 1
    <2> DEFINE n == Len(calls)
    <2>1. n \in Nat /\ n # 0 /\ Len(calls') = IF 1 <= n - 1 THEN n - 1 - 1 + 1 ELSE 0
      BY <1>1, <1>3
    <2> HIDE DEF n
    <2>2. Len(calls') = n - 1
      BY <2>1
    <2> QED
      BY <2>2 DEF n
  <1>5. \A i \in 1..Len(calls') : calls'[i] = calls[i]
    BY <1>1, <1>3, <1>4
  <1> QED
    BY <1>1, <1>2, <1>3, <1>4, <1>5 DEF Top

\* The calls of one kind can be counted.
LEMMA KindFinite ==
    ASSUME NEW s \in Seq(Calls)
    PROVE  /\ IsFiniteSet({i \in 1..Len(s) : s[i].kind = "start"})
           /\ Cardinality({i \in 1..Len(s) : s[i].kind = "start"}) \in Nat
  <1>1. IsFiniteSet(1..Len(s))
    BY FS_Interval, LenProperties
  <1> QED
    BY <1>1, FS_Subset, FS_CardinalityType

LEMMA StartCallsFinite ==
    ASSUME calls \in Seq(Calls)
    PROVE  IsFiniteSet(StartCalls) /\ Cardinality(StartCalls) \in Nat
  BY KindFinite DEF StartCalls

LEMMA StartCallsPush ==
    ASSUME calls \in Seq(Calls), NEW c \in Calls, Push(c)
    PROVE  Cardinality(StartCalls') =
               Cardinality(StartCalls) + (IF c.kind = "start" THEN 1 ELSE 0)
  <1>1. StartCalls' = IF c.kind = "start" THEN StartCalls \cup {Len(calls) + 1}
                      ELSE StartCalls
    BY PushCalls DEF StartCalls
  <1>2. Len(calls) + 1 \notin StartCalls
    BY LenProperties DEF StartCalls
  <1>3. Cardinality(StartCalls \cup {Len(calls) + 1}) = Cardinality(StartCalls) + 1
    BY <1>2, StartCallsFinite, FS_AddElement
  <1>4. CASE c.kind = "start"
    BY <1>1, <1>3, <1>4
  <1>5. CASE c.kind # "start"
    BY <1>1, <1>5, StartCallsFinite
  <1> QED
    BY <1>4, <1>5

LEMMA StartCallsPop ==
    ASSUME calls \in Seq(Calls), calls # <<>>, Pop
    PROVE  Cardinality(StartCalls') =
               Cardinality(StartCalls) - (IF Top.kind = "start" THEN 1 ELSE 0)
  <1>1. StartCalls' = StartCalls \ {Len(calls)}
    BY PopCalls DEF StartCalls
  <1>2. Len(calls) \in StartCalls <=> Top.kind = "start"
    BY PopCalls DEF StartCalls
  <1>3. Cardinality(StartCalls \ {Len(calls)}) =
            IF Len(calls) \in StartCalls THEN Cardinality(StartCalls) - 1
            ELSE Cardinality(StartCalls)
    BY StartCallsFinite, FS_RemoveElement
  <1>4. CASE Top.kind = "start"
    BY <1>1, <1>2, <1>3, <1>4
  <1>5. CASE Top.kind # "start"
    BY <1>1, <1>2, <1>3, <1>5, StartCallsFinite
  <1> QED
    BY <1>4, <1>5
-----------------------------------------------------------------------------
(***************************************************************************)
(* Type correctness.                                                       *)
(***************************************************************************)
LEMMA TypeInit == Init => TypeInv
  <1> SUFFICES ASSUME Init PROVE TypeInv
    OBVIOUS
  <1>1. TypeOK
    BY EmptySeq, CyclicAssumption DEF Init, TypeOK, Runs
  <1>2. StartCalls = {}
    BY EmptySeq DEF Init, StartCalls
  <1>3. StartsPressed
    BY <1>2, FS_EmptySet DEF Init, StartsPressed
  <1> QED
    BY <1>1, <1>3 DEF Init, CountInRange, TypeInv

\* An answer, and what is left in the queue.
LEMMA NextAnswerType ==
    ASSUME TypeOK, NextAnswer
    PROVE  Head(answers) \in Answers /\ answers' \in Seq(Answers)
  BY HeadTailProperties DEF TypeOK, NextAnswer

\* Starting a run that was pressed keeps the types.
LEMMA StartRunType ==
    ASSUME TypeOK, NEW f \in Forms, StartRun(f), run + 1 \in Runs
    PROVE  /\ inProgress' = TRUE /\ form' = f /\ count' = 0 /\ timer' = timer
           /\ run' = run + 1 /\ own' = 0 /\ result' = "none"
           /\ flight' \in [Runs -> Nat]
  <1>1. flight \in [Runs -> Nat] /\ flight' = [flight EXCEPT ![run + 1] = @ + 1]
    BY DEF StartRun, Emit, TypeOK
  <1>2. flight' \in [Runs -> Nat]
    BY <1>1
  <1> QED
    BY <1>2 DEF StartRun

LEMMA TypeStep == TypeInv /\ [Next]_vars => TypeInv'
  <1> SUFFICES ASSUME TypeInv, [Next]_vars PROVE TypeInv'
    OBVIOUS
  <1> USE CyclicAssumption
  <1>0. TypeOK /\ CountInRange /\ StartsPressed /\ calls \in Seq(Calls)
    BY DEF TypeInv, TypeOK
  <1>f. /\ form.repetitions \in 0..MaxRepetitions /\ count \in Nat
        /\ Cardinality(StartCalls) \in Nat /\ run \in Nat /\ presses \in Nat
        /\ run \in Runs
    BY <1>0, StartCallsFinite DEF TypeOK, Forms, Runs
  <1>c. ASSUME UNCHANGED <<calls, run, presses>> PROVE StartsPressed'
    BY <1>0, <1>c DEF StartsPressed, StartCalls
  <1>n. NextCall \in Calls /\ NextCall.kind # "start"
    BY <1>f DEF NextCall, Calls
  <1>k. CloseCall \in Calls /\ CloseCall.kind # "start"
    BY DEF CloseCall, Calls
  <1>e. ASSUME NEW r \in Runs, Emit(r) PROVE flight' \in [Runs -> Nat]
    BY <1>0, <1>e DEF Emit, TypeOK
  <1>s. ASSUME SendNext, UNCHANGED <<run, presses, form>>
        PROVE  /\ calls' \in Seq(Calls) /\ flight' \in [Runs -> Nat]
               /\ timer' \in BOOLEAN /\ StartsPressed'
    <2>1. timer' \in BOOLEAN
      BY <1>s, <1>0 DEF SendNext, TypeOK, Forms
    <2>2. CASE form.script
      <3>1. Push(NextCall) /\ flight' = flight
        BY <1>s, <2>2 DEF SendNext
      <3>2. Cardinality(StartCalls') = Cardinality(StartCalls)
        BY <3>1, <1>0, <1>f, <1>n, StartCallsPush
      <3> QED
        BY <2>1, <3>1, <3>2, <1>s, <1>0, <1>n, PushCalls DEF StartsPressed, TypeOK
    <2>3. CASE ~form.script
      <3>1. Emit(run) /\ calls' = calls
        BY <1>s, <2>3 DEF SendNext
      <3> QED
        BY <2>1, <3>1, <1>0, <1>f, <1>e, <1>s, <1>c
    <2> QED
      BY <2>2, <2>3
  <1>r. ASSUME NEW f \in Forms, StartRun(f), run + 1 \in Runs, run + 1 \in 0..presses',
               presses' \in 0..MaxPresses, calls' \in Seq(Calls), StartsPressed',
               UNCHANGED <<connected, closing, answers, cancels>>
        PROVE  TypeInv'
    <2>1. /\ inProgress' = TRUE /\ form' = f /\ count' = 0 /\ timer' = timer
          /\ run' = run + 1 /\ own' = 0 /\ result' = "none"
          /\ flight' \in [Runs -> Nat]
      BY <1>r, <1>0, StartRunType
    <2>2. f.repetitions \in 0..MaxRepetitions
      BY DEF Forms
    <2>3. CountInRange'
      BY <2>1, <2>2 DEF CountInRange
    <2>4. TypeOK'
      BY <2>1, <1>r, <1>0 DEF TypeOK
    <2> QED
      BY <2>3, <2>4, <1>r DEF TypeInv
  <1>1. CASE PressCancel
    <2>1. presses' = presses + 1 /\ presses' \in 0..MaxPresses /\ UNCHANGED <<calls, run>>
      BY <1>0, <1>1, <1>f DEF PressCancel, Press
    <2>2. StartsPressed'
      BY <2>1, <1>0, <1>f DEF StartsPressed, StartCalls
    <2>3. cancels' \in 0..MaxCancels
      BY <1>0, <1>1 DEF PressCancel, TypeOK
    <2>4. /\ inProgress' = FALSE /\ timer' = FALSE
          /\ result' \in {"none", "complete", "stopped", "cancelled"}
      BY <1>0, <1>1 DEF PressCancel, StopRun, TypeOK
    <2>5. run' \in 0..presses'
      BY <2>1, <1>0 DEF TypeOK
    <2> QED
      BY <1>0, <1>1, <2>1, <2>2, <2>3, <2>4, <2>5
      DEF PressCancel, TypeInv, TypeOK, CountInRange
  <1>2. ASSUME NEW f \in Forms, PressSend(f) PROVE TypeInv'
    <2>1. presses' = presses + 1 /\ presses' \in 0..MaxPresses /\ run < presses'
      BY <1>0, <1>2, <1>f DEF PressSend, Press, TypeOK, StartsPressed
    <2>2. UNCHANGED <<connected, closing, answers, cancels>>
      BY <1>2 DEF PressSend
    <2>3. CASE f.script
      <3>1. Push(StartCall(f)) /\ UNCHANGED <<sendWindow, flight, run>>
        BY <1>2, <2>3 DEF PressSend
      <3>2. StartCall(f) \in Calls /\ StartCall(f).kind = "start"
        BY DEF StartCall, Calls
      <3>3. Cardinality(StartCalls') = Cardinality(StartCalls) + 1
        BY <3>1, <3>2, <1>0, StartCallsPush
      <3>4. StartsPressed'
        BY <3>1, <3>3, <2>1, <1>0, <1>f DEF StartsPressed
      <3> QED
        BY <3>1, <3>2, <3>4, <2>1, <2>2, <1>0, <1>f, PushCalls
        DEF TypeInv, TypeOK, CountInRange, sendWindow
    <2>4. CASE ~f.script
      <3>1. StartRun(f) /\ UNCHANGED calls
        BY <1>2, <2>4 DEF PressSend
      <3>2. StartsPressed'
        BY <3>1, <2>1, <1>0, <1>f DEF StartsPressed, StartCalls, StartRun
      <3>3. run + 1 \in Runs
        BY <2>1, <1>f DEF Runs
      <3>4. calls' \in Seq(Calls) /\ run + 1 \in 0..presses'
        BY <3>1, <2>1, <1>0, <1>f
      <3> QED
        BY <3>1, <3>2, <3>3, <3>4, <2>1, <2>2, <1>r
    <2> QED
      BY <2>3, <2>4
  <1>3. CASE CloseEvent
    <2>1. Push(CloseCall) /\ UNCHANGED <<run, presses>>
      BY <1>3 DEF CloseEvent, user
    <2>2. StartsPressed'
      BY <2>1, <1>0, <1>f, <1>k, StartCallsPush DEF StartsPressed
    <2> QED
      BY <1>3, <2>1, <2>2, <1>0, <1>k, PushCalls
      DEF CloseEvent, TypeInv, TypeOK, CountInRange, sendWindow, user
  <1>4. CASE CloseReturns
    <2>1. calls # <<>> /\ Pop /\ Top = CloseCall /\ UNCHANGED <<run, presses>>
      BY <1>4 DEF CloseReturns, user
    <2>2. StartsPressed'
      BY <2>1, <1>0, <1>f, <1>k, StartCallsPop DEF StartsPressed
    <2> QED
      BY <1>4, <2>1, <2>2, <1>0, PopCalls
      DEF CloseReturns, TypeInv, TypeOK, CountInRange, sendWindow, user
  <1>5. CASE StartScriptReturns
    <2>1. /\ calls # <<>> /\ Pop /\ Top.kind = "start"
          /\ UNCHANGED <<connected, closing, answers, presses, cancels>>
      BY <1>5 DEF StartScriptReturns, user
    <2>2. Cardinality(StartCalls') = Cardinality(StartCalls) - 1
      BY <2>1, <1>0, <1>f, StartCallsPop
    <2>3. Cardinality(StartCalls') \in Nat
      <3>1. calls' \in Seq(Calls)
        BY <2>1, <1>0, PopCalls
      <3> QED
        BY <3>1, KindFinite DEF StartCalls
    <2>4. CASE UNCHANGED <<sendWindow, flight, run>>
      <3>1. StartsPressed'
        BY <2>1, <2>2, <2>4, <1>0, <1>f DEF StartsPressed
      <3> QED
        BY <2>1, <2>4, <3>1, <1>0, PopCalls DEF TypeInv, TypeOK, CountInRange, sendWindow
    <2>5. CASE StartRun(Top.form)
      <3>1. Top.form \in Forms
        BY <2>1, <1>0, PopCalls DEF Calls, CloseCall
      <3>2. run < presses'
        BY <2>1, <2>2, <2>3, <1>0, <1>f DEF StartsPressed
      <3>3. StartsPressed'
        BY <2>1, <2>2, <2>5, <1>0, <1>f DEF StartsPressed, StartRun
      <3>4. run + 1 \in Runs /\ presses' \in 0..MaxPresses /\ run + 1 \in 0..presses'
        BY <2>1, <3>2, <1>0, <1>f DEF Runs, TypeOK
      <3>5. calls' \in Seq(Calls)
        BY <2>1, <1>0, PopCalls
      <3> QED
        BY <2>1, <2>5, <3>1, <3>3, <3>4, <3>5, <1>r
    <2> QED
      BY <1>5, <2>4, <2>5 DEF StartScriptReturns
  <1>6. CASE NextScriptReturns
    <2>1. /\ calls # <<>> /\ Pop /\ Top.kind = "next"
          /\ UNCHANGED <<connected, closing, answers, presses, cancels, run>>
      BY <1>6 DEF NextScriptReturns, user
    <2>2. StartsPressed'
      BY <2>1, <1>0, <1>f, StartCallsPop DEF StartsPressed
    <2>3. Top.run \in Runs
      BY <2>1, <1>0, PopCalls DEF Calls, CloseCall
    <2>4. CASE Emit(Top.run) /\ UNCHANGED sendWindow
      BY <2>1, <2>2, <2>3, <2>4, <1>0, <1>e, PopCalls DEF TypeInv, TypeOK, CountInRange, sendWindow
    <2>5. CASE StopRun("stopped") /\ UNCHANGED <<flight, form, count, own>>
      BY <2>1, <2>2, <2>5, <1>0, PopCalls DEF TypeInv, TypeOK, CountInRange, StopRun
    <2> QED
      BY <1>6, <2>4, <2>5 DEF NextScriptReturns
  <1>7. CASE TimerElapses
    BY <1>7, <1>0, <1>s DEF TimerElapses, TypeInv, TypeOK, CountInRange, user
  <1>8. CASE AnswerIgnored
    BY <1>8, <1>0, <1>c, NextAnswerType
    DEF AnswerIgnored, TypeInv, TypeOK, CountInRange, sendWindow, user
  <1>9. CASE AnswerLast
    <2>1. count' \in 0..(MaxRepetitions + 1) /\ own' \in Nat
      BY <1>9, <1>0, <1>f DEF AnswerLast, Counted, CountInRange, TypeOK
    <2> QED
      BY <2>1, <1>9, <1>0, <1>c, NextAnswerType
      DEF AnswerLast, StopRun, TypeInv, TypeOK, CountInRange, user
  <1>10. CASE AnswerNext
    <2>1. /\ NextAnswer /\ Counted /\ count + 1 <= form.repetitions
          /\ UNCHANGED <<connected, inProgress, closing, form, presses, cancels, run, result>>
      BY <1>10, <1>f DEF AnswerNext, LastOne, user
    <2>2. /\ calls' \in Seq(Calls) /\ flight' \in [Runs -> Nat]
          /\ timer' \in BOOLEAN /\ StartsPressed'
      BY <1>10, <2>1, <1>0, <1>c, <1>s DEF AnswerNext, TypeOK
    <2>3. count' = count + 1 /\ own' \in Nat
      BY <2>1, <1>0 DEF Counted, TypeOK
    <2> QED
      BY <2>1, <2>2, <2>3, <1>0, <1>f, NextAnswerType DEF TypeInv, TypeOK, CountInRange
  <1>11. CASE AnswerWhileClosing
    BY <1>11, <1>0, <1>c, NextAnswerType
    DEF AnswerWhileClosing, StopRun, TypeInv, TypeOK, CountInRange, user
  <1>12. CASE AnswerFailed
    BY <1>12, <1>0, <1>c, NextAnswerType
    DEF AnswerFailed, SendFailed, StopRun, TypeInv, TypeOK, CountInRange, user
  <1>13. ASSUME NEW r \in Runs, Answer(r) PROVE TypeInv'
    <2>1. PICK ok \in BOOLEAN : answers' = Append(answers, [run |-> r, ok |-> ok])
      BY <1>13 DEF Answer
    <2>2. [run |-> r, ok |-> ok] \in Answers
      BY DEF Answers
    <2>3. answers' \in Seq(Answers)
      BY <2>1, <2>2, <1>0, AppendProperties DEF TypeOK
    <2>4. flight' \in [Runs -> Nat]
      BY <1>13, <1>0 DEF Answer, TypeOK
    <2> QED
      BY <1>13, <2>3, <2>4, <1>0, <1>c DEF Answer, TypeInv, TypeOK, CountInRange, sendWindow, user
  <1>14. CASE ConnectionChanges
    BY <1>14, <1>0, <1>c DEF ConnectionChanges, TypeInv, TypeOK, CountInRange, sendWindow, user
  <1>15. CASE UNCHANGED vars
    BY <1>15, <1>0, <1>c DEF vars, TypeInv, TypeOK, CountInRange
  <1> QED
    BY <1>1, <1>2, <1>3, <1>4, <1>5, <1>6, <1>7, <1>8, <1>9, <1>10, <1>11, <1>12, <1>13, <1>14,
       <1>15 DEF Next, HandleAnswer

(***************************************************************************)
(* Every variable keeps its type; in particular the number of sends of a   *)
(* run never exceeds its repetition count plus one, also when it counts    *)
(* answers of cancelled runs.                                              *)
(***************************************************************************)
THEOREM TypeCorrect == SafeSpec => []TypeOK
  <1>1. TypeInv => TypeOK
    BY DEF TypeInv
  <1> QED
    BY <1>1, TypeInit, TypeStep, PTL DEF SafeSpec
-----------------------------------------------------------------------------
(***************************************************************************)
(* The timer of a run.                                                     *)
(***************************************************************************)
LEMMA TimerStep == TypeOK /\ TimerOnlyInRun /\ [Next]_vars => TimerOnlyInRun'
  <1> SUFFICES ASSUME TypeOK, TimerOnlyInRun, [Next]_vars PROVE TimerOnlyInRun'
    OBVIOUS
  <1>1. CASE PressCancel
    BY <1>1 DEF PressCancel, StopRun, TimerOnlyInRun
  <1>2. ASSUME NEW f \in Forms, PressSend(f) PROVE TimerOnlyInRun'
    BY <1>2 DEF PressSend, StartRun, sendWindow, TimerOnlyInRun
  <1>3. CASE CloseEvent
    BY <1>3 DEF CloseEvent, sendWindow, TimerOnlyInRun
  <1>4. CASE CloseReturns
    BY <1>4 DEF CloseReturns, sendWindow, TimerOnlyInRun
  <1>5. CASE StartScriptReturns
    BY <1>5 DEF StartScriptReturns, StartRun, sendWindow, TimerOnlyInRun
  <1>6. CASE NextScriptReturns
    <2>1. CASE StopRun("stopped")
      BY <2>1 DEF StopRun, TimerOnlyInRun
    <2>2. CASE UNCHANGED sendWindow
      BY <2>2 DEF sendWindow, TimerOnlyInRun
    <2> QED
      BY <1>6, <2>1, <2>2 DEF NextScriptReturns
  <1>7. CASE TimerElapses
    <2>1. inProgress /\ inProgress' = inProgress
      BY <1>7 DEF TimerElapses, TimerOnlyInRun
    <2> QED
      BY <2>1 DEF TimerOnlyInRun
  <1>8. CASE AnswerIgnored
    BY <1>8 DEF AnswerIgnored, sendWindow, TimerOnlyInRun
  <1>9. CASE AnswerLast
    BY <1>9 DEF AnswerLast, StopRun, TimerOnlyInRun
  <1>10. CASE AnswerNext
    <2>1. inProgress /\ inProgress' = inProgress
      BY <1>10 DEF AnswerNext
    <2> QED
      BY <2>1 DEF TimerOnlyInRun
  <1>11. CASE AnswerWhileClosing
    BY <1>11 DEF AnswerWhileClosing, StopRun, TimerOnlyInRun
  <1>12. CASE AnswerFailed
    BY <1>12 DEF AnswerFailed, SendFailed, StopRun, TimerOnlyInRun
  <1>13. ASSUME NEW r \in Runs, Answer(r) PROVE TimerOnlyInRun'
    BY <1>13 DEF Answer, sendWindow, TimerOnlyInRun
  <1>14. CASE ConnectionChanges
    BY <1>14 DEF ConnectionChanges, sendWindow, TimerOnlyInRun
  <1>15. CASE UNCHANGED vars
    BY <1>15 DEF vars, TimerOnlyInRun
  <1> QED
    BY <1>1, <1>2, <1>3, <1>4, <1>5, <1>6, <1>7, <1>8, <1>9, <1>10, <1>11, <1>12, <1>13, <1>14,
       <1>15 DEF Next, HandleAnswer

(***************************************************************************)
(* A timer that runs belongs to a run in progress, however the run before  *)
(* it ended and whatever was cancelled and started inside event loops.     *)
(***************************************************************************)
THEOREM TimerInRun == SafeSpec => []TimerOnlyInRun
  <1>1. Init => TimerOnlyInRun
    BY DEF Init, TimerOnlyInRun
  <1> QED
    BY <1>1, TypeCorrect, TimerStep, PTL DEF SafeSpec
-----------------------------------------------------------------------------
(***************************************************************************)
(* What drives a run.                                                      *)
(***************************************************************************)

\* A new call leaves the calls for the next message there, and may be one.
LEMMA NextCallsPush ==
    ASSUME calls \in Seq(Calls), NEW c \in Calls, Push(c)
    PROVE  /\ NextCalls # {} => NextCalls' # {}
           /\ c.kind = "next" => NextCalls' # {}
  <1>1. Len(calls) \in Nat /\ Len(calls') = Len(calls) + 1
    BY PushCalls
  <1>2. NextCalls \subseteq NextCalls'
    BY <1>1, PushCalls DEF NextCalls
  <1>3. c.kind = "next" => Len(calls) + 1 \in NextCalls'
    BY <1>1, PushCalls DEF NextCalls
  <1> QED
    BY <1>2, <1>3

\* The return of another call leaves the calls for the next message there.
LEMMA NextCallsPop ==
    ASSUME calls \in Seq(Calls), calls # <<>>, Pop, Top.kind # "next", NextCalls # {}
    PROVE  NextCalls' # {}
  <1>1. PICK i \in NextCalls : TRUE
    OBVIOUS
  <1>2. i \in 1..Len(calls) /\ calls[i].kind = "next" /\ i # Len(calls)
    BY <1>1, PopCalls DEF NextCalls
  <1>3. i \in 1..Len(calls') /\ calls'[i] = calls[i]
    BY <1>2, PopCalls
  <1> QED
    BY <1>2, <1>3 DEF NextCalls

\* A request that was handed over is under way.
LEMMA EmitDrives ==
    ASSUME TypeOK, NEW r \in Runs, Emit(r)
    PROVE  \E q \in Runs : flight'[q] > 0
  <1>1. flight \in [Runs -> Nat] /\ flight' = [flight EXCEPT ![r] = @ + 1]
    BY DEF Emit, TypeOK
  <1>2. flight'[r] = flight[r] + 1 /\ flight[r] \in Nat
    BY <1>1
  <1> QED
    BY <1>2

\* Sending the next message hands it over, or calls the script for it.
LEMMA SendNextDrives ==
    ASSUME TypeOK, SendNext
    PROVE  NextCalls' # {} \/ \E q \in Runs : flight'[q] > 0
  <1>1. run \in Runs /\ calls \in Seq(Calls)
    BY CyclicAssumption DEF TypeOK, Runs
  <1>2. NextCall \in Calls /\ NextCall.kind = "next"
    BY <1>1 DEF NextCall, Calls
  <1>3. CASE Push(NextCall)
    BY <1>1, <1>2, <1>3, NextCallsPush
  <1>4. CASE Emit(run)
    BY <1>1, <1>4, EmitDrives
  <1> QED
    BY <1>3, <1>4 DEF SendNext

LEMMA DrivenStep == TypeInv /\ RunIsDriven /\ [Next]_vars => RunIsDriven'
  <1> SUFFICES ASSUME TypeInv, RunIsDriven, [Next]_vars PROVE RunIsDriven'
    OBVIOUS
  <1> USE CyclicAssumption
  <1>0. TypeOK /\ calls \in Seq(Calls) /\ TypeInv'
    BY TypeStep DEF TypeInv, TypeOK
  <1>r. ASSUME NEW f, StartRun(f) PROVE RunIsDriven'
    <2>1. run' = run + 1 /\ Emit(run + 1) /\ run' \in Runs
      BY <1>r, <1>0 DEF StartRun, TypeInv, TypeOK, Runs
    <2> QED
      BY <2>1, <1>0, EmitDrives DEF RunIsDriven
  <1>1. CASE PressCancel
    BY <1>1 DEF PressCancel, StopRun, RunIsDriven
  <1>2. ASSUME NEW f \in Forms, PressSend(f) PROVE RunIsDriven'
    <2>1. CASE ~f.script
      BY <1>2, <1>r, <2>1 DEF PressSend
    <2>2. CASE f.script
      BY <1>2, <2>2 DEF PressSend, sendWindow, RunIsDriven
    <2> QED
      BY <2>1, <2>2
  <1>3. CASE CloseEvent
    <2>1. Push(CloseCall) /\ UNCHANGED <<sendWindow, flight, answers>> /\ CloseCall \in Calls
      BY <1>3 DEF CloseEvent, CloseCall, Calls
    <2> QED
      BY <2>1, <1>0, NextCallsPush DEF RunIsDriven, sendWindow
  <1>4. CASE CloseReturns
    BY <1>4 DEF CloseReturns, RunIsDriven, sendWindow
  <1>5. CASE StartScriptReturns
    <2>1. calls # <<>> /\ Pop /\ Top.kind # "next" /\ answers' = answers
      BY <1>5 DEF StartScriptReturns
    <2>2. CASE UNCHANGED <<sendWindow, flight, run>>
      BY <2>1, <2>2, <1>0, NextCallsPop DEF RunIsDriven, sendWindow
    <2> QED
      BY <1>5, <2>2, <1>r DEF StartScriptReturns
  <1>6. CASE NextScriptReturns
    <2>1. CASE Emit(Top.run) /\ UNCHANGED sendWindow
      <3>1. Top.run \in Runs
        BY <1>6, <1>0, PopCalls DEF NextScriptReturns, Calls, CloseCall
      <3> QED
        BY <2>1, <3>1, <1>0, EmitDrives DEF RunIsDriven
    <2>2. CASE StopRun("stopped")
      BY <2>2 DEF StopRun, RunIsDriven
    <2> QED
      BY <1>6, <2>1, <2>2 DEF NextScriptReturns
  <1>7. CASE TimerElapses
    BY <1>7, <1>0, SendNextDrives DEF TimerElapses, RunIsDriven
  <1>8. CASE AnswerIgnored
    BY <1>8 DEF AnswerIgnored, sendWindow, RunIsDriven
  <1>9. CASE AnswerLast
    BY <1>9 DEF AnswerLast, StopRun, RunIsDriven
  <1>10. CASE AnswerNext
    BY <1>10, <1>0, SendNextDrives DEF AnswerNext, RunIsDriven
  <1>11. CASE AnswerWhileClosing
    BY <1>11 DEF AnswerWhileClosing, StopRun, RunIsDriven
  <1>12. CASE AnswerFailed
    BY <1>12 DEF AnswerFailed, SendFailed, StopRun, RunIsDriven
  <1>13. ASSUME NEW r \in Runs, Answer(r) PROVE RunIsDriven'
    <2>1. PICK ok \in BOOLEAN : answers' = Append(answers, [run |-> r, ok |-> ok])
      BY <1>13 DEF Answer
    <2>2. answers' # <<>>
      BY <2>1, <1>0, AppendProperties DEF TypeOK, Answers
    <2> QED
      BY <2>2 DEF RunIsDriven
  <1>14. CASE ConnectionChanges
    BY <1>14 DEF ConnectionChanges, sendWindow, RunIsDriven, NextCalls
  <1>15. CASE UNCHANGED vars
    BY <1>15 DEF vars, RunIsDriven, NextCalls
  <1> QED
    BY <1>1, <1>2, <1>3, <1>4, <1>5, <1>6, <1>7, <1>8, <1>9, <1>10, <1>11, <1>12, <1>13, <1>14,
       <1>15 DEF Next, HandleAnswer

(***************************************************************************)
(* A run in progress always has a request, an answer, a script or a timer  *)
(* that will continue or end it: the window is never stuck.                *)
(***************************************************************************)
THEOREM Driven == SafeSpec => []RunIsDriven
  <1>1. Init => RunIsDriven
    BY DEF Init, RunIsDriven
  <1>2. Init => TypeInv /\ RunIsDriven
    BY <1>1, TypeInit
  <1>3. TypeInv /\ RunIsDriven /\ [Next]_vars => (TypeInv /\ RunIsDriven)'
    BY TypeStep, DrivenStep
  <1> QED
    BY <1>2, <1>3, PTL DEF SafeSpec
-----------------------------------------------------------------------------
(***************************************************************************)
(* How many messages are under way.                                        *)
(***************************************************************************)

\* The calls for a next message can be counted.
LEMMA NextCallsFinite ==
    ASSUME calls \in Seq(Calls)
    PROVE  IsFiniteSet(NextCalls) /\ Cardinality(NextCalls) \in Nat
  <1>1. IsFiniteSet(1..Len(calls))
    BY FS_Interval, LenProperties
  <1>2. NextCalls \in SUBSET (1..Len(calls))
    BY DEF NextCalls
  <1> QED
    BY <1>1, <1>2, FS_Subset, FS_CardinalityType

LEMMA NextCallsGrow ==
    ASSUME calls \in Seq(Calls), NEW c \in Calls, Push(c)
    PROVE  Cardinality(NextCalls') =
               Cardinality(NextCalls) + (IF c.kind = "next" THEN 1 ELSE 0)
  <1>1. NextCalls' = IF c.kind = "next" THEN NextCalls \cup {Len(calls) + 1} ELSE NextCalls
    BY PushCalls DEF NextCalls
  <1>2. Len(calls) + 1 \notin NextCalls
    BY LenProperties DEF NextCalls
  <1>3. Cardinality(NextCalls \cup {Len(calls) + 1}) = Cardinality(NextCalls) + 1
    BY <1>2, NextCallsFinite, FS_AddElement
  <1>4. CASE c.kind = "next"
    BY <1>1, <1>3, <1>4
  <1>5. CASE c.kind # "next"
    BY <1>1, <1>5, NextCallsFinite
  <1> QED
    BY <1>4, <1>5

LEMMA NextCallsShrink ==
    ASSUME calls \in Seq(Calls), calls # <<>>, Pop
    PROVE  Cardinality(NextCalls') =
               Cardinality(NextCalls) - (IF Top.kind = "next" THEN 1 ELSE 0)
  <1>1. NextCalls' = NextCalls \ {Len(calls)}
    BY PopCalls DEF NextCalls
  <1>2. Len(calls) \in NextCalls <=> Top.kind = "next"
    BY PopCalls DEF NextCalls
  <1>3. Cardinality(NextCalls \ {Len(calls)}) =
            IF Len(calls) \in NextCalls THEN Cardinality(NextCalls) - 1
            ELSE Cardinality(NextCalls)
    BY NextCallsFinite, FS_RemoveElement
  <1>4. CASE Top.kind = "next"
    BY <1>1, <1>2, <1>3, <1>4
  <1>5. CASE Top.kind # "next"
    BY <1>1, <1>2, <1>3, <1>5, NextCallsFinite
  <1> QED
    BY <1>4, <1>5

\* A request is among them if its number is not above its run's count.
LEMMA RequestsAre ==
    ASSUME NEW r \in Runs, NEW k
    PROVE  <<r, k>> \in Requests <=> k \in 1..flight[r]
  BY DEF Requests

\* A request is handed over.
LEMMA EmitCounts ==
    ASSUME flight \in [Runs -> Nat], IsFiniteSet(Requests), NEW r \in Runs, Emit(r)
    PROVE  IsFiniteSet(Requests') /\ InFlight' = InFlight + 1
  <1> DEFINE new == <<r, flight[r] + 1>>
  <1>1. /\ flight' \in [Runs -> Nat] /\ flight'[r] = flight[r] + 1
        /\ \A q \in Runs \ {r} : flight'[q] = flight[q]
    BY DEF Emit
  <1>2. 1..(flight[r] + 1) = (1..flight[r]) \cup {flight[r] + 1}
    BY DEF Runs
  <1>3. Requests' = Requests \cup {new}
    BY <1>1, <1>2 DEF Requests, Runs
  <1>4. new \notin Requests
    BY DEF Requests
  <1> HIDE DEF new
  <1> QED
    BY <1>3, <1>4, FS_AddElement, FS_CardinalityType DEF InFlight

\* A request is answered.
LEMMA AnswerCounts ==
    ASSUME flight \in [Runs -> Nat], IsFiniteSet(Requests), NEW r \in Runs, flight[r] > 0,
           flight' = [flight EXCEPT ![r] = @ - 1]
    PROVE  IsFiniteSet(Requests') /\ InFlight' = InFlight - 1
  <1> DEFINE old == <<r, flight[r]>>
  <1>1. /\ flight'[r] = flight[r] - 1
        /\ \A q \in Runs \ {r} : flight'[q] = flight[q]
    OBVIOUS
  <1>2. 1..(flight[r] - 1) = (1..flight[r]) \ {flight[r]}
    OBVIOUS
  <1>3. Requests' = Requests \ {old}
    BY <1>1, <1>2 DEF Requests, Runs
  <1>4. old \in Requests
    BY DEF Requests
  <1> HIDE DEF old
  <1> QED
    BY <1>3, <1>4, FS_RemoveElement, FS_CardinalityType DEF InFlight
-----------------------------------------------------------------------------
(***************************************************************************)
(* Only a cancel leaves a message behind.                                  *)
(***************************************************************************)

\* The timer runs for a form with a pause: when it elapses it stops.
PausedByTimer == timer => form.pause

BoundInv == PausedByTimer /\ IsFiniteSet(Requests) /\ ChainsBounded

\* The numbers that make up Chains.
LEMMA ChainsType ==
    ASSUME TypeOK, IsFiniteSet(Requests)
    PROVE  /\ InFlight \in Nat /\ Len(answers) \in Nat /\ Cardinality(NextCalls) \in Nat
           /\ cancels \in Nat
  BY FS_CardinalityType, NextCallsFinite, LenProperties, CyclicAssumption DEF InFlight, TypeOK

LEMMA ChainsTypeNext ==
    ASSUME TypeOK', IsFiniteSet(Requests')
    PROVE  /\ InFlight' \in Nat /\ Len(answers') \in Nat /\ Cardinality(NextCalls)' \in Nat
           /\ cancels' \in Nat
  <1>1. /\ calls' \in Seq(Calls) /\ answers' \in Seq(Answers) /\ cancels' \in 0..MaxCancels
    BY CyclicAssumption DEF TypeOK
  <1>2. IsFiniteSet(1..Len(calls'))
    BY <1>1, FS_Interval, LenProperties
  <1>3. NextCalls' \in SUBSET (1..Len(calls'))
    BY DEF NextCalls
  <1>4. Cardinality(NextCalls') \in Nat
    BY <1>2, <1>3, FS_Subset, FS_CardinalityType
  <1> QED
    BY <1>1, <1>4, FS_CardinalityType, LenProperties, CyclicAssumption DEF InFlight

\* Taking an answer.
LEMMA NextAnswerCounts ==
    ASSUME answers \in Seq(Answers), NextAnswer
    PROVE  Len(answers') = Len(answers) - 1 /\ Len(answers) \in Nat \ {0}
  BY HeadTailProperties, EmptySeq, LenProperties DEF NextAnswer

\* Nothing is added, or what is added replaces something.
LEMMA ChainsKept ==
    ASSUME TypeInv, BoundInv, TypeInv', IsFiniteSet(Requests'),
           InFlight' + Len(answers') + Cardinality(NextCalls)'
               <= InFlight + Len(answers) + Cardinality(NextCalls),
           timer' => timer, inProgress' = inProgress, cancels' = cancels,
           timer => form'.pause
    PROVE  BoundInv'
  <1>1. /\ InFlight \in Nat /\ Len(answers) \in Nat /\ Cardinality(NextCalls) \in Nat
        /\ InFlight' \in Nat /\ Len(answers') \in Nat /\ Cardinality(NextCalls)' \in Nat
        /\ cancels \in Nat
    BY ChainsType, ChainsTypeNext DEF TypeInv, BoundInv
  <1>2. ChainsBounded'
    BY <1>1 DEF BoundInv, ChainsBounded, Chains
  <1> QED
    BY <1>2 DEF BoundInv, PausedByTimer

\* A run ends, and with it what drove it.
LEMMA ChainsEnd ==
    ASSUME TypeInv, BoundInv, TypeInv', IsFiniteSet(Requests'),
           InFlight' + Len(answers') + Cardinality(NextCalls)' + 1
               <= InFlight + Len(answers) + Cardinality(NextCalls),
           ~timer', ~inProgress', cancels' = cancels
    PROVE  BoundInv'
  <1>1. /\ InFlight \in Nat /\ Len(answers) \in Nat /\ Cardinality(NextCalls) \in Nat
        /\ InFlight' \in Nat /\ Len(answers') \in Nat /\ Cardinality(NextCalls)' \in Nat
        /\ cancels \in Nat
    BY ChainsType, ChainsTypeNext DEF TypeInv, BoundInv
  <1>2. ChainsBounded'
    BY <1>1 DEF BoundInv, ChainsBounded, Chains
  <1> QED
    BY <1>2 DEF BoundInv, PausedByTimer

\* The next message is handed over, or its script called.
LEMMA SendNextCounts ==
    ASSUME TypeInv, IsFiniteSet(Requests), SendNext
    PROVE  /\ IsFiniteSet(Requests')
           /\ InFlight' + Cardinality(NextCalls)' = InFlight + Cardinality(NextCalls) + 1
           /\ timer' = (timer /\ ~form.pause)
  <1>1. /\ run \in Runs /\ calls \in Seq(Calls) /\ flight \in [Runs -> Nat]
        /\ InFlight \in Nat /\ Cardinality(NextCalls) \in Nat
    BY ChainsType, CyclicAssumption DEF TypeInv, TypeOK, Runs
  <1>2. NextCall \in Calls /\ NextCall.kind = "next"
    BY <1>1 DEF NextCall, Calls
  <1>3. CASE Push(NextCall) /\ UNCHANGED flight
    <2>1. Requests' = Requests
      BY <1>3 DEF Requests
    <2>2. Cardinality(NextCalls') = Cardinality(NextCalls) + 1
      BY <1>1, <1>2, <1>3, NextCallsGrow
    <2> QED
      BY <1>1, <2>1, <2>2 DEF SendNext, InFlight
  <1>4. CASE Emit(run) /\ UNCHANGED calls
    <2>1. NextCalls' = NextCalls
      BY <1>4 DEF NextCalls
    <2> QED
      BY <1>1, <1>4, <2>1, EmitCounts DEF SendNext
  <1> QED
    BY <1>3, <1>4 DEF SendNext

\* A run starts, with one message under way.
LEMMA StartCounts ==
    ASSUME TypeInv, BoundInv, TypeInv', TimerOnlyInRun, ~inProgress,
           NEW f, StartRun(f), Cardinality(NextCalls)' = Cardinality(NextCalls),
           answers' = answers, cancels' = cancels
    PROVE  BoundInv'
  <1>1. run + 1 \in Runs /\ flight \in [Runs -> Nat]
    BY CyclicAssumption DEF TypeInv, TypeOK, Runs, StartRun
  <1>2. IsFiniteSet(Requests') /\ InFlight' = InFlight + 1
    BY <1>1, EmitCounts DEF StartRun, BoundInv
  <1>3. ~timer /\ ~timer' /\ inProgress'
    BY DEF TimerOnlyInRun, StartRun
  <1>4. /\ InFlight \in Nat /\ Len(answers) \in Nat /\ Cardinality(NextCalls) \in Nat
        /\ cancels \in Nat
    BY ChainsType DEF TypeInv, BoundInv
  <1>5. ChainsBounded'
    BY <1>2, <1>3, <1>4 DEF BoundInv, ChainsBounded, Chains
  <1> QED
    BY <1>2, <1>3, <1>5 DEF BoundInv, PausedByTimer

LEMMA BoundInit == Init => BoundInv
  <1> SUFFICES ASSUME Init PROVE BoundInv
    OBVIOUS
  <1>1. Requests = {}
    BY DEF Init, Requests
  <1>2. NextCalls = {} /\ Len(answers) = 0
    BY EmptySeq DEF Init, NextCalls
  <1> QED
    BY <1>1, <1>2, FS_EmptySet
    DEF Init, BoundInv, PausedByTimer, ChainsBounded, Chains, InFlight

LEMMA BoundStep ==
    ASSUME TypeInv, TimerOnlyInRun, BoundInv, [Next]_vars
    PROVE  BoundInv'
  <1> USE CyclicAssumption
  <1>0. /\ TypeInv' /\ calls \in Seq(Calls) /\ answers \in Seq(Answers)
        /\ flight \in [Runs -> Nat] /\ run \in Runs /\ IsFiniteSet(Requests)
    BY TypeStep DEF TypeInv, TypeOK, Runs, BoundInv
  <1>n. /\ InFlight \in Nat /\ Len(answers) \in Nat /\ Cardinality(NextCalls) \in Nat
        /\ cancels \in Nat
    BY ChainsType, <1>0 DEF TypeInv
  <1>f. ASSUME UNCHANGED flight PROVE IsFiniteSet(Requests') /\ InFlight' = InFlight
    BY <1>0, <1>f DEF InFlight, Requests
  <1>c. ASSUME UNCHANGED calls PROVE Cardinality(NextCalls)' = Cardinality(NextCalls)
    BY <1>c DEF NextCalls
  <1>p. PausedByTimer
    BY DEF BoundInv
  <1>k. ASSUME UNCHANGED <<inProgress, form, timer, flight, answers, cancels>>,
               Cardinality(NextCalls)' = Cardinality(NextCalls)
        PROVE  BoundInv'
    BY <1>0, <1>n, <1>f, <1>k, <1>p, ChainsKept DEF PausedByTimer
  <1>1. CASE PressCancel
    <2>1. /\ cancels' = cancels + 1 /\ UNCHANGED <<flight, answers, calls>>
          /\ inProgress /\ ~inProgress' /\ ~timer'
      BY <1>1 DEF PressCancel, StopRun
    <2>2. ChainsBounded'
      BY <2>1, <1>n, <1>f, <1>c DEF ChainsBounded, Chains, BoundInv
    <2> QED
      BY <2>1, <2>2, <1>f DEF BoundInv, PausedByTimer
  <1>2. ASSUME NEW f \in Forms, PressSend(f) PROVE BoundInv'
    <2>1. ~inProgress /\ UNCHANGED <<answers, cancels>>
      BY <1>2 DEF PressSend
    <2>2. CASE f.script
      <3>1. Push(StartCall(f)) /\ UNCHANGED <<inProgress, form, timer, flight>>
        BY <1>2, <2>2 DEF PressSend, sendWindow
      <3>2. StartCall(f) \in Calls /\ StartCall(f).kind # "next"
        BY DEF StartCall, Calls
      <3>3. Cardinality(NextCalls') = Cardinality(NextCalls)
        BY <1>0, <1>n, <3>1, <3>2, NextCallsGrow
      <3> QED
        BY <2>1, <3>1, <3>3, <1>k
    <2>3. CASE ~f.script
      <3>1. StartRun(f) /\ UNCHANGED calls
        BY <1>2, <2>3 DEF PressSend
      <3> QED
        BY <2>1, <3>1, <1>0, <1>c, StartCounts
    <2> QED
      BY <2>2, <2>3
  <1>3. CASE CloseEvent
    <2>1. Push(CloseCall) /\ UNCHANGED <<inProgress, form, timer, flight, answers, cancels>>
      BY <1>3 DEF CloseEvent, sendWindow, user
    <2>2. CloseCall \in Calls /\ CloseCall.kind # "next"
      BY DEF CloseCall, Calls
    <2>3. Cardinality(NextCalls') = Cardinality(NextCalls)
      BY <1>0, <1>n, <2>1, <2>2, NextCallsGrow
    <2> QED
      BY <2>1, <2>3, <1>k
  <1>4. CASE CloseReturns
    <2>1. /\ calls # <<>> /\ Pop /\ Top.kind # "next"
          /\ UNCHANGED <<inProgress, form, timer, flight, answers, cancels>>
      BY <1>4 DEF CloseReturns, CloseCall, sendWindow, user
    <2>2. Cardinality(NextCalls') = Cardinality(NextCalls)
      BY <1>0, <1>n, <2>1, NextCallsShrink
    <2> QED
      BY <2>1, <2>2, <1>k
  <1>5. CASE StartScriptReturns
    <2>1. /\ calls # <<>> /\ Pop /\ Top.kind # "next" /\ UNCHANGED <<answers, cancels>>
      BY <1>5 DEF StartScriptReturns, user
    <2>2. Cardinality(NextCalls') = Cardinality(NextCalls)
      BY <1>0, <1>n, <2>1, NextCallsShrink
    <2>3. CASE UNCHANGED <<sendWindow, flight, run>>
      BY <2>1, <2>2, <2>3, <1>k DEF sendWindow
    <2>4. CASE ~inProgress /\ StartRun(Top.form)
      BY <2>1, <2>2, <2>4, <1>0, StartCounts
    <2> QED
      BY <1>5, <2>3, <2>4 DEF StartScriptReturns
  <1>6. CASE NextScriptReturns
    <2>1. /\ calls # <<>> /\ Pop /\ Top.kind = "next" /\ UNCHANGED <<answers, cancels>>
      BY <1>6 DEF NextScriptReturns, user
    <2>2. Cardinality(NextCalls') = Cardinality(NextCalls) - 1
      BY <1>0, <2>1, NextCallsShrink
    <2>3. CASE Emit(Top.run) /\ UNCHANGED sendWindow
      <3>1. Top.run \in Runs
        BY <2>1, <1>0, PopCalls DEF Calls, CloseCall
      <3>2. IsFiniteSet(Requests') /\ InFlight' = InFlight + 1
        BY <2>3, <3>1, <1>0, EmitCounts
      <3>3. UNCHANGED <<inProgress, form, timer>>
        BY <2>3 DEF sendWindow
      <3>4. InFlight' + Len(answers') + Cardinality(NextCalls)'
                <= InFlight + Len(answers) + Cardinality(NextCalls)
        BY <2>1, <2>2, <3>2, <1>n
      <3> QED
        BY <2>1, <3>2, <3>3, <3>4, <1>0, <1>p, ChainsKept DEF PausedByTimer
    <2>4. CASE StopRun("stopped") /\ UNCHANGED flight
      <3>1. ~timer' /\ ~inProgress'
        BY <2>4 DEF StopRun
      <3>2. InFlight' + Len(answers') + Cardinality(NextCalls)' + 1
                <= InFlight + Len(answers) + Cardinality(NextCalls)
        BY <2>1, <2>2, <2>4, <1>f, <1>n
      <3> QED
        BY <2>1, <2>4, <3>1, <3>2, <1>0, <1>f, ChainsEnd
    <2> QED
      BY <1>6, <2>3, <2>4 DEF NextScriptReturns
  <1>7. CASE TimerElapses
    <2>1. timer /\ SendNext /\ UNCHANGED <<inProgress, form, answers, cancels>>
      BY <1>7 DEF TimerElapses, user
    <2>2. /\ IsFiniteSet(Requests') /\ ~timer'
          /\ InFlight' + Cardinality(NextCalls)' = InFlight + Cardinality(NextCalls) + 1
      BY <2>1, <1>0, <1>p, SendNextCounts DEF PausedByTimer
    <2>3. InFlight' \in Nat /\ Cardinality(NextCalls)' \in Nat
      BY <2>2, <1>0, ChainsTypeNext DEF TypeInv
    <2>4. Chains' = Chains
      BY <2>1, <2>2, <2>3, <1>n DEF Chains
    <2> QED
      BY <2>1, <2>2, <2>4 DEF BoundInv, ChainsBounded, PausedByTimer
  <1>8. CASE AnswerIgnored
    <2>1. NextAnswer /\ UNCHANGED <<inProgress, form, timer, calls, flight, cancels>>
      BY <1>8 DEF AnswerIgnored, sendWindow, user
    <2>2. Len(answers') = Len(answers) - 1
      BY <2>1, <1>0, NextAnswerCounts
    <2> QED
      BY <2>1, <2>2, <1>0, <1>n, <1>f, <1>c, <1>p, ChainsKept DEF PausedByTimer
  <1>9. CASE AnswerLast \/ AnswerWhileClosing \/ AnswerFailed
    <2>1. /\ NextAnswer /\ ~timer' /\ ~inProgress' /\ UNCHANGED <<calls, flight, cancels>>
      BY <1>9 DEF AnswerLast, AnswerWhileClosing, AnswerFailed, SendFailed, StopRun, user
    <2>2. Len(answers') = Len(answers) - 1
      BY <2>1, <1>0, NextAnswerCounts
    <2> QED
      BY <2>1, <2>2, <1>0, <1>n, <1>f, <1>c, ChainsEnd
  <1>10. CASE AnswerNext
    <2>1. NextAnswer /\ inProgress /\ UNCHANGED <<inProgress, form, cancels>>
      BY <1>10 DEF AnswerNext, user
    <2>2. Len(answers') = Len(answers) - 1 /\ Len(answers) \in Nat \ {0}
      BY <2>1, <1>0, NextAnswerCounts
    <2>3. CASE form.pause /\ timer' = TRUE /\ UNCHANGED <<calls, flight>>
      <3>1. ChainsBounded'
        BY <2>1, <2>2, <2>3, <1>f, <1>c, <1>n DEF BoundInv, ChainsBounded, Chains
      <3> QED
        BY <2>1, <2>3, <3>1, <1>f DEF BoundInv, PausedByTimer
    <2>4. CASE SendNext
      <3>1. /\ IsFiniteSet(Requests') /\ (timer' => timer)
            /\ InFlight' + Cardinality(NextCalls)' = InFlight + Cardinality(NextCalls) + 1
        BY <2>4, <1>0, SendNextCounts
      <3>2. InFlight' \in Nat /\ Cardinality(NextCalls)' \in Nat
        BY <3>1, <1>0, ChainsTypeNext DEF TypeInv
      <3>3. InFlight' + Len(answers') + Cardinality(NextCalls)'
                <= InFlight + Len(answers) + Cardinality(NextCalls)
        BY <2>2, <3>1, <3>2, <1>n
      <3> QED
        BY <2>1, <3>1, <3>3, <1>0, <1>p, ChainsKept DEF PausedByTimer
    <2> QED
      BY <1>10, <2>3, <2>4 DEF AnswerNext
  <1>11. ASSUME NEW r \in Runs, Answer(r) PROVE BoundInv'
    <2>1. PICK ok \in BOOLEAN : answers' = Append(answers, [run |-> r, ok |-> ok])
      BY <1>11 DEF Answer
    <2>2. Len(answers') = Len(answers) + 1
      BY <2>1, <1>0, AppendProperties DEF Answers
    <2>3. IsFiniteSet(Requests') /\ InFlight' = InFlight - 1
      BY <1>11, <1>0, AnswerCounts DEF Answer
    <2>4. UNCHANGED <<inProgress, form, timer, calls, cancels>>
      BY <1>11 DEF Answer, sendWindow, user
    <2> QED
      BY <2>2, <2>3, <2>4, <1>0, <1>n, <1>c, <1>p, ChainsKept DEF PausedByTimer
  <1>12. CASE ConnectionChanges
    BY <1>12, <1>c, <1>k DEF ConnectionChanges, sendWindow, user
  <1>13. CASE UNCHANGED vars
    BY <1>13, <1>c, <1>k DEF vars
  <1> QED
    BY <1>1, <1>2, <1>3, <1>4, <1>5, <1>6, <1>7, <1>8, <1>9, <1>10, <1>11, <1>12, <1>13
    DEF Next, HandleAnswer

(***************************************************************************)
(* The messages under way that nobody waits for are at most as many as     *)
(* runs were cancelled: no interleaving of scripts, timers and answers     *)
(* makes a run send twice at a time.                                       *)
(***************************************************************************)
THEOREM SendsBounded == SafeSpec => []ChainsBounded
  <1>1. Init => TypeInv /\ TimerOnlyInRun /\ BoundInv
    BY TypeInit, BoundInit DEF Init, TimerOnlyInRun
  <1>2. TypeInv /\ TimerOnlyInRun /\ BoundInv /\ [Next]_vars
            => (TypeInv /\ TimerOnlyInRun /\ BoundInv)'
    BY TypeStep, TimerStep, BoundStep DEF TypeInv
  <1>3. BoundInv => ChainsBounded
    BY DEF BoundInv
  <1> QED
    BY <1>1, <1>2, <1>3, PTL DEF SafeSpec
-----------------------------------------------------------------------------
(***************************************************************************)
(* A run sends what RepeatSend promises.                                   *)
(***************************************************************************)

\* What is left in RepeatSend: messages that were not handed over yet.
Left == IF inProgress THEN form.repetitions + 1 - count - (IF Waiting THEN 1 ELSE 0) ELSE 0

SameRun == UNCHANGED <<inProgress, Left, Waiting, result>>

\* The steps of RepeatSend, said of the send window.
SentAgain == Waiting' = TRUE /\ Left' = Left - 1
SentLater == Waiting' = FALSE /\ Left' = Left

LEMMA RepeatSteps ==
    /\ SameRun => UNCHANGED Repeat!vars
    /\ /\ ~inProgress /\ ~Waiting /\ inProgress' = TRUE /\ Waiting' = TRUE
       /\ result' = "none" /\ Left' \in 0..MaxRepetitions
       => Repeat!Start
    /\ /\ inProgress /\ Waiting /\ Left > 0 /\ (SentLater \/ SentAgain)
       /\ inProgress' = inProgress /\ result' = result
       => Repeat!Continue
    /\ /\ inProgress /\ ~Waiting /\ Left > 0 /\ SentAgain
       /\ inProgress' = inProgress /\ result' = result
       => Repeat!SendAgain
    /\ /\ inProgress /\ Waiting /\ Left = 0 /\ Left' = 0
       /\ inProgress' = FALSE /\ Waiting' = FALSE /\ result' = "complete"
       => Repeat!Complete
    /\ /\ inProgress /\ inProgress' = FALSE /\ Waiting' = FALSE /\ Left' = 0
       /\ result' = "stopped"
       => Repeat!Stop
  <1>1. SameRun => UNCHANGED Repeat!vars
    BY DEF Repeat!vars, Left, SameRun
  <1>2. /\ ~inProgress /\ ~Waiting /\ inProgress' = TRUE /\ Waiting' = TRUE
        /\ result' = "none" /\ Left' \in 0..MaxRepetitions
        => Repeat!Start
    BY DEF Repeat!Start, Left
  <1>3. /\ inProgress /\ Waiting /\ Left > 0 /\ (SentLater \/ SentAgain)
        /\ inProgress' = inProgress /\ result' = result
        => Repeat!Continue
    BY DEF Repeat!Continue, Left, SentLater, SentAgain
  <1>4. /\ inProgress /\ ~Waiting /\ Left > 0 /\ SentAgain
        /\ inProgress' = inProgress /\ result' = result
        => Repeat!SendAgain
    BY DEF Repeat!SendAgain, Left, SentAgain
  <1>5. /\ inProgress /\ Waiting /\ Left = 0 /\ Left' = 0
        /\ inProgress' = FALSE /\ Waiting' = FALSE /\ result' = "complete"
        => Repeat!Complete
    BY DEF Repeat!Complete, Left
  <1>6. /\ inProgress /\ inProgress' = FALSE /\ Waiting' = FALSE /\ Left' = 0
        /\ result' = "stopped"
        => Repeat!Stop
    BY DEF Repeat!Stop, Left
  <1> QED
    BY <1>1, <1>2, <1>3, <1>4, <1>5, <1>6

\* Without a cancel, one thing at most drives a run, and nothing is under way
\* without one.
LEMMA OneDrives ==
    ASSUME TypeInv, BoundInv, cancels = 0
    PROVE  /\ InFlight + Len(answers) + Cardinality(NextCalls) + (IF timer THEN 1 ELSE 0)
                  <= IF inProgress THEN 1 ELSE 0
           /\ Waiting <=> InFlight + Len(answers) > 0
           /\ InFlight \in Nat /\ Len(answers) \in Nat /\ Cardinality(NextCalls) \in Nat
  <1>1. /\ InFlight \in Nat /\ Len(answers) \in Nat /\ Cardinality(NextCalls) \in Nat
    BY ChainsType DEF TypeInv, BoundInv
  <1> QED
    BY <1>1 DEF BoundInv, ChainsBounded, Chains, Waiting

LEMMA RepeatStep ==
    ASSUME TypeInv, TimerOnlyInRun, BoundInv, TypeInv', BoundInv', cancels' = 0, [Next]_vars
    PROVE  [Repeat!Next]_(Repeat!vars)
  <1> USE CyclicAssumption
  <1> SUFFICES Repeat!Next \/ SameRun
    BY RepeatSteps
  <1>0. /\ calls \in Seq(Calls) /\ answers \in Seq(Answers) /\ IsFiniteSet(Requests)
        /\ flight \in [Runs -> Nat] /\ run \in Runs /\ count \in Nat
        /\ form.repetitions \in 0..MaxRepetitions /\ inProgress \in BOOLEAN
        /\ inProgress => count <= form.repetitions
        /\ TypeOK
    BY DEF TypeInv, TypeOK, Runs, BoundInv, Forms, CountInRange
  <1>1. CASE PressCancel
    <2>1. cancels' = cancels + 1 /\ cancels \in Nat
      BY <1>1, <1>0 DEF PressCancel, TypeOK
    <2> QED
      BY <2>1
  <1>2. CASE ~PressCancel
    <2>1. cancels = 0
      BY <1>2 DEF Next, PressSend, CloseEvent, CloseReturns, StartScriptReturns,
                NextScriptReturns, TimerElapses, HandleAnswer, AnswerIgnored, AnswerLast,
                AnswerNext, AnswerWhileClosing, AnswerFailed, Answer, ConnectionChanges,
                vars, user
    <2>2. /\ InFlight + Len(answers) + Cardinality(NextCalls) + (IF timer THEN 1 ELSE 0)
                 <= IF inProgress THEN 1 ELSE 0
          /\ Waiting <=> InFlight + Len(answers) > 0
          /\ InFlight \in Nat /\ Len(answers) \in Nat /\ Cardinality(NextCalls) \in Nat
      BY <2>1, OneDrives
    <2>3. /\ InFlight' \in Nat /\ Len(answers') \in Nat /\ Cardinality(NextCalls)' \in Nat
          /\ Waiting' <=> InFlight' + Len(answers') > 0
      BY ChainsTypeNext DEF TypeInv, BoundInv, Waiting
    <2>f. ASSUME UNCHANGED flight PROVE InFlight' = InFlight
      BY <2>f DEF InFlight, Requests
    <2>k. ASSUME UNCHANGED <<inProgress, form, count, result, flight, answers>> PROVE SameRun
      BY <2>k, <2>f DEF SameRun, Left, Waiting
    <2>r. ASSUME NEW f \in Forms, StartRun(f), ~inProgress, answers' = answers
          PROVE  Repeat!Next
      <3>1. run + 1 \in Runs
        BY <2>r DEF StartRun, TypeInv, TypeOK, Runs
      <3>2. InFlight' = InFlight + 1
        BY <2>r, <3>1, <1>0, EmitCounts DEF StartRun
      <3>3. ~Waiting /\ Waiting'
        BY <2>r, <3>2, <2>2, <2>3
      <3>4. /\ inProgress' = TRUE /\ result' = "none" /\ form' = f /\ count' = 0
            /\ f.repetitions \in 0..MaxRepetitions
        BY <2>r DEF StartRun, Forms
      <3>5. Left' \in 0..MaxRepetitions
        BY <3>3, <3>4 DEF Left
      <3> QED
        BY <2>r, <3>3, <3>4, <3>5, RepeatSteps DEF Repeat!Next, Waiting
    <2>4. ASSUME NEW f \in Forms, PressSend(f) PROVE Repeat!Next \/ SameRun
      <3>1. CASE f.script
        BY <2>4, <3>1, <2>k DEF PressSend, sendWindow
      <3>2. CASE ~f.script
        BY <2>4, <3>2, <2>r DEF PressSend
      <3> QED
        BY <3>1, <3>2
    <2>5. CASE CloseEvent \/ CloseReturns \/ ConnectionChanges
      BY <2>5, <2>k DEF CloseEvent, CloseReturns, ConnectionChanges, sendWindow
    <2>6. CASE StartScriptReturns
      <3>1. calls # <<>> /\ Pop /\ Top.kind = "start" /\ UNCHANGED answers
        BY <2>6 DEF StartScriptReturns
      <3>2. Top.form \in Forms
        BY <3>1, <1>0, PopCalls DEF Calls, CloseCall
      <3>3. CASE UNCHANGED <<sendWindow, flight, run>>
        BY <3>1, <3>3, <2>k DEF sendWindow
      <3>4. CASE ~inProgress /\ StartRun(Top.form)
        BY <3>1, <3>2, <3>4, <2>r
      <3> QED
        BY <2>6, <3>3, <3>4 DEF StartScriptReturns
    <2>7. CASE NextScriptReturns
      <3>1. /\ calls # <<>> /\ Pop /\ Top.kind = "next" /\ UNCHANGED answers
        BY <2>7 DEF NextScriptReturns
      <3>2. Cardinality(NextCalls') = Cardinality(NextCalls) - 1
        BY <1>0, <3>1, NextCallsShrink
      <3>3. inProgress /\ ~Waiting /\ InFlight = 0 /\ Len(answers) = 0
        BY <3>2, <2>2, <2>3
      <3>4. CASE Emit(Top.run) /\ UNCHANGED sendWindow
        <4>1. Top.run \in Runs
          BY <3>1, <1>0, PopCalls DEF Calls, CloseCall
        <4>2. InFlight' = InFlight + 1
          BY <3>4, <4>1, <1>0, EmitCounts
        <4>3. Waiting' = TRUE
          BY <4>2, <3>1, <2>2, <2>3 DEF Waiting
        <4>4. UNCHANGED <<inProgress, form, count, result>>
          BY <3>4 DEF sendWindow
        <4>5. Left > 0 /\ Left' = Left - 1
          BY <4>3, <4>4, <3>3, <1>0 DEF Left
        <4> QED
          BY <4>3, <4>4, <4>5, <3>3, RepeatSteps DEF Repeat!Next, SentAgain
      <3>5. CASE StopRun("stopped") /\ UNCHANGED flight
        <4>1. inProgress' = FALSE /\ result' = "stopped"
          BY <3>5, <3>3 DEF StopRun
        <4>2. Waiting' = FALSE
          BY <3>1, <3>3, <3>5, <2>f, <2>3 DEF Waiting
        <4> QED
          BY <4>1, <4>2, <3>3, RepeatSteps DEF Repeat!Next, Left
      <3> QED
        BY <2>7, <3>4, <3>5 DEF NextScriptReturns
    <2>8. ASSUME SendNext, UNCHANGED <<inProgress, form, result>>
          PROVE  \/ ~form.script /\ InFlight' = InFlight + 1
                 \/ form.script /\ InFlight' = InFlight
      BY <2>8, <2>f, <1>0, EmitCounts DEF SendNext
    <2>9. CASE TimerElapses
      <3>1. timer /\ SendNext /\ UNCHANGED <<inProgress, form, count, result, answers>>
        BY <2>9 DEF TimerElapses
      <3>2. inProgress /\ ~Waiting
        BY <3>1, <2>2 DEF TimerOnlyInRun
      <3>3. CASE form.script /\ InFlight' = InFlight
        <4>1. Waiting' = Waiting
          BY <3>1, <3>3 DEF Waiting
        <4> QED
          BY <3>1, <4>1 DEF SameRun, Left
      <3>4. CASE InFlight' = InFlight + 1
        <4>1. Waiting' = TRUE
          BY <3>1, <3>4, <2>2, <2>3 DEF Waiting
        <4>2. Left > 0 /\ Left' = Left - 1
          BY <3>1, <3>2, <4>1, <1>0 DEF Left
        <4> QED
          BY <3>1, <3>2, <4>1, <4>2, RepeatSteps DEF Repeat!Next, SentAgain
      <3> QED
        BY <3>1, <3>3, <3>4, <2>8
    <2>10. ASSUME NextAnswer
           PROVE  /\ Len(answers) = 1 /\ Len(answers') = 0 /\ InFlight = 0
                  /\ inProgress /\ Waiting /\ ~timer
      BY <2>10, <1>0, <2>2, NextAnswerCounts
    <2>11. CASE AnswerIgnored
      BY <2>11, <2>10 DEF AnswerIgnored
    <2>12. CASE AnswerLast
      <3>1. /\ NextAnswer /\ count + 1 > form.repetitions /\ UNCHANGED flight
            /\ inProgress' = FALSE /\ result' = "complete"
        BY <2>12, <2>10 DEF AnswerLast, LastOne, StopRun
      <3>2. Waiting' = FALSE
        BY <3>1, <2>10, <2>f, <2>3 DEF Waiting
      <3>3. Left = 0 /\ Left' = 0
        BY <3>1, <2>10, <1>0 DEF Left
      <3> QED
        BY <3>1, <3>2, <3>3, <2>10, RepeatSteps DEF Repeat!Next
    <2>13. CASE AnswerNext
      <3>1. /\ NextAnswer /\ count + 1 <= form.repetitions /\ count' = count + 1
            /\ UNCHANGED <<inProgress, form, result>>
        BY <2>13, <1>0 DEF AnswerNext, LastOne, Counted
      <3>2. Left = form.repetitions - count /\ Left > 0
        BY <3>1, <2>10, <1>0 DEF Left
      <3>3. InFlight' = 0 \/ InFlight' = 1
        <4>1. CASE form.pause
          BY <2>13, <3>1, <4>1, <2>10, <2>f DEF AnswerNext
        <4>2. CASE ~form.pause
          BY <2>13, <3>1, <4>2, <2>8, <2>10 DEF AnswerNext
        <4> QED
          BY <4>1, <4>2
      <3>4. SentLater \/ SentAgain
        <4>1. CASE InFlight' = 0
          <5>1. Waiting' = FALSE
            BY <3>1, <4>1, <2>10 DEF Waiting
          <5> QED
            BY <5>1, <3>1, <3>2, <2>10, <1>0 DEF SentLater, Left
        <4>2. CASE InFlight' = 1
          <5>1. Waiting' = TRUE
            BY <3>1, <4>2, <2>10 DEF Waiting
          <5> QED
            BY <5>1, <3>1, <3>2, <2>10, <1>0 DEF SentAgain, Left
        <4> QED
          BY <3>3, <4>1, <4>2
      <3> QED
        BY <3>1, <3>2, <3>4, <2>10, RepeatSteps DEF Repeat!Next
    <2>14. CASE AnswerWhileClosing \/ AnswerFailed
      <3>1. /\ NextAnswer /\ UNCHANGED flight
            /\ inProgress' = FALSE /\ result' = "stopped"
        BY <2>14, <2>10 DEF AnswerWhileClosing, AnswerFailed, SendFailed, StopRun
      <3>2. Waiting' = FALSE
        BY <3>1, <2>10, <2>f, <2>3 DEF Waiting
      <3> QED
        BY <3>1, <3>2, <2>10, RepeatSteps DEF Repeat!Next, Left
    <2>15. ASSUME NEW r \in Runs, Answer(r) PROVE SameRun
      <3>1. PICK ok \in BOOLEAN : answers' = Append(answers, [run |-> r, ok |-> ok])
        BY <2>15 DEF Answer
      <3>2. Len(answers') = Len(answers) + 1
        BY <3>1, <1>0, AppendProperties DEF Answers
      <3>3. InFlight' = InFlight - 1
        BY <2>15, <1>0, AnswerCounts DEF Answer
      <3>4. UNCHANGED <<inProgress, form, count, result>>
        BY <2>15 DEF Answer, sendWindow
      <3>5. Waiting' = Waiting
        BY <3>2, <3>3, <2>2, <2>3 DEF Waiting
      <3> QED
        BY <3>4, <3>5 DEF SameRun, Left
    <2>16. CASE UNCHANGED vars
      BY <2>16, <2>k DEF vars
    <2> QED
      BY <1>2, <2>4, <2>5, <2>6, <2>7, <2>9, <2>11, <2>12, <2>13, <2>14, <2>15, <2>16
      DEF Next, HandleAnswer
  <1> QED
    BY <1>1, <1>2

(***************************************************************************)
(* Until a cancel, the send window implements RepeatSend: a message is     *)
(* handed over only when the one before was sent, and a run that is        *)
(* complete sent its repetition count plus one messages.                   *)
(***************************************************************************)
THEOREM ImplementsRepeat == SafeSpec => SendsInLockstep
  <1>1. Init => TypeInv /\ TimerOnlyInRun /\ BoundInv
    BY TypeInit, BoundInit DEF Init, TimerOnlyInRun
  <1>2. Init => Repeat!Init
    <2> SUFFICES ASSUME Init PROVE Repeat!Init
      OBVIOUS
    <2>1. InFlight = 0
      <3>1. Requests = {}
        BY DEF Init, Requests
      <3> QED
        BY <3>1, FS_EmptySet DEF InFlight
    <2>2. Len(answers) = 0
      BY EmptySeq DEF Init
    <2> QED
      BY <2>1, <2>2 DEF Init, Repeat!Init, Waiting
  <1>3. TypeInv /\ TimerOnlyInRun /\ BoundInv /\ [Next]_vars
            => (TypeInv /\ TimerOnlyInRun /\ BoundInv)'
    BY TypeStep, TimerStep, BoundStep DEF TypeInv
  <1>4. TypeInv /\ TimerOnlyInRun /\ BoundInv /\ TypeInv' /\ BoundInv' /\ [Next]_vars
            => [cancels' = 0 => Repeat!Next]_(Repeat!vars)
    <2>1. CASE cancels' = 0
      BY <2>1, RepeatStep
    <2>2. CASE cancels' # 0
      BY <2>2
    <2> QED
      BY <2>1, <2>2
  <1> QED
    BY <1>1, <1>2, <1>3, <1>4, PTL DEF SafeSpec, SendsInLockstep
-----------------------------------------------------------------------------
(***************************************************************************)
(* Closing the program.                                                    *)
(***************************************************************************)

\* The loop of programIsClosing is a call while it waits, and only scripts for next
\* messages are called inside it: a script for a first message is not called then.
CloseAt(i) ==
    /\ calls[i].kind = "close"
    /\ \A j \in 1..Len(calls) :
        (j < i => calls[j].kind # "close") /\ (j > i => calls[j].kind = "next")

CloseInv ==
    /\ closing # "waiting" => \A i \in 1..Len(calls) : calls[i].kind # "close"
    /\ closing = "waiting" => \E i \in 1..Len(calls) : CloseAt(i)

LEMMA CloseKept ==
    ASSUME CloseInv, UNCHANGED <<calls, closing>>
    PROVE  CloseInv'
  BY DEF CloseInv, CloseAt

\* A script is called, ...
LEMMA ClosePush ==
    ASSUME CloseInv, calls \in Seq(Calls), NEW c \in Calls, Push(c), UNCHANGED closing,
           c.kind = "next" \/ (c.kind = "start" /\ closing # "waiting")
    PROVE  CloseInv'
  <1>1. /\ Len(calls) \in Nat /\ Len(calls') = Len(calls) + 1 /\ calls'[Len(calls) + 1] = c
        /\ \A i \in 1..Len(calls) : calls'[i] = calls[i]
    BY PushCalls
  <1>2. \A i \in 1..Len(calls') : i \in 1..Len(calls) \/ i = Len(calls) + 1
    BY <1>1
  <1>3. CASE closing # "waiting"
    BY <1>1, <1>2, <1>3 DEF CloseInv
  <1>4. CASE closing = "waiting"
    <2>1. PICK i \in 1..Len(calls) : CloseAt(i)
      BY <1>4 DEF CloseInv
    <2>2. i \in 1..Len(calls') /\ ~(Len(calls) + 1 < i)
      BY <1>1
    <2>3. CloseAt(i)'
      BY <1>1, <1>2, <1>4, <2>1, <2>2 DEF CloseAt
    <2> QED
      BY <1>4, <2>2, <2>3 DEF CloseInv
  <1> QED
    BY <1>3, <1>4

\* ... and returns.
LEMMA ClosePop ==
    ASSUME CloseInv, calls \in Seq(Calls), calls # <<>>, Pop, UNCHANGED closing,
           Top.kind # "close"
    PROVE  CloseInv'
  <1>1. /\ Len(calls) \in Nat \ {0} /\ Len(calls') = Len(calls) - 1
        /\ \A i \in 1..Len(calls') : calls'[i] = calls[i]
        /\ Top = calls[Len(calls)]
    BY PopCalls
  <1>2. \A i \in 1..Len(calls') : i \in 1..Len(calls)
    BY <1>1
  <1>3. CASE closing # "waiting"
    BY <1>1, <1>2, <1>3 DEF CloseInv
  <1>4. CASE closing = "waiting"
    <2>1. PICK i \in 1..Len(calls) : CloseAt(i)
      BY <1>4 DEF CloseInv
    <2>2. i # Len(calls)
      BY <1>1, <2>1 DEF CloseAt
    <2>3. i \in 1..Len(calls')
      BY <1>1, <2>2
    <2>4. CloseAt(i)'
      BY <1>1, <1>2, <2>1, <2>3 DEF CloseAt
    <2> QED
      BY <1>4, <2>3, <2>4 DEF CloseInv
  <1> QED
    BY <1>3, <1>4

LEMMA CloseStep == TypeOK /\ CloseInv /\ [Next]_vars => CloseInv'
  <1> SUFFICES ASSUME TypeOK, CloseInv, [Next]_vars PROVE CloseInv'
    OBVIOUS
  <1>0. calls \in Seq(Calls) /\ run \in Runs
    BY CyclicAssumption DEF TypeOK, Runs
  <1>n. NextCall \in Calls /\ NextCall.kind = "next"
    BY <1>0 DEF NextCall, Calls
  <1>1. CASE PressCancel
    BY <1>1, CloseKept DEF PressCancel
  <1>2. ASSUME NEW f \in Forms, PressSend(f) PROVE CloseInv'
    <2>1. StartCall(f) \in Calls /\ StartCall(f).kind = "start"
      BY DEF StartCall, Calls
    <2>2. closing = "no" /\ closing' = closing /\ (Push(StartCall(f)) \/ UNCHANGED calls)
      BY <1>2 DEF PressSend
    <2> QED
      BY <1>0, <2>1, <2>2, ClosePush, CloseKept
  <1>3. CASE CloseEvent
    <2>1. closing = "no" /\ closing' = "waiting" /\ Push(CloseCall)
      BY <1>3 DEF CloseEvent
    <2>2. CloseCall \in Calls /\ CloseCall.kind = "close"
      BY DEF CloseCall, Calls
    <2>3. /\ Len(calls) \in Nat /\ Len(calls') = Len(calls) + 1
          /\ calls'[Len(calls) + 1] = CloseCall
          /\ \A i \in 1..Len(calls) : calls'[i] = calls[i]
      BY <1>0, <2>1, <2>2, PushCalls
    <2>4. \A i \in 1..Len(calls') : i \in 1..Len(calls) \/ i = Len(calls) + 1
      BY <2>3
    <2>5. \A i \in 1..Len(calls) : calls[i].kind # "close"
      BY <2>1 DEF CloseInv
    <2>6. Len(calls) + 1 \in 1..Len(calls')
      BY <2>3
    <2>7. \A j \in 1..Len(calls') : ~(j > Len(calls) + 1)
      BY <2>3
    <2>8. \E i \in 1..Len(calls') : CloseAt(i)'
      BY <2>2, <2>3, <2>4, <2>5, <2>6, <2>7 DEF CloseAt
    <2> QED
      BY <2>1, <2>8 DEF CloseInv
  <1>4. CASE CloseReturns
    <2>1. calls # <<>> /\ Top = CloseCall /\ Pop /\ closing' = "done"
      BY <1>4 DEF CloseReturns
    <2>2. /\ Len(calls) \in Nat \ {0} /\ Len(calls') = Len(calls) - 1
          /\ \A i \in 1..Len(calls') : calls'[i] = calls[i]
          /\ calls[Len(calls)].kind = "close"
      BY <1>0, <2>1, PopCalls DEF CloseCall
    <2>3. closing = "waiting"
      BY <2>2 DEF CloseInv
    <2>4. PICK i \in 1..Len(calls) : CloseAt(i)
      BY <2>3 DEF CloseInv
    <2>5. i = Len(calls)
      BY <2>2, <2>4 DEF CloseAt
    <2>6. \A j \in 1..Len(calls') : j \in 1..Len(calls) /\ j < i
      BY <2>2, <2>5
    <2>7. \A j \in 1..Len(calls') : calls'[j].kind # "close"
      BY <2>2, <2>4, <2>6 DEF CloseAt
    <2> QED
      BY <2>1, <2>7 DEF CloseInv
  <1>5. CASE StartScriptReturns \/ NextScriptReturns
    <2>1. calls # <<>> /\ Pop /\ Top.kind # "close" /\ closing' = closing
      BY <1>5 DEF StartScriptReturns, NextScriptReturns
    <2> QED
      BY <1>0, <2>1, ClosePop
  <1>6. CASE TimerElapses \/ AnswerNext
    <2>1. closing' = closing /\ (Push(NextCall) \/ UNCHANGED calls)
      BY <1>6 DEF TimerElapses, AnswerNext, SendNext
    <2> QED
      BY <1>0, <1>n, <2>1, ClosePush, CloseKept
  <1>7. CASE AnswerIgnored \/ AnswerLast \/ AnswerWhileClosing \/ AnswerFailed
             \/ ConnectionChanges \/ \E r \in Runs : Answer(r)
    BY <1>7, CloseKept DEF AnswerIgnored, AnswerLast, AnswerWhileClosing, AnswerFailed,
                           ConnectionChanges, Answer
  <1>8. CASE UNCHANGED vars
    BY <1>8, CloseKept DEF vars
  <1> QED
    BY <1>1, <1>2, <1>3, <1>4, <1>5, <1>6, <1>7, <1>8 DEF Next, HandleAnswer

\* While programIsClosing waits, its loop or a script it called is innermost, and
\* something that ends the run is under way outside of suspended scripts.
CloseGoesOn ==
    closing = "waiting" =>
        /\ calls # <<>> /\ Top.kind \in {"close", "next"}
        /\ Top.kind = "close" /\ inProgress =>
            \/ timer \/ answers # <<>> \/ \E r \in Runs : flight[r] > 0
            \/ ScriptSuspended

(***************************************************************************)
(* The loop in which the closing program waits for the end of a run is     *)
(* never stuck, unless a script is suspended under it: it is innermost, or *)
(* a script is that can return; and the run has a timer, an answer or a    *)
(* request under way, which ends it.                                       *)
(***************************************************************************)
THEOREM OnlySuspendedBlocks == SafeSpec => []CloseGoesOn
  <1>1. Init => TypeInv /\ RunIsDriven /\ CloseInv
    BY TypeInit, EmptySeq DEF Init, RunIsDriven, CloseInv
  <1>2. TypeInv /\ RunIsDriven /\ CloseInv /\ [Next]_vars
            => (TypeInv /\ RunIsDriven /\ CloseInv)'
    BY TypeStep, DrivenStep, CloseStep DEF TypeInv
  <1>3. ASSUME TypeInv, RunIsDriven, CloseInv PROVE CloseGoesOn
    <2> SUFFICES ASSUME closing = "waiting"
                 PROVE  /\ calls # <<>> /\ Top.kind \in {"close", "next"}
                        /\ Top.kind = "close" /\ inProgress =>
                            \/ timer \/ answers # <<>> \/ \E r \in Runs : flight[r] > 0
                            \/ ScriptSuspended
      BY DEF CloseGoesOn
    <2>1. PICK i \in 1..Len(calls) : CloseAt(i)
      BY <1>3 DEF CloseInv
    <2>2. Len(calls) \in Nat /\ calls \in Seq(Calls)
      BY <1>3, LenProperties DEF TypeInv, TypeOK
    <2>3. Len(calls) \in 1..Len(calls) /\ (i = Len(calls) \/ Len(calls) > i)
      BY <2>2
    <2>4. calls # <<>>
      BY <2>1, EmptySeq
    <2>5. Top.kind \in {"close", "next"}
      BY <2>1, <2>3 DEF CloseAt, Top
    <2>6. ASSUME Top.kind = "close", NextCalls # {} PROVE ScriptSuspended
      <3>1. i = Len(calls)
        BY <2>1, <2>3, <2>6 DEF CloseAt, Top
      <3>2. PICK k \in 1..Len(calls) : calls[k].kind = "next"
        BY <2>6 DEF NextCalls
      <3>3. k < i
        BY <2>1, <2>2, <3>1, <3>2 DEF CloseAt
      <3>4. calls[i] = CloseCall
        <4>1. calls[i] \in Calls /\ calls[i].kind = "close"
          BY <2>1, <2>2, ElementOfSeq DEF CloseAt
        <4> QED
          BY <4>1 DEF Calls, CloseCall
      <3> QED
        BY <3>2, <3>3, <3>4 DEF ScriptSuspended
    <2> QED
      BY <1>3, <2>4, <2>5, <2>6 DEF RunIsDriven
  <1> QED
    BY <1>1, <1>2, <1>3, PTL DEF SafeSpec
=============================================================================

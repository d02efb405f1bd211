------------------------ MODULE SendHistory_proofs ------------------------
(***************************************************************************)
(* Proofs about SendHistory, for every limit of the history and every      *)
(* number of messages, presses, cancels and lost answers.                  *)
(***************************************************************************)
EXTENDS SendHistory, FiniteSetTheorems, SequenceTheorems, TLAPS

(***************************************************************************)
(* The parts of the history.                                               *)
(***************************************************************************)

\* Taking a part backwards keeps its elements.
LEMMA ReversedType ==
    ASSUME NEW S, NEW s \in Seq(S)
    PROVE  Reversed(s) \in Seq(S)
  <1>1. Len(s) \in Nat
    BY LenProperties
  <1>2. \A i \in 1..Len(s) : Len(s) + 1 - i \in 1..Len(s)
    BY <1>1
  <1>3. \A i \in 1..Len(s) : s[Len(s) + 1 - i] \in S
    BY <1>2, ElementOfSeq
  <1> QED
    BY <1>1, <1>3, IsASeq DEF Reversed

\* What the user can select is made of messages of the history.
LEMMA SelectionsType ==
    ASSUME history \in Seq(Messages), NEW selection \in Selections
    PROVE  selection \in Seq(Messages)
  <1>1. \A i \in 1..Len(history) : history[i] \in Messages
    BY ElementOfSeq
  <1>2. ASSUME NEW part \in Parts PROVE part \in Seq(Messages)
    <2>1. PICK i \in 1..Len(history), j \in 1..Len(history) : part = SubSeq(history, i, j)
      BY DEF Parts
    <2>2. \A k \in i..j : history[k] \in Messages
      BY <1>1, LenProperties
    <2> QED
      BY <2>1, <2>2, LenProperties, SubSeqProperties
  <1>3. CASE history = <<>>
    BY <1>3, EmptySeq DEF Selections
  <1>4. CASE history # <<>>
    <2>1. selection \in Parts \/ \E part \in Parts : selection = Reversed(part)
      BY <1>4 DEF Selections
    <2> QED
      BY <1>2, <2>1, ReversedType
  <1> QED
    BY <1>3, <1>4

\* Adding a message keeps the history within its limit.
LEMMA HistoryWithType ==
    ASSUME history \in Seq(Messages), Len(history) <= MaxEntries, NEW d \in Messages
    PROVE  HistoryWith(d) \in Seq(Messages) /\ Len(HistoryWith(d)) <= MaxEntries
  BY HistoryAssumption, AppendProperties, LenProperties DEF HistoryWith
-----------------------------------------------------------------------------
(***************************************************************************)
(* Handing over the first message that is left.                            *)
(***************************************************************************)

\* It keeps the types, and moves the message from what is left to what was
\* handed over.
LEMMA SendFirstType ==
    ASSUME NEW list \in Seq(Messages), NEW before \in Seq(Messages), flight \in Nat,
           undefined \in BOOLEAN, SendFirst(list, before)
    PROVE  /\ toSend' \in Seq(Messages) /\ sent' \in Seq(Messages)
           /\ flight' \in Nat /\ undefined' \in BOOLEAN
  <1>1. CASE list = <<>>
    BY <1>1 DEF SendFirst
  <1>2. CASE list # <<>>
    <2>1. Head(list) \in Messages /\ Tail(list) \in Seq(Messages)
      BY <1>2, HeadTailProperties
    <2>2. /\ toSend' = Tail(list) /\ sent' = Append(before, Head(list))
          /\ flight' = flight + 1 /\ undefined' = undefined
      BY <1>2 DEF SendFirst
    <2>3. Append(before, Head(list)) \in Seq(Messages)
      BY <2>1, AppendProperties
    <2> QED
      BY <2>1, <2>2, <2>3
  <1> QED
    BY <1>1, <1>2

LEMMA SendFirstKeeps ==
    ASSUME NEW list \in Seq(Messages), NEW before \in Seq(Messages), SendFirst(list, before)
    PROVE  sent' \o toSend' = before \o list
  <1>1. CASE list = <<>>
    BY <1>1 DEF SendFirst
  <1>2. CASE list # <<>>
    <2> DEFINE h == Head(list)
               t == Tail(list)
    <2>1. h \in Messages /\ t \in Seq(Messages) /\ sent' = Append(before, h) /\ toSend' = t
      BY <1>2, HeadTailProperties DEF SendFirst
    <2>2. Len(list) \in Nat \ {0} /\ Len(before) \in Nat
      BY <1>2, EmptySeq, LenProperties
    <2>3. h = list[1] /\ Len(t) = Len(list) - 1 /\ \A i \in 1..Len(t) : t[i] = list[i + 1]
      BY <1>2, HeadTailProperties
    <2>4. /\ Append(before, h) \in Seq(Messages) /\ Len(Append(before, h)) = Len(before) + 1
          /\ Append(before, h)[Len(before) + 1] = h
          /\ \A i \in 1..Len(before) : Append(before, h)[i] = before[i]
      BY <2>1, AppendProperties
    <2> DEFINE a == Append(before, h) \o t
               b == before \o list
    <2>5. a \in Seq(Messages) /\ b \in Seq(Messages)
      BY <2>1, <2>4, ConcatProperties
    <2>6. Len(a) = Len(b) /\ Len(b) = Len(before) + Len(list)
      BY <2>1, <2>2, <2>3, <2>4, ConcatProperties
    <2>7. ASSUME NEW i \in 1..Len(b) PROVE a[i] = b[i]
      <3>1. CASE i <= Len(before)
        BY <3>1, <2>1, <2>2, <2>4, <2>6, ConcatProperties
      <3>2. CASE i = Len(before) + 1
        BY <3>2, <2>1, <2>2, <2>3, <2>4, <2>6, ConcatProperties
      <3>3. CASE i > Len(before) + 1
        BY <3>3, <2>1, <2>2, <2>3, <2>4, <2>6, ConcatProperties
      <3> QED
        BY <3>1, <3>2, <3>3, <2>2, <2>6
    <2>8. a = b
      BY <2>5, <2>6, <2>7, SeqEqual
    <2> QED
      BY <2>1, <2>8
  <1> QED
    BY <1>1, <1>2
-----------------------------------------------------------------------------
(***************************************************************************)
(* Type correctness.                                                       *)
(***************************************************************************)

\* The queue of signals, and what handling one leaves of it.
LEMMA EventTypes ==
    ASSUME events \in Seq(Events), NEW e \in Events
    PROVE  /\ Post(e) => events' \in Seq(Events)
           /\ Handle(e) => events' \in Seq(Events)
  BY AppendProperties, HeadTailProperties DEF Post, Handle

LEMMA TypeInit == Init => TypeOK
  <1> SUFFICES ASSUME Init PROVE TypeOK
    OBVIOUS
  <1>1. <<>> \in Seq(Messages) /\ <<>> \in Seq(Events) /\ Len(<<>>) <= MaxEntries
    BY HistoryAssumption, EmptySeq
  <1>2. 0 \in 0..MaxAdds /\ 0 \in 0..MaxPresses
    BY HistoryAssumption
  <1> QED
    BY <1>1, <1>2 DEF Init, TypeOK

LEMMA TypeStep == TypeOK /\ [Next]_vars => TypeOK'
  <1> SUFFICES ASSUME TypeOK, [Next]_vars PROVE TypeOK'
    OBVIOUS
  <1> USE HistoryAssumption
  <1>0. /\ events \in Seq(Events) /\ history \in Seq(Messages) /\ flight \in Nat
        /\ undefined \in BOOLEAN /\ sent \in Seq(Messages) /\ toSend \in Seq(Messages)
    BY DEF TypeOK
  <1>e. <<>> \in Seq(Messages)
    BY EmptySeq
  <1>1. CASE PressSend
    <2>1. events' \in Seq(Events)
      BY <1>1, <1>0, EventTypes DEF PressSend, Events
    <2>2. presses' \in 0..MaxPresses
      BY <1>1 DEF PressSend, TypeOK
    <2> QED
      BY <1>1, <2>1, <2>2 DEF PressSend, TypeOK, sending, buttons, went
  <1>2. CASE PressClear
    BY <1>2, <1>0, EventTypes DEF PressClear, Events, TypeOK, sending, buttons, user, went
  <1>3. CASE ChangeFormat
    BY <1>3, <1>0, EventTypes DEF ChangeFormat, Events, TypeOK, sending, buttons, user, went
  <1>4. CASE ConsoleTimerElapses
    BY <1>4, <1>0, EventTypes
    DEF ConsoleTimerElapses, Events, TypeOK, sending, buttons, user, went
  <1>5. CASE SendTimerElapses
    BY <1>5, <1>0, EventTypes DEF SendTimerElapses, Events, TypeOK, sending, buttons, user, went
  <1>6. CASE Sent
    <2>1. events' \in Seq(Events)
      BY <1>6, <1>0, EventTypes DEF Sent, Events
    <2>2. flight' \in Nat
      BY <1>6, <1>0 DEF Sent
    <2> QED
      BY <1>6, <2>1, <2>2 DEF Sent, TypeOK, buttons, user, went
  <1>7. CASE NotReported
    <2>1. flight' \in Nat
      BY <1>7, <1>0 DEF NotReported
    <2> QED
      BY <1>7, <2>1 DEF NotReported, TypeOK, buttons
  <1>8. CASE AddDataToSendHistory
    <2>1. added' \in 0..MaxAdds /\ added + 1 \in Messages
      BY <1>8 DEF AddDataToSendHistory, TypeOK, Messages
    <2>2. history' \in Seq(Messages) /\ Len(history') <= MaxEntries
      BY <1>8, <2>1, HistoryWithType DEF AddDataToSendHistory, TypeOK
    <2>3. consoleTimer' \in BOOLEAN
      BY <1>8 DEF AddDataToSendHistory, TypeOK
    <2> QED
      BY <1>8, <2>1, <2>2, <2>3 DEF AddDataToSendHistory, TypeOK, sending, buttons, went
  <1>9. CASE CreateConfig
    BY <1>9, EmptySeq DEF CreateConfig, TypeOK, sending, buttons, user, went
  <1>10. CASE ConnectionChanges
    BY <1>10 DEF ConnectionChanges, TypeOK, sending, buttons, user, went
  <1>11. CASE CancelSend
    <2>1. events' \in Seq(Events)
      BY <1>11, <1>0, EventTypes DEF CancelSend, Events
    <2> QED
      BY <1>11, <2>1, <1>e DEF CancelSend, FinishSend, HistoryConsoleTimerSlot, TypeOK
  <1>12. CASE StartSend
    <2>1. events' \in Seq(Events)
      BY <1>12, <1>0, EventTypes DEF StartSend, Events
    <2>2. PICK selection \in Selections : chosen' = selection /\ SendFirst(selection, <<>>)
      BY <1>12 DEF StartSend
    <2>3. selection \in Seq(Messages)
      BY <1>0, SelectionsType
    <2>4. /\ toSend' \in Seq(Messages) /\ sent' \in Seq(Messages)
          /\ flight' \in Nat /\ undefined' \in BOOLEAN /\ chosen' \in Seq(Messages)
      BY <1>0, <1>e, <2>2, <2>3, SendFirstType
    <2> QED
      BY <1>12, <2>1, <2>4 DEF StartSend, TypeOK, user, went
  <1>13. CASE RefuseSend
    BY <1>13, <1>0, EventTypes DEF RefuseSend, Events, TypeOK, sending, buttons, user, went
  <1>14. CASE Clear
    <2>1. events' \in Seq(Events)
      BY <1>14, <1>0, EventTypes DEF Clear, Events
    <2>2. history' \in Seq(Messages) /\ Len(history') <= MaxEntries
      BY <1>14, EmptySeq DEF Clear
    <2> QED
      BY <1>14, <2>1, <2>2 DEF Clear, TypeOK, sending, user, went
  <1>15. CASE Refresh
    BY <1>15, <1>0, EventTypes
    DEF Refresh, HistoryConsoleTimerSlot, Events, TypeOK, sending, user, went
  <1>16. CASE SendHistoryTimerSlot
    <2>1. events' \in Seq(Events)
      BY <1>16, <1>0, EventTypes DEF SendHistoryTimerSlot, Events
    <2>2. CASE SendFirst(toSend, sent) /\ UNCHANGED <<inProgress, consoleTimer, buttons>>
      <3>1. /\ toSend' \in Seq(Messages) /\ sent' \in Seq(Messages)
            /\ flight' \in Nat /\ undefined' \in BOOLEAN
        BY <1>0, <2>2, SendFirstType
      <3> QED
        BY <1>16, <2>1, <2>2, <3>1
        DEF SendHistoryTimerSlot, StopTimer, TypeOK, buttons, user, went
    <2>3. CASE FinishSend /\ UNCHANGED <<toSend, flight, undefined, sent>>
      BY <1>16, <2>1, <2>3
      DEF SendHistoryTimerSlot, StopTimer, FinishSend, HistoryConsoleTimerSlot, TypeOK, user, went
    <2> QED
      BY <1>16, <2>2, <2>3 DEF SendHistoryTimerSlot
  <1>17. CASE DataHasBeenSendSlot
    <2>1. events' \in Seq(Events)
      BY <1>17, <1>0, EventTypes DEF DataHasBeenSendSlot, Events
    <2>2. CASE sendTimer' = TRUE /\ UNCHANGED <<inProgress, consoleTimer, buttons>>
      BY <1>17, <2>1, <2>2 DEF DataHasBeenSendSlot, TypeOK, buttons, user, went
    <2>3. CASE FinishSend /\ UNCHANGED sendTimer
      BY <1>17, <2>1, <2>3
      DEF DataHasBeenSendSlot, FinishSend, HistoryConsoleTimerSlot, TypeOK, user, went
    <2> QED
      BY <1>17, <2>2, <2>3 DEF DataHasBeenSendSlot
  <1>18. CASE UNCHANGED vars
    BY <1>18 DEF vars, TypeOK
  <1> QED
    BY <1>1, <1>2, <1>3, <1>4, <1>5, <1>6, <1>7, <1>8, <1>9, <1>10, <1>11, <1>12, <1>13, <1>14,
       <1>15, <1>16, <1>17, <1>18 DEF Next, Slots, Stopped

(***************************************************************************)
(* Every variable keeps its type; in particular the history never holds    *)
(* more than MAX_SEND_HISTORY_ENTRIES messages.                            *)
(***************************************************************************)
THEOREM TypeCorrect == SafeSpec => []TypeOK
  BY TypeInit, TypeStep, PTL DEF SafeSpec
-----------------------------------------------------------------------------
(***************************************************************************)
(* What is handed over of a selection.                                     *)
(***************************************************************************)

\* A step that leaves the send alone keeps what is known of it.
LEMMA SelectionKept ==
    ASSUME SelectionIsSent, UNCHANGED <<toSend, sent, chosen>>, inProgress' => inProgress
    PROVE  SelectionIsSent'
  BY DEF SelectionIsSent

LEMMA SelectionStep == TypeOK /\ SelectionIsSent /\ [Next]_vars => SelectionIsSent'
  <1> SUFFICES ASSUME TypeOK, SelectionIsSent, [Next]_vars PROVE SelectionIsSent'
    OBVIOUS
  <1>0. history \in Seq(Messages) /\ sent \in Seq(Messages) /\ toSend \in Seq(Messages)
    BY DEF TypeOK
  <1>1. CASE PressSend \/ PressClear \/ ChangeFormat
    BY <1>1, SelectionKept DEF PressSend, PressClear, ChangeFormat, sending
  <1>2. CASE ConsoleTimerElapses \/ SendTimerElapses
    BY <1>2, SelectionKept DEF ConsoleTimerElapses, SendTimerElapses, sending
  <1>3. CASE Sent \/ NotReported
    BY <1>3, SelectionKept DEF Sent, NotReported
  <1>4. CASE AddDataToSendHistory \/ CreateConfig \/ ConnectionChanges
    BY <1>4, SelectionKept DEF AddDataToSendHistory, CreateConfig, ConnectionChanges, sending
  <1>5. CASE CancelSend
    BY <1>5 DEF CancelSend, FinishSend, SelectionIsSent
  <1>6. CASE StartSend
    <2>1. PICK selection \in Selections : chosen' = selection /\ SendFirst(selection, <<>>)
      BY <1>6 DEF StartSend
    <2>2. selection \in Seq(Messages) /\ <<>> \in Seq(Messages)
      BY <1>0, SelectionsType, EmptySeq
    <2>3. sent' \o toSend' = <<>> \o selection
      BY <2>1, <2>2, SendFirstKeeps
    <2>4. <<>> \o selection = selection
      BY <2>2, ConcatEmptySeq
    <2> QED
      BY <2>1, <2>3, <2>4 DEF SelectionIsSent
  <1>7. CASE RefuseSend \/ Clear \/ Refresh
    BY <1>7, SelectionKept DEF RefuseSend, Clear, Refresh, sending
  <1>8. CASE SendHistoryTimerSlot
    <2>1. CASE SendFirst(toSend, sent) /\ inProgress' = inProgress
      <3>1. sent' \o toSend' = sent \o toSend
        BY <2>1, <1>0, SendFirstKeeps
      <3> QED
        BY <1>8, <2>1, <3>1 DEF SendHistoryTimerSlot, SelectionIsSent
    <2>2. CASE FinishSend
      BY <2>2 DEF FinishSend, SelectionIsSent
    <2> QED
      BY <1>8, <2>1, <2>2 DEF SendHistoryTimerSlot
  <1>9. CASE DataHasBeenSendSlot
    <2>1. CASE FinishSend
      BY <2>1 DEF FinishSend, SelectionIsSent
    <2>2. CASE inProgress' = inProgress
      BY <1>9, <2>2, SelectionKept DEF DataHasBeenSendSlot
    <2> QED
      BY <1>9, <2>1, <2>2 DEF DataHasBeenSendSlot
  <1>10. CASE UNCHANGED vars
    BY <1>10, SelectionKept DEF vars
  <1> QED
    BY <1>1, <1>2, <1>3, <1>4, <1>5, <1>6, <1>7, <1>8, <1>9, <1>10 DEF Next, Slots, Stopped

(***************************************************************************)
(* While a selection is sent, what was handed over and what is left make   *)
(* it up, in order, whatever happens to the history, the connection and    *)
(* the answers meanwhile.                                                  *)
(***************************************************************************)
THEOREM SelectionSent == SafeSpec => []SelectionIsSent
  <1>1. Init => SelectionIsSent
    BY DEF Init, SelectionIsSent
  <1> QED
    BY <1>1, TypeCorrect, SelectionStep, PTL DEF SafeSpec
-----------------------------------------------------------------------------
(***************************************************************************)
(* The signals that wait.                                                  *)
(***************************************************************************)
Places(event) == {i \in 1..Len(events) : events[i] = event}

LEMMA PlacesFinite ==
    ASSUME events \in Seq(Events), NEW event
    PROVE  /\ IsFiniteSet(Places(event)) /\ Pending(event) \in Nat
           /\ Pending(event) = Cardinality(Places(event))
           /\ Pending(event) = 0 <=> ~Posted(event)
  <1>1. IsFiniteSet(1..Len(events))
    BY FS_Interval, LenProperties
  <1>2. IsFiniteSet(Places(event))
    BY <1>1, FS_Subset DEF Places
  <1>3. Places(event) = {} <=> ~Posted(event)
    BY DEF Places, Posted, InSeq
  <1> QED
    BY <1>2, <1>3, FS_EmptySet, FS_CardinalityType DEF Pending, Places

\* A signal is posted.
LEMMA PostCounts ==
    ASSUME events \in Seq(Events), NEW e \in Events, Post(e), NEW event
    PROVE  Pending(event)' = Pending(event) + (IF event = e THEN 1 ELSE 0)
  <1> DEFINE new == {i \in 1..Len(events') : events'[i] = event}
             n == Len(events) + 1
  <1>1. /\ Len(events) \in Nat /\ Len(events') = n /\ events'[n] = e
        /\ \A i \in 1..Len(events) : events'[i] = events[i]
    BY AppendProperties, LenProperties DEF Post
  <1>2. new = IF event = e THEN Places(event) \cup {n} ELSE Places(event)
    BY <1>1 DEF Places
  <1>3. n \notin Places(event)
    BY <1>1 DEF Places
  <1> HIDE DEF n
  <1>4. Cardinality(Places(event) \cup {n}) = Cardinality(Places(event)) + 1
    BY <1>3, PlacesFinite, FS_AddElement
  <1>5. Pending(event)' = Cardinality(new)
    BY DEF Pending
  <1> HIDE DEF new
  <1>6. CASE event = e
    BY <1>2, <1>4, <1>5, <1>6, PlacesFinite
  <1>7. CASE event # e
    <2>1. Pending(event) = Cardinality(Places(event)) /\ Pending(event) \in Nat
      BY PlacesFinite
    <2>2. new = Places(event)
      BY <1>2, <1>7
    <2> QED
      BY <1>5, <1>7, <2>1, <2>2
  <1> QED
    BY <1>6, <1>7

\* The oldest signal is taken from the queue.
LEMMA HandleCounts ==
    ASSUME events \in Seq(Events), NEW e \in Events, Handle(e), NEW event
    PROVE  Pending(event)' = Pending(event) - (IF event = e THEN 1 ELSE 0)
  <1> DEFINE new == {i \in 1..Len(events') : events'[i] = event}
             rest == Places(event) \ {1}
  <1>1. /\ Len(events) \in Nat \ {0} /\ Len(events') = Len(events) - 1 /\ events[1] = e
        /\ \A i \in 1..Len(events') : events'[i] = events[i + 1]
    BY HeadTailProperties, EmptySeq, LenProperties DEF Handle
  <1>2. 1 \in Places(event) <=> event = e
    BY <1>1 DEF Places
  <1>3. IsFiniteSet(rest) /\ Cardinality(rest) = IF event = e THEN Cardinality(Places(event)) - 1
                                                 ELSE Cardinality(Places(event))
    BY <1>2, PlacesFinite, FS_RemoveElement
  <1>4. Cardinality(new) = Cardinality(rest)
    <2> DEFINE f == [i \in rest |-> i - 1]
    <2>1. f \in [rest -> new]
      BY <1>1 DEF Places
    <2>2. \A i, j \in rest : f[i] = f[j] => i = j
      BY <1>1 DEF Places
    <2>3. \A k \in new : \E i \in rest : f[i] = k
      <3>1. ASSUME NEW k \in new PROVE k + 1 \in rest /\ f[k + 1] = k
        BY <1>1 DEF Places
      <3> QED
        BY <3>1
    <2>4. f \in Bijection(rest, new)
      BY <2>1, <2>2, <2>3 DEF Bijection, Injection, Surjection, IsInjective
    <2> QED
      BY <1>3, <2>4, FS_Bijection DEF ExistsBijection
  <1>5. Pending(event)' = Cardinality(new)
    BY DEF Pending
  <1> QED
    BY <1>3, <1>4, <1>5, PlacesFinite

LEMMA PendingKept ==
    ASSUME UNCHANGED events, NEW event
    PROVE  Pending(event)' = Pending(event)
  BY DEF Pending
-----------------------------------------------------------------------------
(***************************************************************************)
(* One message at a time.                                                  *)
(***************************************************************************)

\* What is under way of the selection: a request, its answer, the timer.
UnderWay ==
    flight + Pending("sent") + (IF sendTimer THEN 1 ELSE Pending("elapsed"))

\* The timer's signal is queued once.  Until a cancel, one thing at most is
\* under way, nothing is while no selection is sent, and the timer runs only
\* if there is something left.
WayInv ==
    /\ Pending("elapsed") <= 1
    /\ ~cancelled /\ ~undefined =>
        /\ UnderWay <= IF inProgress THEN 1 ELSE 0
        /\ sendTimer \/ Pending("elapsed") = 1 => toSend # <<>>
    /\ OneAtATime /\ TakesHistoryData

LEMMA WayType ==
    ASSUME TypeOK
    PROVE  /\ events \in Seq(Events) /\ flight \in Nat
           /\ sendTimer \in BOOLEAN /\ inProgress \in BOOLEAN
           /\ Pending("sent") \in Nat /\ Pending("elapsed") \in Nat
           /\ Pending("elapsed") = 0 <=> ~Posted("elapsed")
  BY PlacesFinite DEF TypeOK

\* Another signal is posted or taken: the way stays as it is.
LEMMA WayKept ==
    ASSUME TypeOK, WayInv, UNCHANGED <<sending, cancelled>>,
           Pending("sent")' = Pending("sent"), Pending("elapsed")' = Pending("elapsed")
    PROVE  WayInv'
  BY DEF WayInv, UnderWay, OneAtATime, TakesHistoryData, sending

LEMMA OtherSignal ==
    ASSUME TypeOK, NEW e \in {"press", "clear", "refresh"}, Post(e) \/ Handle(e)
    PROVE  Pending("sent")' = Pending("sent") /\ Pending("elapsed")' = Pending("elapsed")
  BY WayType, PostCounts, HandleCounts DEF Events

\* The first message of what is left is handed over, if there is one.
LEMMA SendFirstFlies ==
    ASSUME NEW list, NEW before, SendFirst(list, before)
    PROVE  /\ list = <<>> => undefined' /\ flight' = flight
           /\ list # <<>> => flight' = flight + 1 /\ undefined' = undefined
  BY DEF SendFirst

LEMMA WayInit == Init => WayInv
  <1> SUFFICES ASSUME Init PROVE WayInv
    OBVIOUS
  <1>1. \A event : Places(event) = {}
    BY EmptySeq DEF Init, Places
  <1>2. \A event : Pending(event) = 0
    BY <1>1, FS_EmptySet DEF Pending, Places
  <1> QED
    BY <1>2 DEF Init, WayInv, UnderWay, OneAtATime, TakesHistoryData

LEMMA WayStep == ASSUME TypeOK, WayInv, [Next]_vars PROVE WayInv'
  <1>0. /\ events \in Seq(Events) /\ flight \in Nat /\ sendTimer \in BOOLEAN
        /\ inProgress \in BOOLEAN /\ Pending("sent") \in Nat /\ Pending("elapsed") \in Nat
        /\ Pending("elapsed") = 0 <=> ~Posted("elapsed")
    BY WayType
  <1>d. ASSUME NEW e \in Events, Post(e) \/ Handle(e) PROVE ~undefined
    BY <1>d DEF Post, Handle, Defined
  <1>1. CASE PressSend \/ PressClear \/ ChangeFormat \/ ConsoleTimerElapses
    <2>1. UNCHANGED <<sending, cancelled>>
      BY <1>1 DEF PressSend, PressClear, ChangeFormat, ConsoleTimerElapses, user, went
    <2>2. \E e \in {"press", "clear", "refresh"} : Post(e)
      BY <1>1 DEF PressSend, PressClear, ChangeFormat, ConsoleTimerElapses
    <2> QED
      BY <2>1, <2>2, OtherSignal, WayKept
  <1>2. CASE SendTimerElapses
    <2>1. Post("elapsed") /\ sendTimer /\ UNCHANGED <<sending, cancelled>> /\ ~Posted("elapsed")
      BY <1>2 DEF SendTimerElapses, user, went
    <2>2. /\ Pending("sent")' = Pending("sent")
          /\ Pending("elapsed")' = Pending("elapsed") + 1
      BY <2>1, <1>0, PostCounts DEF Events
    <2> QED
      BY <2>1, <2>2, <1>0 DEF WayInv, UnderWay, OneAtATime, TakesHistoryData, sending
  <1>3. CASE Sent
    <2>1. /\ flight > 0 /\ flight' = flight - 1 /\ Post("sent")
          /\ UNCHANGED <<toSend, inProgress, sendTimer, undefined, chosen, cancelled>>
      BY <1>3 DEF Sent, user, went
    <2>2. /\ Pending("sent")' = Pending("sent") + 1
          /\ Pending("elapsed")' = Pending("elapsed")
      BY <2>1, <1>0, PostCounts DEF Events
    <2> QED
      BY <2>1, <2>2, <1>0 DEF WayInv, UnderWay, OneAtATime, TakesHistoryData
  <1>4. CASE NotReported
    <2>1. /\ flight > 0 /\ flight' = flight - 1
          /\ UNCHANGED <<toSend, inProgress, sendTimer, undefined, chosen, cancelled, events>>
      BY <1>4 DEF NotReported
    <2>2. /\ Pending("sent")' = Pending("sent")
          /\ Pending("elapsed")' = Pending("elapsed")
      BY <2>1, PendingKept
    <2> QED
      BY <2>1, <2>2, <1>0 DEF WayInv, UnderWay, OneAtATime, TakesHistoryData
  <1>5. CASE AddDataToSendHistory \/ CreateConfig \/ ConnectionChanges
    <2>1. UNCHANGED <<sending, cancelled, events>>
      BY <1>5 DEF AddDataToSendHistory, CreateConfig, ConnectionChanges, user, went
    <2> QED
      BY <2>1, PendingKept, WayKept
  <1>6. CASE CancelSend
    <2>1. /\ cancelled' /\ Handle("press")
      BY <1>6 DEF CancelSend
    <2>2. Pending("elapsed")' = Pending("elapsed")
      BY <2>1, OtherSignal
    <2> QED
      BY <2>1, <2>2 DEF WayInv, OneAtATime, TakesHistoryData
  <1>7. CASE StartSend
    <2>1. PICK selection \in Selections : chosen' = selection /\ SendFirst(selection, <<>>)
      BY <1>7 DEF StartSend
    <2>2. /\ Handle("press") /\ ~inProgress /\ inProgress'
          /\ UNCHANGED <<sendTimer, cancelled>> /\ ~undefined
      BY <1>7, <1>d DEF StartSend, user, went, Events
    <2>3. Pending("sent")' = Pending("sent") /\ Pending("elapsed")' = Pending("elapsed")
      BY <2>2, OtherSignal
    <2>4. ~cancelled => flight = 0 /\ Pending("sent") = 0 /\ ~sendTimer /\ Pending("elapsed") = 0
      BY <2>2, <1>0 DEF WayInv, UnderWay
    <2>5. /\ selection = <<>> => undefined' /\ flight' = flight
          /\ selection # <<>> => flight' = flight + 1 /\ undefined' = undefined
      BY <2>1, SendFirstFlies
    <2>6. OneAtATime'
      BY <2>2, <2>3, <2>4, <2>5 DEF OneAtATime
    <2>7. TakesHistoryData'
      BY <2>1, <2>2, <2>5 DEF TakesHistoryData
    <2> QED
      BY <2>2, <2>3, <2>4, <2>5, <2>6, <2>7 DEF WayInv, UnderWay
  <1>8. CASE RefuseSend \/ Clear \/ Refresh
    <2>1. UNCHANGED <<sending, cancelled>>
      BY <1>8 DEF RefuseSend, Clear, Refresh, user, went
    <2>2. \E e \in {"press", "clear", "refresh"} : Handle(e)
      BY <1>8 DEF RefuseSend, Clear, Refresh
    <2> QED
      BY <2>1, <2>2, OtherSignal, WayKept
  <1>9. CASE SendHistoryTimerSlot
    <2>1. /\ Handle("elapsed") /\ ~sendTimer' /\ UNCHANGED <<cancelled, chosen>> /\ ~undefined
      BY <1>9, <1>d DEF SendHistoryTimerSlot, StopTimer, user, went, Events
    <2>2. /\ Pending("sent")' = Pending("sent")
          /\ Pending("elapsed")' = Pending("elapsed") - 1
      BY <2>1, <1>0, HandleCounts DEF Events
    <2>3. Posted("elapsed")
      <3>1. Len(events) \in Nat \ {0} /\ events[1] = "elapsed"
        BY <2>1, <1>0, HeadTailProperties, EmptySeq, LenProperties DEF Handle
      <3> QED
        BY <3>1 DEF Posted, InSeq
    <2>4. Pending("elapsed") = 1 /\ Pending("elapsed")' = 0
      BY <2>2, <2>3, <1>0 DEF WayInv
    <2>5. ~cancelled => flight = 0 /\ Pending("sent") = 0 /\ inProgress /\ toSend # <<>>
      BY <2>1, <2>4, <1>0 DEF WayInv, UnderWay
    <2>6. CASE SendFirst(toSend, sent) /\ UNCHANGED inProgress
      <3>1. ~cancelled => flight' = 1 /\ undefined' = undefined
        BY <2>5, <2>6, SendFirstFlies
      <3> QED
        BY <2>1, <2>2, <2>4, <2>5, <2>6, <3>1
        DEF WayInv, UnderWay, OneAtATime, TakesHistoryData
    <2>7. CASE FinishSend /\ UNCHANGED <<flight, undefined>>
      BY <2>1, <2>2, <2>4, <2>5, <2>7
      DEF FinishSend, WayInv, UnderWay, OneAtATime, TakesHistoryData
    <2> QED
      BY <1>9, <2>6, <2>7 DEF SendHistoryTimerSlot
  <1>10. CASE DataHasBeenSendSlot
    <2>1. /\ Handle("sent") /\ UNCHANGED <<cancelled, toSend, flight, undefined, chosen>>
          /\ ~undefined
      BY <1>10, <1>d DEF DataHasBeenSendSlot, user, went, Events
    <2>2. /\ Pending("sent")' = Pending("sent") - 1
          /\ Pending("elapsed")' = Pending("elapsed")
      BY <2>1, <1>0, HandleCounts DEF Events
    <2>3. Pending("sent")' \in Nat
      <3>1. events' \in Seq(Events)
        BY <2>1, <1>0, EventTypes DEF Events
      <3>2. Pending("sent")' # -1
        <4> DEFINE new == {i \in 1..Len(events') : events'[i] = "sent"}
        <4>1. IsFiniteSet(1..Len(events'))
          BY <3>1, FS_Interval, LenProperties
        <4>2. Cardinality(new) \in Nat
          BY <4>1, FS_Subset, FS_CardinalityType
        <4> QED
          BY <4>2 DEF Pending
      <3> QED
        BY <2>2, <3>2, <1>0
    <2>4. ~cancelled => /\ flight = 0 /\ Pending("sent")' = 0 /\ inProgress
                        /\ ~sendTimer /\ Pending("elapsed") = 0
      BY <2>1, <2>2, <2>3, <1>0 DEF WayInv, UnderWay
    <2>5. CASE MoreToSend /\ sendTimer' = TRUE /\ UNCHANGED inProgress
      BY <2>1, <2>2, <2>4, <2>5
      DEF MoreToSend, WayInv, UnderWay, OneAtATime, TakesHistoryData
    <2>6. CASE FinishSend /\ UNCHANGED sendTimer
      BY <2>1, <2>2, <2>4, <2>6
      DEF FinishSend, WayInv, UnderWay, OneAtATime, TakesHistoryData
    <2> QED
      BY <1>10, <2>5, <2>6 DEF DataHasBeenSendSlot
  <1>11. CASE UNCHANGED vars
    <2>1. UNCHANGED <<sending, cancelled, events>>
      BY <1>11 DEF vars, sending
    <2> QED
      BY <2>1, PendingKept, WayKept
  <1> QED
    BY <1>1, <1>2, <1>3, <1>4, <1>5, <1>6, <1>7, <1>8, <1>9, <1>10, <1>11
    DEF Next, Slots, Stopped

(***************************************************************************)
(* Until somebody cancels, one request, answer or timer is under way at    *)
(* most, whatever is queued between an event and its slot.                 *)
(***************************************************************************)
THEOREM OneByOne == SafeSpec => []OneAtATime
  <1>1. WayInv => OneAtATime
    BY DEF WayInv
  <1> QED
    BY <1>1, TypeInit, TypeStep, WayInit, WayStep, PTL DEF SafeSpec

(***************************************************************************)
(* The first message is taken of a list that has one, except after a       *)
(* cancel or for an empty history.                                         *)
(***************************************************************************)
THEOREM TakesData == SafeSpec => []TakesHistoryData
  <1>1. WayInv => TakesHistoryData
    BY DEF WayInv
  <1> QED
    BY <1>1, TypeInit, TypeStep, WayInit, WayStep, PTL DEF SafeSpec
-----------------------------------------------------------------------------
(***************************************************************************)
(* Why the flag m_historySendIsInProgress goes down again: something that  *)
(* will change it is still to come.                                        *)
(***************************************************************************)
FlagOrLost == FlagIsTrue \/ unreported

\* A signal that is not handled now stays in the queue.
LEMMA PostedStays ==
    ASSUME events \in Seq(Events), NEW e \in Events, NEW other, Posted(other)
    PROVE  /\ Post(e) => Posted(other)'
           /\ Handle(e) /\ e # other => Posted(other)'
  <1>1. PICK i \in 1..Len(events) : events[i] = other
    BY DEF Posted, InSeq
  <1>2. Len(events) \in Nat
    BY LenProperties
  <1>3. ASSUME Post(e) PROVE Posted(other)'
    <2>1. Len(events') = Len(events) + 1 /\ events'[i] = other
      BY <1>1, <1>3, AppendProperties DEF Post
    <2> QED
      BY <1>2, <2>1 DEF Posted, InSeq
  <1>4. ASSUME Handle(e), e # other PROVE Posted(other)'
    <2>1. events # <<>> /\ events' = Tail(events) /\ events[1] = e
      BY <1>2, <1>4, HeadTailProperties DEF Handle
    <2>2. /\ Len(events') = Len(events) - 1
          /\ \A j \in 1..Len(events') : events'[j] = events[j + 1]
      BY <2>1, HeadTailProperties
    <2>3. i - 1 \in 1..Len(events')
      BY <1>1, <1>2, <1>4, <2>1, <2>2
    <2>4. events'[i - 1] = other
      BY <1>1, <1>2, <2>2, <2>3
    <2> QED
      BY <2>3, <2>4 DEF Posted, InSeq
  <1> QED
    BY <1>3, <1>4

\* What has been posted is in the queue.
LEMMA PostPosts ==
    ASSUME events \in Seq(Events), NEW e \in Events, Post(e)
    PROVE  Posted(e)'
  <1>1. Len(events) \in Nat
    BY LenProperties
  <1>2. Len(events') = Len(events) + 1 /\ events'[Len(events) + 1] = e
    BY AppendProperties DEF Post
  <1> QED
    BY <1>1, <1>2 DEF Posted, InSeq

\* A step that starts nothing and ends nothing keeps what is to come.
LEMMA FlagKept ==
    ASSUME FlagOrLost, UNCHANGED <<inProgress, sendTimer, flight, undefined, unreported>>,
           Posted("sent") => Posted("sent")', Posted("elapsed") => Posted("elapsed")'
    PROVE  FlagOrLost'
  BY DEF FlagOrLost, FlagIsTrue

LEMMA FlagStep == TypeOK /\ FlagOrLost /\ [Next]_vars => FlagOrLost'
  <1> SUFFICES ASSUME TypeOK, FlagOrLost, [Next]_vars PROVE FlagOrLost'
    OBVIOUS
  <1>0. events \in Seq(Events) /\ flight \in Nat /\ undefined \in BOOLEAN
    BY DEF TypeOK
  <1>p. ASSUME NEW e \in Events, Post(e)
        PROVE  /\ Posted("sent") => Posted("sent")'
               /\ Posted("elapsed") => Posted("elapsed")'
    BY <1>0, <1>p, PostedStays
  <1>h. ASSUME NEW e \in {"press", "clear", "refresh"}, Handle(e)
        PROVE  /\ Posted("sent") => Posted("sent")'
               /\ Posted("elapsed") => Posted("elapsed")'
    BY <1>0, <1>h, PostedStays DEF Events
  <1>1. CASE PressSend \/ PressClear \/ ChangeFormat \/ ConsoleTimerElapses \/ SendTimerElapses
    <2>1. \E e \in Events : Post(e)
      BY <1>1 DEF PressSend, PressClear, ChangeFormat, ConsoleTimerElapses,
                  SendTimerElapses, Events
    <2>2. UNCHANGED <<inProgress, sendTimer, flight, undefined, unreported>>
      BY <1>1 DEF PressSend, PressClear, ChangeFormat, ConsoleTimerElapses,
                  SendTimerElapses, sending, user, went
    <2> QED
      BY <1>p, <2>1, <2>2, FlagKept
  <1>2. CASE Sent
    \* The answer is under way now.
    BY <1>0, <1>2, PostPosts DEF Sent, Events, FlagOrLost, FlagIsTrue
  <1>3. CASE NotReported
    BY <1>3 DEF NotReported, FlagOrLost
  <1>4. CASE AddDataToSendHistory \/ CreateConfig \/ ConnectionChanges \/ UNCHANGED vars
    <2>1. UNCHANGED <<inProgress, sendTimer, flight, undefined, unreported, events>>
      BY <1>4 DEF AddDataToSendHistory, CreateConfig, ConnectionChanges, vars, sending,
                  user, went
    <2> QED
      BY <2>1, FlagKept DEF Posted, InSeq
  <1>5. CASE CancelSend
    BY <1>5 DEF CancelSend, FinishSend, FlagOrLost, FlagIsTrue
  <1>6. CASE StartSend
    <2>1. PICK selection \in Selections : SendFirst(selection, <<>>)
      BY <1>6 DEF StartSend
    <2> QED
      BY <1>0, <2>1 DEF SendFirst, FlagOrLost, FlagIsTrue
  <1>7. CASE RefuseSend \/ Clear \/ Refresh
    <2>1. \E e \in {"press", "clear", "refresh"} : Handle(e)
      BY <1>7 DEF RefuseSend, Clear, Refresh
    <2>2. UNCHANGED <<inProgress, sendTimer, flight, undefined, unreported>>
      BY <1>7 DEF RefuseSend, Clear, Refresh, sending, user, went
    <2> QED
      BY <1>h, <2>1, <2>2, FlagKept
  <1>8. CASE SendHistoryTimerSlot
    \* Either the next message is handed over, or the send ends.
    <2>1. CASE SendFirst(toSend, sent)
      BY <1>0, <2>1 DEF SendFirst, FlagOrLost, FlagIsTrue
    <2>2. CASE FinishSend
      BY <2>2 DEF FinishSend, FlagOrLost, FlagIsTrue
    <2> QED
      BY <1>8, <2>1, <2>2 DEF SendHistoryTimerSlot
  <1>9. CASE DataHasBeenSendSlot
    \* Either the timer is started, or the send ends.
    BY <1>9 DEF DataHasBeenSendSlot, FinishSend, FlagOrLost, FlagIsTrue
  <1> QED
    BY <1>1, <1>2, <1>3, <1>4, <1>5, <1>6, <1>7, <1>8, <1>9 DEF Next, Slots, Stopped

(***************************************************************************)
(* The flag is true only while the history is sent, as its comment says,   *)
(* unless a send was not reported: a request, an answer, the timer or its  *)
(* slot is still to come, whatever was cancelled.  So the unreported send  *)
(* is the one way the flag can stay set for ever.                          *)
(***************************************************************************)
THEOREM FlagStaysOnlyUnreported == SafeSpec => []FlagOrLost
  <1>1. Init => FlagOrLost
    BY DEF Init, FlagOrLost, FlagIsTrue
  <1> QED
    BY <1>1, TypeCorrect, FlagStep, PTL DEF SafeSpec
=============================================================================

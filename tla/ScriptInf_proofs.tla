-------------------------- MODULE ScriptInf_proofs --------------------------
(***************************************************************************)
(* Proofs about ScriptInf, for any number of scripts, settings, calls and  *)
(* repetitions.                                                            *)
(*                                                                         *)
(* A script's copy of m_isConnected follows the announcements (FlagInv).   *)
(* A script that waits has exactly one order, queued or being carried out, *)
(* and the calls below its innermost one handle events (StackInv).  As     *)
(* long as orders to connect of several parties do not overlap, a script   *)
(* that withdraws its connect is alone with the interface (GivenInv).      *)
(***************************************************************************)
EXTENDS ScriptInf, SequenceTheorems, TLAPS

Frames == SendFrames \cup ConnectFrames

\* The parts of TypeOK: connection and announcements, queue, calls.
LinkOK ==
    /\ mi \in {"runs", "vain", "ended"} \cup Boxes
    /\ cfg \in Configs /\ showBox \in BOOLEAN /\ conn \in BOOLEAN
    /\ client \in {"idle", "connecting", "closing", "up"}
    /\ peer \in {"closed", "listening", "joined"}
    /\ isConn \in [Scripts -> BOOLEAN] /\ missed \subseteq Scripts

RestOK ==
    /\ gui \in {"open", "stopping", "exiting", "closed"}
    /\ settings \in Configs
    /\ inbox \in Seq(Orders) /\ sending \subseteq Scripts
    /\ state \in [Scripts -> {"new", "created", "running", "ended", "terminated"}]
    /\ shallExit \in [Scripts -> BOOLEAN]
    /\ succeeded \in [Scripts -> BOOLEAN]
    /\ calls \in 0..MaxCalls /\ mixed \in BOOLEAN

StackOK == stack \in [Scripts -> Seq(Frames)]

LEMMA TypeParts == TypeOK <=> LinkOK /\ RestOK /\ StackOK
  BY DEF TypeOK, LinkOK, RestOK, StackOK, Frames
-----------------------------------------------------------------------------
(***************************************************************************)
(* What the scripts are told: FlagIsCurrent.                               *)
(***************************************************************************)
Known == {"created", "running"}

FlagInv ==
    /\ \A s \in Scripts :
        state[s] \in Known /\ s \notin missed /\ mi # "boxOpen" => isConn[s] = conn
    /\ mi = "boxOpen" => ~conn

\* The status is announced.
LEMMA AnnounceShape ==
    ASSUME LinkOK, NEW up \in BOOLEAN, Announce(up)
    PROVE  /\ isConn' \in [Scripts -> BOOLEAN] /\ missed' \subseteq Scripts
           /\ \A s \in Scripts : state[s] \in Known /\ s \notin missed' => isConn'[s] = up
  <1>1. isConn' = [s \in Scripts |-> IF state[s] = "running" THEN up ELSE isConn[s]]
    BY DEF Announce, Running
  <1>2. missed' = {s \in Scripts : state[s] = "created" /\ isConn[s] # up}
    BY DEF Announce
  <1> QED
    BY <1>1, <1>2 DEF LinkOK, Known

\* A step of the connection ends with an announcement, or in the message box
\* after which there is one.
FlagsFollow ==
    \/ /\ \A s \in Scripts : state[s] \in Known /\ s \notin missed' => isConn'[s] = conn'
       /\ mi' # "boxOpen"
    \/ mi' = "boxOpen" /\ ~conn'

LEMMA SlotShape ==
    ASSUME LinkOK, NEW c \in Configs, NEW on \in BOOLEAN, NEW box \in BOOLEAN,
           ConnectSlot(c, on, box)
    PROVE  /\ LinkOK' /\ FlagsFollow
           /\ mi' \in {"runs"} \cup Boxes
           /\ cfg' = c
           /\ ~on => /\ mi' = "runs" /\ conn' = FALSE /\ peer' = "closed"
                     /\ client' \in {"idle", "closing"}
  <1>1. ClosedClient \in {"idle", "closing"}
    BY DEF ClosedClient
  <1>2. CASE Disconnect(c, box)
    BY <1>1, <1>2, AnnounceShape DEF Disconnect, LinkOK, FlagsFollow, Boxes
  <1>3. CASE on /\ OpenDevice(c, box)
    <2>1. cfg' = c /\ showBox' = box /\ client' = ClosedClient /\ peer' = "closed"
      BY <1>3 DEF OpenDevice
    <2>2. CASE conn' = TRUE /\ Announce(TRUE) /\ mi' = "runs"
      BY <1>1, <1>3, <2>1, <2>2, AnnounceShape DEF LinkOK, FlagsFollow, Boxes
    <2>3. CASE conn' = FALSE /\ mi' = "boxOpen" /\ Quiet
      BY <1>1, <1>3, <2>1, <2>3 DEF LinkOK, FlagsFollow, Boxes, Quiet
    <2>4. CASE conn' = FALSE /\ mi' = "runs" /\ Announce(FALSE)
      BY <1>1, <1>3, <2>1, <2>4, AnnounceShape DEF LinkOK, FlagsFollow, Boxes
    <2> QED
      BY <1>3, <2>2, <2>3, <2>4 DEF OpenDevice
  <1>4. CASE on /\ OpenClient(c, box)
    BY <1>4, AnnounceShape DEF OpenClient, LinkOK, FlagsFollow, Boxes
  <1>5. CASE on /\ Listen(c, box)
    BY <1>1, <1>5, AnnounceShape DEF Listen, LinkOK, FlagsFollow, Boxes
  <1> QED
    BY <1>2, <1>3, <1>4, <1>5 DEF ConnectSlot

LEMMA FlagKept ==
    ASSUME FlagInv, FlagsFollow, state' = state
    PROVE  FlagInv'
  BY DEF FlagInv, FlagsFollow

LEMMA FlagSame ==
    ASSUME FlagInv, UNCHANGED <<mi, conn, isConn, missed>>,
           \A s \in Scripts : state'[s] \in Known => state[s] \in Known
    PROVE  FlagInv'
  BY DEF FlagInv

\* The orders of the main interface thread
LEMMA HeadOrder ==
    ASSUME inbox \in Seq(Orders), inbox # <<>>
    PROVE  /\ Head(inbox) \in Orders /\ Head(inbox) = inbox[1] /\ Tail(inbox) \in Seq(Orders)
           /\ Len(inbox) \in Nat \ {0} /\ Len(Tail(inbox)) = Len(inbox) - 1
           /\ \A i \in 1..(Len(inbox) - 1) : Tail(inbox)[i] = inbox[i + 1]
  BY HeadTailProperties, EmptySeq, LenProperties

LEMMA OrderTypes ==
    ASSUME NEW o \in Orders
    PROVE  /\ o.kind \in {"connect", "send", "exit"} /\ o.from \in Scripts \cup {Gui}
           /\ o.kind = "connect" => o.conf \in Configs /\ o.on \in BOOLEAN /\ o.box \in BOOLEAN
           /\ o.kind = "send" => o.from \in Scripts
           /\ o.kind = "exit" => o.from = Gui
  BY DEF Orders, SendOrder, ExitOrder

LEMMA LinkInit == ASSUME Init PROVE LinkOK /\ FlagInv
  BY InfAssumption DEF Init, LinkOK, FlagInv, Known

LEMMA LinkStep == ASSUME LinkOK, RestOK, FlagInv, [Next]_vars PROVE LinkOK' /\ FlagInv'
  <1>1. CASE HandleConnect
    <2>1. /\ Head(inbox) \in Orders /\ Head(inbox).kind = "connect"
          /\ ConnectSlot(Head(inbox).conf, Head(inbox).on, Head(inbox).box) /\ state' = state
      BY <1>1, HeadOrder DEF HandleConnect, Takes, RestOK
    <2> QED
      BY <2>1, OrderTypes, SlotShape, FlagKept
  <1>2. CASE ClientConnects
    <2>1. /\ Announce(TRUE) /\ conn' = TRUE /\ mi' \in {"runs", "vain"}
          /\ client' \in {"connecting", "closing", "up"} /\ UNCHANGED <<cfg, showBox, peer, state>>
      BY <1>2 DEF ClientConnects
    <2>2. FlagsFollow
      BY <2>1, AnnounceShape DEF FlagsFollow
    <2> QED
      BY <2>1, <2>2, AnnounceShape, FlagKept DEF LinkOK
  <1>3. CASE ClientDisconnects
    <2>1. /\ Announce(FALSE) /\ conn' = FALSE /\ mi' = "runs" /\ client' = "idle"
          /\ UNCHANGED <<cfg, showBox, peer, state>>
      BY <1>3 DEF ClientDisconnects
    <2>2. FlagsFollow
      BY <2>1, AnnounceShape DEF FlagsFollow
    <2> QED
      BY <2>1, <2>2, AnnounceShape, FlagKept DEF LinkOK
  <1>4. CASE ClientError
    <2>1. CASE /\ mi' = "boxClient" /\ client' = IF client = "up" THEN "up" ELSE "idle"
               /\ Quiet /\ UNCHANGED <<cfg, showBox, conn, peer>>
      <3>1. mi = "runs" /\ state' = state /\ client' \in {"idle", "up"}
        BY <1>4, <2>1 DEF ClientError
      <3>2. FlagsFollow
        BY <2>1, <3>1 DEF FlagsFollow, FlagInv, Quiet
      <3> QED
        BY <2>1, <3>1, <3>2, FlagKept DEF LinkOK, Boxes, Quiet
    <2>2. CASE /\ cfg' = cfg /\ showBox' = TRUE
               /\ conn' = FALSE /\ client' = "idle" /\ peer' = "closed"
               /\ Announce(FALSE) /\ mi' = "runs"
      <3>1. FlagsFollow /\ state' = state
        BY <1>4, <2>2, AnnounceShape DEF FlagsFollow, ClientError
      <3> QED
        BY <2>2, <3>1, AnnounceShape, FlagKept DEF LinkOK
    <2> QED
      BY <1>4, <2>1, <2>2 DEF ClientError
  <1>5. CASE PeerConnects
    <2>1. /\ Announce(TRUE) /\ conn' = TRUE /\ mi = "runs" /\ mi' = mi /\ peer' = "joined"
          /\ UNCHANGED <<cfg, showBox, client, state>>
      BY <1>5 DEF PeerConnects
    <2>2. FlagsFollow
      BY <2>1, AnnounceShape DEF FlagsFollow
    <2> QED
      BY <2>1, <2>2, AnnounceShape, FlagKept DEF LinkOK
  <1>6. CASE PeerLeaves
    BY <1>6, SlotShape, FlagKept DEF PeerLeaves, LinkOK
  <1>7. CASE HandleExit
    <2>1. mi = "runs" /\ mi' = "ended" /\ UNCHANGED <<cfg, showBox, conn, client, peer, state, isConn, missed>>
      BY <1>7 DEF HandleExit, Takes, link, scriptVars, history
    <2> QED
      BY <2>1 DEF LinkOK, FlagInv
  <1>8. CASE CloseBox
    <2>1. CASE mi = "boxOpen" /\ mi' = "runs" /\ Announce(FALSE) /\ UNCHANGED link
      <3>1. UNCHANGED <<cfg, showBox, conn, client, peer, state>> /\ conn = FALSE
        BY <1>8, <2>1 DEF CloseBox, link, FlagInv, LinkOK
      <3>2. FlagsFollow
        BY <2>1, <3>1, AnnounceShape DEF FlagsFollow
      <3> QED
        BY <2>1, <3>1, <3>2, AnnounceShape, FlagKept DEF LinkOK
    <2>2. CASE mi = "boxListen" /\ mi' = "runs" /\ Quiet /\ UNCHANGED link
      <3>1. UNCHANGED <<cfg, showBox, conn, client, peer, state>>
        BY <1>8, <2>2 DEF CloseBox, link
      <3> QED
        BY <2>2, <3>1 DEF LinkOK, FlagInv, Quiet
    <2>3. CASE Disconnect(cfg, TRUE)
      <3>1. ConnectSlot(cfg, FALSE, TRUE) /\ state' = state /\ cfg \in Configs
        BY <1>8, <2>3 DEF CloseBox, ConnectSlot, LinkOK
      <3> QED
        BY <3>1, SlotShape, FlagKept
    <2> QED
      BY <1>8, <2>1, <2>2, <2>3 DEF CloseBox
  <1>9. ASSUME NEW s \in Scripts, Create(s) PROVE LinkOK' /\ FlagInv'
    <2>1. /\ UNCHANGED <<mi, cfg, showBox, conn, client, peer, missed>>
          /\ state' = [state EXCEPT ![s] = "created"]
          /\ isConn' = [isConn EXCEPT ![s] = conn]
      BY <1>9 DEF Create, link, history
    <2> QED
      BY <2>1 DEF LinkOK, RestOK, FlagInv, Known
  <1>10. ASSUME NEW s \in Scripts, InitSignals(s) \/ End(s) PROVE LinkOK' /\ FlagInv'
    <2>1. /\ UNCHANGED <<mi, cfg, showBox, conn, client, peer, missed, isConn>>
          /\ state[s] \in Known /\ \E q : state' = [state EXCEPT ![s] = q]
      BY <1>10 DEF InitSignals, End, Running, link, history, Known
    <2>2. \A t \in Scripts : state'[t] \in Known => state[t] \in Known
      BY <2>1 DEF RestOK
    <2> QED
      BY <2>1, <2>2, FlagSame DEF LinkOK
  <1>11. ASSUME UNCHANGED <<mi, cfg, showBox, conn, client, peer, missed, isConn, state>>
         PROVE  LinkOK' /\ FlagInv'
    BY <1>11 DEF LinkOK, FlagInv
  <1>12. CASE PressConnect \/ Close \/ Exit
    BY <1>11, <1>12 DEF PressConnect, Close, Exit, link, history, scriptVars
  <1>15. CASE HandleSend
    <2>1. state' = state /\ cfg \in Configs
      BY <1>15 DEF HandleSend, LinkOK
    <2>2. CASE OpenDevice(cfg, TRUE)
      <3>1. ConnectSlot(cfg, TRUE, TRUE)
        BY <2>2 DEF ConnectSlot
      <3> QED
        BY <2>1, <3>1, SlotShape, FlagKept
    <2>3. CASE UNCHANGED <<mi, cfg, showBox, conn, client, peer, isConn, missed>>
      BY <1>11, <2>1, <2>3
    <2> QED
      BY <1>15, <2>2, <2>3 DEF HandleSend, BeginSend, Restart, link
  <1>16. ASSUME NEW s \in Scripts, Terminate(s) PROVE LinkOK' /\ FlagInv'
    <2>1. /\ UNCHANGED <<mi, cfg, showBox, conn, client, peer>>
          /\ missed' = missed \ {s}
          /\ state' = [state EXCEPT ![s] = "terminated"]
          /\ isConn' = [isConn EXCEPT ![s] = FALSE]
      BY <1>16 DEF Terminate, link
    <2> QED
      BY <2>1 DEF LinkOK, RestOK, FlagInv, Known
  <1>13. ASSUME NEW s \in Scripts,
                SendEnds(s) \/ SetSettings(s) \/ Stop(s) \/ CallSend(s) \/ ScriptStep(s)
                \/ \E c \in Configs : CallConnect(s, c)
         PROVE  LinkOK' /\ FlagInv'
    BY <1>11, <1>13 DEF SendEnds, SetSettings, Stop, CallSend, ScriptStep, CallConnect, Repeat,
        RepeatedAll, ContinueSend, PostConnect, WaitEnds, Result, Return, link, history
  <1>14. CASE UNCHANGED vars
    BY <1>11, <1>14 DEF vars
  <1> QED
    BY <1>1, <1>2, <1>3, <1>4, <1>5, <1>6, <1>7, <1>8, <1>9, <1>10, <1>12, <1>13, <1>14,
       <1>15, <1>16
    DEF Next, MainStep
-----------------------------------------------------------------------------
(***************************************************************************)
(* Calls in progress.                                                      *)
(***************************************************************************)
\* Where a script stands in its innermost call
Pc(s) == IF Calling(s) THEN Top(s).pc ELSE "none"

Lower == {"gap", "wait"}

\* What is true of the counters and flags of a send; flag is m_sendingSucceeded.
FrameOk(f, flag) ==
    f.op = "send" =>
        /\ f.pc = "loop" => f.sent = f.tried /\ (f.ok <=> f.sent > 0)
        /\ f.pc \in {"sent", "failed"} => f.tried = f.sent + 1
        /\ f.pc = "answered" => f.tried = IF flag THEN f.sent ELSE f.sent + 1
        /\ f.pc = "answered" /\ flag => f.sent > 0
        /\ f.pc = "gap" => f.ok /\ f.sent = f.tried /\ f.sent > 0
        /\ f.pc = "return" => (f.ok <=> f.sent > 0 /\ f.sent = f.tried)

LocalInv(s) ==
    /\ \A i \in 1..(Len(stack[s]) - 1) : stack[s][i].pc \in Lower
    /\ \A i \in 1..Len(stack[s]) : FrameOk(stack[s][i], succeeded[s])

LEMMA FrameTypes ==
    ASSUME NEW f \in Frames
    PROVE  /\ f.op = "send" => f \in SendFrames /\ f.pc \in {"loop", "sent", "failed", "answered", "gap", "return"}
           /\ f.op = "connect" =>
                /\ f \in ConnectFrames
                /\ f.pc \in {"set", "order", "ordered", "wait", "restore", "withdraw",
                             "withdrawn", "result", "return"}
           /\ f.op \in {"send", "connect"}
           /\ f.pc \in {"loop", "sent", "failed", "answered", "gap"} => f.op = "send"
           /\ f.pc \in {"set", "order", "ordered", "wait", "restore", "withdraw",
                        "withdrawn", "result"} => f.op = "connect"
  BY DEF Frames, SendFrames, ConnectFrames

LEMMA TopIs ==
    ASSUME StackOK, NEW s \in Scripts, Calling(s)
    PROVE  /\ Len(stack[s]) \in Nat \ {0} /\ Top(s) = stack[s][Len(stack[s])] /\ Top(s) \in Frames
           /\ Pc(s) = Top(s).pc
  <1>1. stack[s] \in Seq(Frames) /\ stack[s] # <<>>
    BY DEF StackOK, Calling
  <1>2. Len(stack[s]) \in Nat \ {0}
    BY <1>1, EmptySeq, LenProperties
  <1> QED
    BY <1>1, <1>2, ElementOfSeq DEF Top, Pc

\* The innermost call goes on.
LEMMA TopShape ==
    ASSUME StackOK, NEW s \in Scripts, Calling(s), NEW f \in Frames, stack' = SetTop(s, f)
    PROVE  /\ StackOK' /\ Calling(s)' /\ Top(s)' = f /\ Pc(s)' = f.pc
           /\ Len(stack'[s]) = Len(stack[s]) /\ stack'[s][Len(stack[s])] = f
           /\ \A i \in 1..(Len(stack[s]) - 1) : stack'[s][i] = stack[s][i]
           /\ \A t \in Scripts : t # s => stack'[t] = stack[t]
           /\ \A t \in Scripts : t # s => Pc(t)' = Pc(t)
  <1> DEFINE q == stack[s]
             n == Len(q)
             r == [q EXCEPT ![n] = f]
  <1>1. q \in Seq(Frames) /\ n \in Nat \ {0}
    BY TopIs DEF StackOK
  <1>2. n \in 1..n
    BY <1>1
  <1>3. r \in Seq(Frames) /\ Len(r) = n /\ \A i \in 1..n : r[i] = IF i = n THEN f ELSE q[i]
    BY <1>1, <1>2, ExceptSeq
  <1>4. stack' = [stack EXCEPT ![s] = r]
    BY DEF SetTop
  <1> HIDE DEF r
  <1>5. stack'[s] = r /\ \A t \in Scripts : t # s => stack'[t] = stack[t]
    BY <1>4 DEF StackOK
  <1>6. StackOK'
    BY <1>3, <1>4 DEF StackOK
  <1>7. r # <<>>
    BY <1>1, <1>3, EmptySeq
  <1>8. r[Len(r)] = f
    BY <1>2, <1>3
  <1>9. Calling(s)' /\ Top(s)' = f
    BY <1>5, <1>7, <1>8 DEF Calling, Top
  <1>10. \A t \in Scripts : t # s => Pc(t)' = Pc(t)
    BY <1>5 DEF Pc, Calling, Top
  <1>11. \A i \in 1..(n - 1) : i \in 1..n /\ i # n
    BY <1>1
  <1>12. Pc(s)' = f.pc
    BY <1>9 DEF Pc
  <1> QED
    BY <1>2, <1>3, <1>5, <1>6, <1>9, <1>10, <1>11, <1>12

\* It does, or its script has been terminated.
LEMMA TopOrNone ==
    ASSUME StackOK, NEW s \in Scripts, Calling(s), NEW f \in Frames, stack' = WithTop(s, f)
    PROVE  /\ StackOK' /\ (Calling(s)' => Top(s)' = f) /\ Pc(s)' \in {f.pc, "none"}
           /\ Running(s) \/ stack'[s] = <<>>
           /\ \A t \in Scripts : t # s => stack'[t] = stack[t]
           /\ \A t \in Scripts : t # s => Pc(t)' = Pc(t)
  <1>1. CASE Running(s)
    <2>1. stack' = SetTop(s, f)
      BY <1>1 DEF WithTop
    <2> QED
      BY <1>1, <2>1, TopShape
  <1>2. CASE ~Running(s)
    <2>1. stack' = [stack EXCEPT ![s] = <<>>]
      BY <1>2 DEF WithTop
    <2>2. StackOK' /\ stack'[s] = <<>> /\ \A t \in Scripts : t # s => stack'[t] = stack[t]
      BY <2>1, EmptySeq DEF StackOK
    <2>3. ~Calling(s)' /\ Pc(s)' = "none"
      BY <2>2 DEF Calling, Pc
    <2>4. \A t \in Scripts : t # s => Pc(t)' = Pc(t)
      BY <2>2 DEF Pc, Calling, Top
    <2> QED
      BY <2>2, <2>3, <2>4
  <1> QED
    BY <1>1, <1>2

\* A call begins.
LEMMA PushShape ==
    ASSUME StackOK, NEW s \in Scripts, NEW f \in Frames,
           stack' = [stack EXCEPT ![s] = Append(@, f)]
    PROVE  /\ StackOK' /\ Calling(s)' /\ Top(s)' = f /\ Pc(s)' = f.pc
           /\ Len(stack[s]) \in Nat
           /\ Len(stack'[s]) = Len(stack[s]) + 1 /\ stack'[s][Len(stack[s]) + 1] = f
           /\ \A i \in 1..Len(stack[s]) : stack'[s][i] = stack[s][i]
           /\ \A t \in Scripts : t # s => stack'[t] = stack[t]
           /\ \A t \in Scripts : t # s => Pc(t)' = Pc(t)
  <1> DEFINE q == stack[s]
             r == Append(q, f)
  <1>1. q \in Seq(Frames) /\ Len(q) \in Nat
    BY LenProperties DEF StackOK
  <1>2. /\ r \in Seq(Frames) /\ Len(r) = Len(q) + 1 /\ r[Len(q) + 1] = f
        /\ \A i \in 1..Len(q) : r[i] = q[i]
    BY <1>1, AppendProperties
  <1>3. stack' = [stack EXCEPT ![s] = r]
    OBVIOUS
  <1> HIDE DEF r
  <1>4. stack'[s] = r /\ \A t \in Scripts : t # s => stack'[t] = stack[t]
    BY <1>3 DEF StackOK
  <1>5. StackOK'
    BY <1>2, <1>3 DEF StackOK
  <1>6. r # <<>>
    BY <1>1, <1>2, EmptySeq
  <1>7. Calling(s)' /\ Top(s)' = f
    BY <1>2, <1>4, <1>6 DEF Calling, Top
  <1>8. \A t \in Scripts : t # s => Pc(t)' = Pc(t)
    BY <1>4 DEF Pc, Calling, Top
  <1>9. Pc(s)' = f.pc
    BY <1>7 DEF Pc
  <1> QED
    BY <1>1, <1>2, <1>4, <1>5, <1>7, <1>8, <1>9

\* A call returns.
LEMMA PopShape ==
    ASSUME StackOK, NEW s \in Scripts, Calling(s),
           stack' = [stack EXCEPT ![s] = SubSeq(@, 1, Len(@) - 1)]
    PROVE  /\ StackOK' /\ Len(stack'[s]) = Len(stack[s]) - 1
           /\ \A i \in 1..(Len(stack[s]) - 1) : stack'[s][i] = stack[s][i]
           /\ \A t \in Scripts : t # s => stack'[t] = stack[t]
           /\ \A t \in Scripts : t # s => Pc(t)' = Pc(t)
           /\ Calling(s)' => Len(stack[s]) - 1 \in 1..(Len(stack[s]) - 1)
                             /\ Top(s)' = stack[s][Len(stack[s]) - 1]
  <1> DEFINE q == stack[s]
             n == Len(q)
             r == SubSeq(q, 1, n - 1)
  <1>1. q \in Seq(Frames) /\ n \in Nat \ {0} /\ \A i \in 1..n : q[i] \in Frames
    BY TopIs, ElementOfSeq DEF StackOK
  <1>2. r \in Seq(Frames) /\ Len(r) = n - 1 /\ \A i \in 1..(n - 1) : r[i] = q[i]
    <2> HIDE DEF q, n
    <2>1. 1 \in Int /\ n - 1 \in Int /\ \A i \in 1..(n - 1) : q[i] \in Frames
      BY <1>1
    <2>2. /\ r \in Seq(Frames)
          /\ Len(r) = IF 1 <= n - 1 THEN n - 1 - 1 + 1 ELSE 0
          /\ \A i \in 1..(n - 1 - 1 + 1) : r[i] = q[1 + i - 1]
      BY <1>1, <2>1, SubSeqProperties DEF n
    <2> QED
      BY <1>1, <2>2
  <1>3. stack' = [stack EXCEPT ![s] = r]
    OBVIOUS
  <1> HIDE DEF r
  <1>4. stack'[s] = r /\ \A t \in Scripts : t # s => stack'[t] = stack[t]
    BY <1>3 DEF StackOK
  <1>5. StackOK'
    BY <1>2, <1>3 DEF StackOK
  <1>6. \A t \in Scripts : t # s => Pc(t)' = Pc(t)
    BY <1>4 DEF Pc, Calling, Top
  <1>7. r # <<>> => n - 1 \in 1..(n - 1)
    BY <1>1, <1>2, EmptySeq
  <1>8. Calling(s)' => r # <<>> /\ Top(s)' = r[Len(r)]
    BY <1>4 DEF Calling, Top
  <1> QED
    BY <1>2, <1>4, <1>5, <1>6, <1>7, <1>8
LocalAll == \A s \in Scripts : LocalInv(s)

LEMMA LowerOk == ASSUME NEW f, f.pc \in Lower, NEW a, NEW b, FrameOk(f, a) PROVE FrameOk(f, b)
  BY DEF FrameOk, Lower

\* A step of the innermost call of s, or none
LEMMA LocalSet ==
    ASSUME StackOK, LocalAll, NEW s \in Scripts, Calling(s), NEW f \in Frames,
           stack' = SetTop(s, f), FrameOk(f, succeeded'[s]),
           \A t \in Scripts : t # s => succeeded'[t] = succeeded[t]
    PROVE  LocalAll'
  <1>1. /\ Len(stack'[s]) = Len(stack[s]) /\ stack'[s][Len(stack[s])] = f
        /\ \A i \in 1..(Len(stack[s]) - 1) : stack'[s][i] = stack[s][i]
        /\ \A t \in Scripts : t # s => stack'[t] = stack[t]
        /\ Len(stack[s]) \in Nat \ {0}
    BY TopShape, TopIs
  <1> SUFFICES ASSUME NEW t \in Scripts PROVE LocalInv(t)'
    BY DEF LocalAll
  <1>2. CASE t # s
    BY <1>1, <1>2 DEF LocalAll, LocalInv, Calling
  <1>3. ASSUME t = s PROVE LocalInv(s)'
    <2>1. \A i \in 1..(Len(stack[s]) - 1) :
              stack[s][i].pc \in Lower /\ FrameOk(stack[s][i], succeeded[s])
      BY <1>1 DEF LocalAll, LocalInv
    <2>2. \A i \in 1..(Len(stack[s]) - 1) : FrameOk(stack'[s][i], succeeded'[s])
      BY <1>1, <2>1, LowerOk
    <2>3. \A i \in 1..Len(stack'[s]) : i \in 1..(Len(stack[s]) - 1) \/ i = Len(stack[s])
      BY <1>1
    <2> QED
      BY <1>1, <2>1, <2>2, <2>3 DEF LocalAll, LocalInv
  <1> QED
    BY <1>2, <1>3

\* What is left of a terminated script
LEMMA LocalLeft ==
    ASSUME LocalAll, NEW s \in Scripts, NEW f,
           stack'[s] = <<>> \/ (stack'[s] = <<f>> /\ FrameOk(f, succeeded'[s])),
           \A t \in Scripts : t # s => stack'[t] = stack[t] /\ succeeded'[t] = succeeded[t]
    PROVE  LocalAll'
  <1>1. \A t \in Scripts : t # s => LocalInv(t)'
    BY DEF LocalAll, LocalInv
  <1>2. CASE stack'[s] = <<>>
    <2>1. Len(stack'[s]) = 0
      BY <1>2, EmptySeq
    <2> QED
      BY <1>1, <2>1 DEF LocalAll, LocalInv
  <1>3. CASE stack'[s] = <<f>> /\ FrameOk(f, succeeded'[s])
    <2>1. Len(stack'[s]) = 1 /\ stack'[s][1] = f
      BY <1>3
    <2>2. /\ \A i \in 1..(Len(stack'[s]) - 1) : stack'[s][i].pc \in Lower
          /\ \A i \in 1..Len(stack'[s]) : i = 1
      BY <2>1
    <2>3. LocalInv(s)'
      BY <1>3, <2>1, <2>2 DEF LocalInv
    <2> QED
      BY <1>1, <2>3 DEF LocalAll
  <1> QED
    BY <1>2, <1>3

LEMMA LocalTop ==
    ASSUME StackOK, LocalAll, NEW s \in Scripts, Calling(s), NEW f \in Frames,
           stack' = WithTop(s, f), FrameOk(f, succeeded'[s]),
           \A t \in Scripts : t # s => succeeded'[t] = succeeded[t]
    PROVE  LocalAll'
  <1>1. CASE Running(s)
    BY <1>1, LocalSet DEF WithTop
  <1>2. CASE ~Running(s)
    <2>1. stack'[s] = <<>> /\ \A t \in Scripts : t # s => stack'[t] = stack[t]
      BY <1>2, TopOrNone
    <2> QED
      BY <2>1, LocalLeft
  <1> QED
    BY <1>1, <1>2

LEMMA LocalPush ==
    ASSUME StackOK, LocalAll, NEW s \in Scripts, NEW f \in Frames,
           stack' = [stack EXCEPT ![s] = Append(@, f)],
           f.pc \in {"set"} \/ (f.pc = "loop" /\ f.tried = 0 /\ f.sent = 0 /\ ~f.ok),
           MayCall(s), UNCHANGED succeeded
    PROVE  LocalAll'
  <1>1. /\ Len(stack[s]) \in Nat
        /\ Len(stack'[s]) = Len(stack[s]) + 1 /\ stack'[s][Len(stack[s]) + 1] = f
        /\ \A i \in 1..Len(stack[s]) : stack'[s][i] = stack[s][i]
        /\ \A t \in Scripts : t # s => stack'[t] = stack[t]
    BY PushShape
  <1>2. FrameOk(f, succeeded[s])
    BY FrameTypes DEF FrameOk
  <1>3. \A i \in 1..Len(stack[s]) : stack[s][i].pc \in Lower
    <2>1. CASE Calling(s)
      <3>1. \A i \in 1..Len(stack[s]) : i \in 1..(Len(stack[s]) - 1) \/ i = Len(stack[s])
        BY <1>1
      <3> QED
        BY <2>1, <3>1 DEF LocalAll, LocalInv, MayCall, Top, Lower
    <2>2. CASE ~Calling(s)
      BY <2>2, EmptySeq DEF Calling
    <2> QED
      BY <2>1, <2>2
  <1> SUFFICES ASSUME NEW t \in Scripts PROVE LocalInv(t)'
    BY DEF LocalAll
  <1>4. CASE t # s
    BY <1>1, <1>4 DEF LocalAll, LocalInv, Calling
  <1>5. ASSUME t = s PROVE LocalInv(s)'
    <2>1. \A i \in 1..Len(stack'[s]) : i \in 1..Len(stack[s]) \/ i = Len(stack[s]) + 1
      BY <1>1
    <2>2. \A i \in 1..(Len(stack'[s]) - 1) : i \in 1..Len(stack[s])
      BY <1>1
    <2> QED
      BY <1>1, <1>2, <1>3, <2>1, <2>2 DEF LocalAll, LocalInv, MayCall
  <1> QED
    BY <1>4, <1>5

LEMMA LocalPop ==
    ASSUME StackOK, LocalAll, NEW s \in Scripts, Calling(s),
           stack' = [stack EXCEPT ![s] = SubSeq(@, 1, Len(@) - 1)],
           UNCHANGED succeeded
    PROVE  LocalAll' /\ Pc(s)' \in Lower \cup {"none"}
  <1>1. /\ Len(stack'[s]) = Len(stack[s]) - 1
        /\ \A i \in 1..(Len(stack[s]) - 1) : stack'[s][i] = stack[s][i]
        /\ \A t \in Scripts : t # s => stack'[t] = stack[t]
        /\ Calling(s)' => Len(stack[s]) - 1 \in 1..(Len(stack[s]) - 1)
                             /\ Top(s)' = stack[s][Len(stack[s]) - 1]
        /\ Len(stack[s]) \in Nat \ {0}
    BY PopShape, TopIs
  <1>2. Pc(s)' \in Lower \cup {"none"}
    BY <1>1 DEF Pc, LocalAll, LocalInv
  <1>3. \A t \in Scripts : t # s => LocalInv(t)'
    BY <1>1 DEF LocalAll, LocalInv, Calling
  <1>4. LocalInv(s)'
    <2>1. \A i \in 1..(Len(stack[s]) - 1) : i \in 1..Len(stack[s])
      BY <1>1
    <2>2. \A i \in 1..(Len(stack'[s]) - 1) : i \in 1..(Len(stack[s]) - 1)
      BY <1>1
    <2> QED
      BY <1>1, <2>1, <2>2 DEF LocalAll, LocalInv
  <1> QED
    BY <1>2, <1>3, <1>4 DEF LocalAll

LEMMA LocalSame ==
    ASSUME LocalAll, UNCHANGED <<stack, succeeded>>
    PROVE  LocalAll' /\ \A s \in Scripts : Pc(s)' = Pc(s)
  BY DEF LocalAll, LocalInv, Calling, Pc, Top
-----------------------------------------------------------------------------
(***************************************************************************)
(* Orders.                                                                 *)
(***************************************************************************)
Posted(s) == \E i \in 1..Len(inbox) : inbox[i].from = s

\* Where a call waits for an order still in the queue
Queued == {"sent", "ordered", "withdrawn"}

\* Each script has at most one order, and awaits it.
QueueInv ==
    /\ \A i \in 1..Len(inbox) :
        inbox[i].from # Gui => /\ Pc(inbox[i].from) \in Queued
                               /\ inbox[i].kind = "send" <=> Pc(inbox[i].from) = "sent"
    /\ \A i, j \in 1..Len(inbox) :
        inbox[i].from # Gui /\ inbox[i].from = inbox[j].from => i = j
    /\ \A s \in sending : Pc(s) \in {"sent", "failed"} /\ ~Posted(s)
    /\ \A s \in Scripts : Pc(s) \in MainWaits => s \in sending \/ Posted(s)

\* The main interface thread ends after the scripts.
ExitInv ==
    /\ gui \in {"exiting", "closed"} => \A s \in Scripts : state[s] \in {"new", "ended", "terminated"}
    /\ mi = "ended" => gui = "closed"
    /\ \A i \in 1..Len(inbox) : inbox[i].kind = "exit" => gui \in {"exiting", "closed"}

LEMMA InboxTypes ==
    ASSUME RestOK
    PROVE  \A i \in 1..Len(inbox) :
               /\ inbox[i] \in Orders
               /\ inbox[i].from # Gui => inbox[i].from \in Scripts
  BY ElementOfSeq, OrderTypes DEF RestOK

LEMMA QueueSame ==
    ASSUME QueueInv, RestOK, UNCHANGED <<inbox, sending>>,
           \A s \in Scripts : Pc(s)' = Pc(s) \/ (Pc(s) \notin MainWaits /\ Pc(s)' \notin MainWaits)
    PROVE  QueueInv'
  <1>1. \A s : Posted(s)' = Posted(s)
    BY DEF Posted
  <1>2. \A s \in Scripts : Pc(s)' \in MainWaits \/ Pc(s) \in MainWaits => Pc(s)' = Pc(s)
    OBVIOUS
  <1>3. sending \subseteq Scripts /\ \A s \in sending : Pc(s) \in MainWaits
    BY DEF RestOK, QueueInv, MainWaits
  <1>4. \A i \in 1..Len(inbox) :
            inbox[i].from # Gui => inbox[i].from \in Scripts /\ Pc(inbox[i].from)' = Pc(inbox[i].from)
    BY <1>2, InboxTypes DEF QueueInv, Queued, MainWaits
  <1> QED
    BY <1>1, <1>2, <1>3, <1>4 DEF QueueInv
\* QueueInv, for one script at a time
QueueOf(s) ==
    /\ \A i \in 1..Len(inbox) :
        inbox[i].from = s => /\ Pc(s) \in Queued
                             /\ inbox[i].kind = "send" <=> Pc(s) = "sent"
    /\ \A i, j \in 1..Len(inbox) : inbox[i].from = s /\ inbox[j].from = s => i = j
    /\ s \in sending => Pc(s) \in {"sent", "failed"} /\ ~Posted(s)
    /\ Pc(s) \in MainWaits => s \in sending \/ Posted(s)

LEMMA QueueByScript ==
    ASSUME RestOK PROVE QueueInv <=> \A s \in Scripts : QueueOf(s)
  <1>1. ASSUME QueueInv PROVE \A s \in Scripts : QueueOf(s)
    BY <1>1, InfAssumption DEF QueueInv, QueueOf
  <1>2. ASSUME \A s \in Scripts : QueueOf(s) PROVE QueueInv
    BY <1>2, InboxTypes DEF QueueInv, QueueOf, RestOK
  <1> QED
    BY <1>1, <1>2

LEMMA QueueByScriptNext ==
    ASSUME RestOK', \A s \in Scripts : QueueOf(s)' PROVE QueueInv'
  <1>1. \A i \in 1..Len(inbox') :
               /\ inbox'[i] \in Orders
               /\ inbox'[i].from # Gui => inbox'[i].from \in Scripts
    BY ElementOfSeq, OrderTypes DEF RestOK
  <1> QED
    BY <1>1 DEF QueueInv, QueueOf, RestOK

\* An order is posted, by s or by the GUI.
LEMMA QueueAppend ==
    ASSUME QueueInv, RestOK, RestOK', NEW o \in Orders, inbox' = Append(inbox, o), sending' = sending,
           o.from # Gui => /\ Pc(o.from) \notin MainWaits /\ Pc(o.from)' \in Queued
                           /\ o.kind = "send" <=> Pc(o.from)' = "sent",
           \A s \in Scripts : s # o.from => Pc(s)' = Pc(s)
    PROVE  QueueInv'
  <1> DEFINE n == Len(inbox)
  <1>1. /\ n \in Nat /\ Len(inbox') = n + 1 /\ inbox'[n + 1] = o
        /\ \A i \in 1..n : inbox'[i] = inbox[i]
        /\ \A i \in 1..(n + 1) : i \in 1..n \/ i = n + 1
        /\ n + 1 \in 1..(n + 1) /\ \A i \in 1..n : i \in 1..(n + 1)
    <2>1. /\ n \in Nat /\ Len(inbox') = n + 1 /\ inbox'[n + 1] = o
          /\ \A i \in 1..n : inbox'[i] = inbox[i]
      BY AppendProperties, LenProperties DEF RestOK
    <2> QED
      BY <2>1
  <1> HIDE DEF n
  <1> SUFFICES ASSUME NEW s \in Scripts PROVE QueueOf(s)'
    BY QueueByScriptNext
  <1>2. QueueOf(s) /\ s # Gui
    BY QueueByScript, InfAssumption
  <1>3. CASE o.from = s
    <2>1. Pc(s) \notin MainWaits /\ Pc(s)' \in Queued /\ (o.kind = "send" <=> Pc(s)' = "sent")
      BY <1>2, <1>3
    <2>2. s \notin sending /\ \A i \in 1..n : inbox[i].from # s
      BY <1>2, <2>1 DEF QueueOf, Queued, MainWaits, n
    <2>3. Posted(s)'
      BY <1>1, <1>3 DEF Posted
    <2> QED
      BY <1>1, <1>3, <2>1, <2>2, <2>3 DEF QueueOf
  <1>4. CASE o.from # s
    <2>1. Pc(s)' = Pc(s)
      BY <1>4
    <2>2. Posted(s)' <=> Posted(s)
      BY <1>1, <1>4 DEF Posted, n
    <2> QED
      BY <1>1, <1>2, <1>4, <2>1, <2>2 DEF QueueOf, n
  <1> QED
    BY <1>3, <1>4

\* The first order is handled: it is the GUI's, or its script need not wait
\* any more, or its data are being sent now.
LEMMA QueueTail ==
    ASSUME QueueInv, RestOK, RestOK', inbox # <<>>, inbox' = Tail(inbox), NEW o, o = Head(inbox),
           \/ sending' = sending /\ (o.from # Gui => Pc(o.from)' \notin MainWaits)
           \/ /\ o.kind = "send" /\ sending' = sending \cup {o.from}
              /\ Pc(o.from)' \in {"sent", "failed"},
           \A s \in Scripts : s # o.from => Pc(s)' = Pc(s)
    PROVE  QueueInv'
  <1> DEFINE n == Len(inbox)
  <1>1. /\ n \in Nat \ {0} /\ Len(inbox') = n - 1 /\ inbox[1] = o
        /\ \A i \in 1..(n - 1) : inbox'[i] = inbox[i + 1]
        /\ o \in Orders
    BY HeadOrder DEF RestOK
  <1>2. /\ \A i \in 1..(n - 1) : i + 1 \in 1..n /\ i + 1 # 1
        /\ \A i, j \in 1..(n - 1) : i + 1 = j + 1 => i = j
        /\ 1 \in 1..n /\ \A i \in 1..n : i # 1 => i - 1 \in 1..(n - 1) /\ i - 1 + 1 = i
    BY <1>1
  <1> HIDE DEF n
  <1> SUFFICES ASSUME NEW s \in Scripts PROVE QueueOf(s)'
    BY QueueByScriptNext
  <1>3. QueueOf(s) /\ s # Gui
    BY QueueByScript, InfAssumption
  <1>4. CASE o.from = s
    <2>1. \A i \in 1..(n - 1) : inbox'[i].from # s
      BY <1>1, <1>2, <1>3, <1>4 DEF QueueOf, n
    <2>2. ~Posted(s)'
      BY <1>1, <2>1 DEF Posted
    <2>3. s \notin sending /\ (o.kind = "send" => Pc(s) = "sent")
      BY <1>1, <1>2, <1>3, <1>4 DEF QueueOf, Posted, n
    <2>4. CASE sending' = sending /\ Pc(s)' \notin MainWaits
      BY <1>1, <2>1, <2>2, <2>3, <2>4 DEF QueueOf
    <2>5. CASE o.kind = "send" /\ sending' = sending \cup {s} /\ Pc(s)' \in {"sent", "failed"}
      BY <1>1, <2>1, <2>2, <2>3, <2>5 DEF QueueOf
    <2> QED
      BY <1>3, <1>4, <2>4, <2>5
  <1>5. CASE o.from # s
    <2>1. Pc(s)' = Pc(s) /\ (s \in sending' <=> s \in sending)
      BY <1>5
    <2>2. Posted(s)' <=> Posted(s)
      <3>1. ASSUME Posted(s) PROVE Posted(s)'
        <4>1. PICK i \in 1..n : inbox[i].from = s
          BY <3>1 DEF Posted, n
        <4>2. i # 1
          BY <1>1, <1>5, <4>1
        <4>3. i - 1 \in 1..(n - 1) /\ inbox'[i - 1] = inbox[i]
          BY <1>1, <1>2, <4>2
        <4>4. i - 1 \in 1..Len(inbox') /\ inbox'[i - 1].from = s
          BY <1>1, <4>1, <4>3
        <4> QED
          BY <4>4 DEF Posted
      <3>2. ASSUME Posted(s)' PROVE Posted(s)
        BY <1>1, <1>2, <3>2 DEF Posted, n
      <3> QED
        BY <3>1, <3>2
    <2>3. \A i \in 1..(n - 1) : inbox'[i].from = s =>
              Pc(s) \in Queued /\ (inbox'[i].kind = "send" <=> Pc(s) = "sent")
      BY <1>1, <1>2, <1>3 DEF QueueOf, n
    <2>4. \A i, j \in 1..(n - 1) : inbox'[i].from = s /\ inbox'[j].from = s => i = j
      BY <1>1, <1>2, <1>3 DEF QueueOf, n
    <2> QED
      BY <1>1, <1>3, <2>1, <2>2, <2>3, <2>4 DEF QueueOf
  <1> QED
    BY <1>4, <1>5

\* The data of s have been sent.
LEMMA QueueSent ==
    ASSUME QueueInv, RestOK, RestOK', NEW s \in Scripts, s \in sending, sending' = sending \ {s},
           inbox' = inbox, Pc(s)' \notin MainWaits,
           \A t \in Scripts : t # s => Pc(t)' = Pc(t)
    PROVE  QueueInv'
  <1> SUFFICES ASSUME NEW t \in Scripts PROVE QueueOf(t)'
    BY QueueByScriptNext
  <1>1. QueueOf(t)
    BY QueueByScript
  <1>2. Posted(t)' <=> Posted(t)
    BY DEF Posted
  <1>3. CASE t = s
    <2>1. ~Posted(s) /\ Pc(s)' \notin MainWaits
      BY <1>1, <1>3 DEF QueueOf
    <2>2. \A i \in 1..Len(inbox') : inbox'[i].from # s
      BY <2>1 DEF Posted
    <2> QED
      BY <1>2, <1>3, <2>1, <2>2 DEF QueueOf
  <1>4. CASE t # s
    BY <1>1, <1>2, <1>4 DEF QueueOf
  <1> QED
    BY <1>3, <1>4

LEMMA ExitKept ==
    ASSUME ExitInv, UNCHANGED <<gui, state>>, mi' = "ended" => mi = "ended",
           \A i \in 1..Len(inbox') :
               inbox'[i].kind = "exit" => \E j \in 1..Len(inbox) : inbox[j].kind = "exit"
    PROVE  ExitInv'
  BY DEF ExitInv

LEMMA AppendOrders ==
    ASSUME RestOK, NEW o \in Orders, inbox' = Append(inbox, o)
    PROVE  /\ inbox' \in Seq(Orders)
           /\ o.kind # "exit" =>
                \A i \in 1..Len(inbox') :
                    inbox'[i].kind = "exit" => \E j \in 1..Len(inbox) : inbox[j].kind = "exit"
  <1>1. /\ inbox' \in Seq(Orders) /\ Len(inbox) \in Nat /\ Len(inbox') = Len(inbox) + 1
        /\ inbox'[Len(inbox) + 1] = o
        /\ \A i \in 1..Len(inbox) : inbox'[i] = inbox[i]
    BY AppendProperties, LenProperties DEF RestOK
  <1>2. \A i \in 1..Len(inbox') : i \in 1..Len(inbox) \/ i = Len(inbox) + 1
    BY <1>1
  <1> QED
    BY <1>1, <1>2

LEMMA TailOrders ==
    ASSUME RestOK, inbox # <<>>, inbox' = Tail(inbox)
    PROVE  /\ inbox' \in Seq(Orders) /\ Head(inbox) \in Orders
           /\ 1 \in 1..Len(inbox) /\ inbox[1] = Head(inbox)
           /\ \A i \in 1..Len(inbox') :
                    inbox'[i].kind = "exit" => \E j \in 1..Len(inbox) : inbox[j].kind = "exit"
  <1>1. /\ Head(inbox) \in Orders /\ Head(inbox) = inbox[1] /\ inbox' \in Seq(Orders)
        /\ Len(inbox) \in Nat \ {0} /\ Len(inbox') = Len(inbox) - 1
        /\ \A i \in 1..(Len(inbox) - 1) : inbox'[i] = inbox[i + 1]
    BY HeadOrder DEF RestOK
  <1>2. 1 \in 1..Len(inbox) /\ \A i \in 1..(Len(inbox) - 1) : i + 1 \in 1..Len(inbox)
    BY <1>1
  <1> QED
    BY <1>1, <1>2

ConnectPcs == {"set", "order", "ordered", "wait", "restore", "withdraw", "withdrawn", "result",
               "return"}

LEMMA ConnectGoes ==
    ASSUME NEW f \in ConnectFrames, NEW pc \in ConnectPcs
    PROVE  LET g == [f EXCEPT !.pc = pc] IN
           /\ g \in ConnectFrames /\ g \in Frames /\ g.pc = pc /\ g.op = "connect"
           /\ g.new = f.new /\ g.old = f.old /\ g.gaveUp = f.gaveUp
           /\ \A flag : FrameOk(g, flag)
  BY DEF ConnectFrames, Frames, FrameOk, ConnectPcs

StackInv == LocalAll /\ QueueInv /\ ExitInv

\* While a script runs, the program is not about to end.
LEMMA RunnerGoesOn ==
    ASSUME StackInv, NEW s \in Scripts, Running(s)
    PROVE  gui \notin {"exiting", "closed"} /\ mi # "ended"
  BY DEF StackInv, ExitInv, Running

LEMMA PcIs ==
    ASSUME StackOK, NEW s \in Scripts, Pc(s) # "none"
    PROVE  Calling(s) /\ Top(s) \in Frames /\ Pc(s) = Top(s).pc
  <1>1. Calling(s)
    BY DEF Pc
  <1> QED
    BY <1>1, TopIs

LEMMA HandleConnectCalls ==
    ASSUME TypeOK, StackInv, HandleConnect PROVE RestOK' /\ StackOK' /\ StackInv'
  <1> USE DEF StackInv
  <1>1. LinkOK /\ RestOK /\ StackOK
    BY TypeParts
  <1>2. PICK o \in Orders : o = Head(inbox)
    BY <1>1, HeadOrder DEF HandleConnect, Takes, RestOK
  <1>3. /\ inbox # <<>> /\ inbox' = Tail(inbox) /\ o.kind = "connect"
        /\ ConnectSlot(o.conf, o.on, o.box)
        /\ UNCHANGED <<gui, settings, sending, state, shallExit, succeeded, calls, mixed>>
        /\ mi = "runs"
    BY <1>2 DEF HandleConnect, Takes, Consume, guiVars
  <1>4. mi' # "ended"
    BY <1>1, <1>3, OrderTypes, SlotShape DEF Boxes
  <1>5. RestOK'
    BY <1>1, <1>3, TailOrders DEF RestOK
  <1>6. ExitInv'
    BY <1>1, <1>3, <1>4, TailOrders, ExitKept
  <1>7. CASE o.from = Gui
    <2>1. stack' = stack
      BY <1>2, <1>7 DEF HandleConnect
    <2>2. LocalAll' /\ \A s \in Scripts : Pc(s)' = Pc(s)
      BY <1>3, <2>1, LocalSame
    <2>3. QueueInv'
      BY <1>1, <1>2, <1>3, <1>5, <1>7, <2>2, QueueTail
    <2> QED
      BY <1>1, <1>5, <1>6, <2>1, <2>2, <2>3 DEF StackOK
  <1>8. CASE o.from # Gui
    <2>1. PICK s \in Scripts : s = o.from
      BY <1>8, OrderTypes
    <2>2. Pc(s) \in Queued /\ Pc(s) # "sent"
      BY <1>1, <1>2, <1>3, <1>8, <2>1, TailOrders DEF QueueInv
    <2>3. Calling(s) /\ Top(s) \in ConnectFrames
      BY <1>1, <2>2, PcIs, FrameTypes DEF Queued
    <2>4. PICK pc \in {"wait", "result"} : stack' = WithTop(s, [Top(s) EXCEPT !.pc = pc])
      BY <1>2, <1>8, <2>1 DEF HandleConnect, Go
    <2> DEFINE f == [Top(s) EXCEPT !.pc = pc]
    <2>5. f \in Frames /\ f.pc = pc /\ \A flag : FrameOk(f, flag)
      <3>1. pc \in ConnectPcs
        BY DEF ConnectPcs
      <3> QED
        BY <2>3, <3>1, ConnectGoes
    <2>6. stack' = WithTop(s, f)
      BY <2>4
    <2> HIDE DEF f
    <2>7. StackOK' /\ Pc(s)' \in {pc, "none"} /\ \A t \in Scripts : t # s => Pc(t)' = Pc(t)
      BY <1>1, <2>3, <2>5, <2>6, TopOrNone
    <2>8. LocalAll'
      BY <1>1, <1>3, <2>3, <2>5, <2>6, LocalTop
    <2>9. QueueInv'
      BY <1>1, <1>2, <1>3, <1>5, <2>1, <2>7, QueueTail DEF MainWaits
    <2> QED
      BY <1>5, <1>6, <2>7, <2>8, <2>9
  <1> QED
    BY <1>7, <1>8

LEMMA SendTop ==
    ASSUME StackOK, LocalAll, NEW s \in Scripts, Calling(s), Top(s).op = "send"
    PROVE  /\ Top(s) \in SendFrames /\ FrameOk(Top(s), succeeded[s])
           /\ Top(s).tried \in 0..MaxRepeats /\ Top(s).sent \in 0..MaxRepeats
           /\ Top(s).want \in 0..MaxRepeats
  <1>1. /\ Len(stack[s]) \in Nat \ {0} /\ Top(s) = stack[s][Len(stack[s])] /\ Top(s) \in SendFrames
    BY TopIs, FrameTypes
  <1>2. Len(stack[s]) \in 1..Len(stack[s])
    BY <1>1
  <1>3. Top(s).tried \in 0..MaxRepeats /\ Top(s).sent \in 0..MaxRepeats /\ Top(s).want \in 0..MaxRepeats
    BY <1>1, InfAssumption DEF SendFrames
  <1> QED
    BY <1>1, <1>2, <1>3 DEF LocalAll, LocalInv

\* sendingFinishedSlot, of the script that is waiting for it
LEMMA AnswerShape ==
    ASSUME TypeOK, StackInv, NEW s \in Scripts, Pc(s) \in {"sent", "failed"}, NEW ok \in BOOLEAN,
           Answer(s, ok)
    PROVE  /\ succeeded' \in [Scripts -> BOOLEAN] /\ StackOK' /\ LocalAll'
           /\ Pc(s)' \notin MainWaits /\ \A t \in Scripts : t # s => Pc(t)' = Pc(t)
  <1> USE DEF StackInv
  <1>1. StackOK /\ RestOK
    BY TypeParts
  <1>2. succeeded' = [t \in Scripts |-> IF t = s THEN ok ELSE succeeded[t]]
    BY DEF Answer, Addressed
  <1>3. /\ succeeded' \in [Scripts -> BOOLEAN] /\ succeeded'[s] = ok
        /\ \A t \in Scripts : t # s => succeeded'[t] = succeeded[t]
    BY <1>1, <1>2 DEF RestOK
  <1>4. /\ Calling(s) /\ Top(s).op = "send" /\ Top(s).pc \in {"sent", "failed"}
    BY <1>1, PcIs, FrameTypes
  <1>5. /\ Top(s) \in SendFrames /\ FrameOk(Top(s), succeeded[s])
        /\ Top(s).tried \in 0..MaxRepeats /\ Top(s).sent \in 0..MaxRepeats
    BY <1>1, <1>4, SendTop
  <1>6. Top(s).tried = Top(s).sent + 1
    BY <1>4, <1>5 DEF FrameOk
  <1> DEFINE n == IF ok THEN Top(s).sent + 1 ELSE Top(s).sent
             f == [Top(s) EXCEPT !.pc = "answered", !.sent = n]
  <1>7. n \in 0..MaxRepeats
    BY <1>5, <1>6
  <1>8. stack' = WithTop(s, f)
    BY DEF Answer
  <1>9. f \in Frames /\ f.pc = "answered" /\ f.op = "send" /\ f.tried = Top(s).tried /\ f.sent = n
    <2>1. PICK g \in SendFrames : g = Top(s)
      BY <1>5
    <2>2. PICK m \in 0..MaxRepeats : m = n
      BY <1>7
    <2> HIDE DEF n
    <2>3. f = [g EXCEPT !.pc = "answered", !.sent = m]
      BY <2>1, <2>2
    <2> HIDE DEF f
    <2> QED
      BY <2>1, <2>2, <2>3 DEF SendFrames, Frames
  <1> HIDE DEF f
  <1>10. FrameOk(f, ok)
    BY <1>5, <1>6, <1>9 DEF FrameOk
  <1>11. StackOK' /\ Pc(s)' \notin MainWaits /\ \A t \in Scripts : t # s => Pc(t)' = Pc(t)
    BY <1>1, <1>4, <1>8, <1>9, TopOrNone DEF MainWaits
  <1>12. LocalAll'
    BY <1>1, <1>3, <1>4, <1>8, <1>9, <1>10, LocalTop
  <1> QED
    BY <1>3, <1>11, <1>12

\* The send that makes the interface restart
Failed(g) == [g EXCEPT !.pc = "failed"]

LEMMA GoesFailed ==
    ASSUME NEW g \in SendFrames
    PROVE  /\ Failed(g) \in Frames /\ Failed(g).op = "send" /\ Failed(g).pc = "failed"
           /\ Failed(g).tried = g.tried /\ Failed(g).sent = g.sent
  BY DEF SendFrames, Frames, Failed

LEMMA HandleSendCalls ==
    ASSUME TypeOK, StackInv, HandleSend PROVE RestOK' /\ StackOK' /\ StackInv'
  <1> USE DEF StackInv
  <1>1. LinkOK /\ RestOK /\ StackOK
    BY TypeParts
  <1>2. PICK o \in Orders : o = Head(inbox)
    BY <1>1, HeadOrder DEF HandleSend, Takes, RestOK
  <1>3. /\ inbox # <<>> /\ inbox' = Tail(inbox) /\ o.kind = "send"
        /\ UNCHANGED <<gui, settings, state, shallExit, calls, mixed>>
        /\ mi = "runs"
    BY <1>2 DEF HandleSend, Takes, Consume, guiVars
  <1>4. mi' # "ended"
    <2>1. ASSUME OpenDevice(cfg, TRUE) PROVE mi' # "ended"
      <3>1. ConnectSlot(cfg, TRUE, TRUE) /\ cfg \in Configs
        BY <1>1, <2>1 DEF ConnectSlot, LinkOK
      <3> QED
        BY <1>1, <3>1, SlotShape DEF Boxes
    <2> QED
      BY <1>3, <2>1 DEF HandleSend, BeginSend, Restart
  <1>5. ExitInv' /\ inbox' \in Seq(Orders)
    BY <1>1, <1>3, <1>4, TailOrders, ExitKept
  <1>6. PICK s \in Scripts : s = o.from
    BY <1>3, OrderTypes
  <1>7. s # Gui /\ Pc(s) = "sent"
    <2>1. s # Gui
      BY InfAssumption
    <2> QED
      BY <1>1, <1>2, <1>3, <1>6, <2>1, TailOrders DEF QueueInv
  <1>8. CASE BeginSend(s)
    <2>0. sending' = sending \cup {s} /\ UNCHANGED <<succeeded, stack>>
      BY <1>8 DEF BeginSend
    <2>1. RestOK'
      BY <1>1, <1>3, <1>5, <2>0 DEF RestOK
    <2>2. LocalAll' /\ \A t \in Scripts : Pc(t)' = Pc(t)
      BY <2>0, LocalSame
    <2>3. QueueInv'
      BY <1>1, <1>2, <1>3, <1>6, <1>7, <2>0, <2>1, <2>2, QueueTail
    <2> QED
      BY <1>1, <1>5, <2>0, <2>1, <2>2, <2>3 DEF StackOK
  <1>9. CASE Restart(s)
    <2>1. /\ sending' = sending \cup {s} /\ succeeded' = succeeded
          /\ stack' = SetTop(s, Failed(Top(s)))
      BY <1>9 DEF Restart, Failed
    <2>2. Calling(s) /\ Top(s).op = "send" /\ Top(s).pc = "sent"
      BY <1>1, <1>7, PcIs, FrameTypes
    <2>3. Top(s) \in SendFrames /\ FrameOk(Top(s), succeeded[s])
      BY <1>1, <2>2, SendTop
    <2>4. PICK f \in Frames : /\ f = Failed(Top(s)) /\ f.op = "send" /\ f.pc = "failed"
                              /\ f.tried = Top(s).tried /\ f.sent = Top(s).sent
      BY <2>3, GoesFailed
    <2>5. FrameOk(f, succeeded'[s])
      BY <2>2, <2>3, <2>4 DEF FrameOk
    <2>6. StackOK' /\ Pc(s)' = "failed" /\ \A t \in Scripts : t # s => Pc(t)' = Pc(t)
      BY <1>1, <2>1, <2>2, <2>4, TopShape
    <2>7. LocalAll'
      BY <1>1, <2>1, <2>2, <2>4, <2>5, LocalSet
    <2>8. RestOK'
      BY <1>1, <1>3, <1>5, <2>1 DEF RestOK
    <2>9. QueueInv'
      BY <1>1, <1>2, <1>3, <1>6, <2>1, <2>6, <2>8, QueueTail
    <2> QED
      BY <1>5, <2>6, <2>7, <2>8, <2>9
  <1>10. CASE Answer(s, FALSE) /\ sending' = sending
    <2>1. /\ succeeded' \in [Scripts -> BOOLEAN] /\ StackOK' /\ LocalAll'
          /\ Pc(s)' \notin MainWaits /\ \A t \in Scripts : t # s => Pc(t)' = Pc(t)
      BY <1>7, <1>10, AnswerShape
    <2>2. RestOK'
      BY <1>1, <1>3, <1>5, <1>10, <2>1 DEF RestOK
    <2>3. QueueInv'
      BY <1>1, <1>2, <1>3, <1>6, <1>10, <2>1, <2>2, QueueTail
    <2> QED
      BY <1>5, <2>1, <2>2, <2>3
  <1> QED
    BY <1>2, <1>6, <1>8, <1>9, <1>10 DEF HandleSend

LEMMA SendEndsCalls ==
    ASSUME TypeOK, StackInv, NEW s \in Scripts, SendEnds(s) PROVE RestOK' /\ StackOK' /\ StackInv'
  <1> USE DEF StackInv
  <1>1. LinkOK /\ RestOK /\ StackOK
    BY TypeParts
  <1>2. /\ s \in sending /\ sending' = sending \ {s}
        /\ UNCHANGED <<gui, settings, mi, inbox, state, shallExit, calls, mixed>>
    BY DEF SendEnds, guiVars, history
  <1>3. PICK ok \in BOOLEAN : Answer(s, ok)
    BY DEF SendEnds
  <1>4. Pc(s) \in {"sent", "failed"}
    BY <1>2 DEF QueueInv
  <1>5. /\ succeeded' \in [Scripts -> BOOLEAN] /\ StackOK' /\ LocalAll'
        /\ Pc(s)' \notin MainWaits /\ \A t \in Scripts : t # s => Pc(t)' = Pc(t)
    BY <1>3, <1>4, AnswerShape
  <1>6. RestOK'
    BY <1>1, <1>2, <1>5 DEF RestOK
  <1>7. QueueInv'
    BY <1>1, <1>2, <1>5, <1>6, QueueSent
  <1>8. ExitInv'
    BY <1>2, ExitKept
  <1> QED
    BY <1>5, <1>6, <1>7, <1>8

\* Steps that neither scripts nor their orders take part in
LEMMA CallsSame ==
    ASSUME RestOK, StackOK, StackInv, mi' = "ended" => mi = "ended",
           UNCHANGED <<gui, settings, inbox, sending, state, shallExit, succeeded, stack, mixed, calls>>
    PROVE  RestOK' /\ StackOK' /\ StackInv'
  <1> USE DEF StackInv
  <1>1. RestOK' /\ StackOK'
    BY DEF RestOK, StackOK
  <1>2. LocalAll' /\ \A s \in Scripts : Pc(s)' = Pc(s)
    BY LocalSame
  <1>3. QueueInv'
    BY <1>2, QueueSame
  <1>4. ExitInv'
    BY ExitKept
  <1> QED
    BY <1>1, <1>2, <1>3, <1>4

LEMMA ConnectionCalls ==
    ASSUME TypeOK, StackInv,
           ClientConnects \/ ClientDisconnects \/ ClientError \/ PeerConnects \/ PeerLeaves \/ CloseBox
    PROVE  RestOK' /\ StackOK' /\ StackInv'
  <1>1. LinkOK /\ RestOK /\ StackOK
    BY TypeParts
  <1>2. UNCHANGED <<gui, settings, inbox, sending, state, shallExit, succeeded, stack, mixed, calls>>
    BY DEF ClientConnects, ClientDisconnects, ClientError, PeerConnects, PeerLeaves, CloseBox, guiVars
  <1>3. mi' # "ended"
    <2>1. CASE PeerLeaves
      BY <1>1, <2>1, SlotShape DEF PeerLeaves, Boxes, LinkOK
    <2>2. CASE ~PeerLeaves
      BY <1>1, <2>2 DEF ClientConnects, ClientDisconnects, ClientError, PeerConnects, CloseBox,
         Disconnect, Boxes
    <2> QED
      BY <2>1, <2>2
  <1> QED
    BY <1>1, <1>2, <1>3, CallsSame

LEMMA GuiOrders ==
    ASSUME NEW c \in Configs, NEW on \in BOOLEAN, NEW box \in BOOLEAN, NEW who \in Scripts \cup {Gui}
    PROVE  /\ ConnectOrder(who, c, on, box) \in Orders
           /\ ConnectOrder(who, c, on, box).kind = "connect"
           /\ ConnectOrder(who, c, on, box).from = who
  BY DEF ConnectOrder, Orders

LEMMA GuiCalls ==
    ASSUME TypeOK, StackInv, PressConnect \/ Close \/ Exit \/ HandleExit
    PROVE  RestOK' /\ StackOK' /\ StackInv'
  <1> USE DEF StackInv
  <1>1. LinkOK /\ RestOK /\ StackOK /\ settings \in Configs
    BY TypeParts DEF RestOK
  <1>2. ASSUME NEW o \in Orders, o.from = Gui, inbox' = Append(inbox, o), sending' = sending,
               RestOK', UNCHANGED <<stack, succeeded, state>>
        PROVE  StackOK' /\ LocalAll' /\ QueueInv'
    <2>1. LocalAll' /\ \A s \in Scripts : Pc(s)' = Pc(s)
      BY <1>2, LocalSame
    <2>2. QueueInv'
      BY <1>1, <1>2, <2>1, QueueAppend
    <2> QED
      BY <1>1, <1>2, <2>1, <2>2 DEF StackOK
  <1>3. CASE PressConnect
    <2>1. PICK on \in BOOLEAN : inbox' = Append(inbox, ConnectOrder(Gui, settings, on, TRUE))
      BY <1>3 DEF PressConnect
    <2> DEFINE o == ConnectOrder(Gui, settings, on, TRUE)
    <2>2. o \in Orders /\ o.kind = "connect" /\ o.from = Gui
      BY <1>1 DEF ConnectOrder, Orders
    <2>3. inbox' = Append(inbox, o)
      BY <2>1
    <2> HIDE DEF o
    <2>4. /\ UNCHANGED <<gui, settings, mi, sending, state, shallExit, succeeded, stack>>
          /\ calls < MaxCalls /\ calls' = calls + 1 /\ mixed' \in BOOLEAN
      BY <1>1, <1>3 DEF PressConnect, guiVars, scriptVars, Overlap, RestOK
    <2>5. inbox' \in Seq(Orders) /\ ExitInv'
      BY <1>1, <2>2, <2>3, <2>4, AppendOrders, ExitKept
    <2>6. RestOK'
      BY <1>1, <2>4, <2>5, InfAssumption DEF RestOK
    <2> QED
      BY <1>2, <2>2, <2>3, <2>4, <2>5, <2>6
  <1>4. CASE Close
    <2> DEFINE o == ConnectOrder(Gui, settings, FALSE, FALSE)
    <2>2. o \in Orders /\ o.kind = "connect" /\ o.from = Gui
      BY <1>1, GuiOrders
    <2>3. inbox' = Append(inbox, o)
      BY <1>4 DEF Close
    <2> HIDE DEF o
    <2>4. /\ UNCHANGED <<settings, mi, sending, state, succeeded, stack, calls>>
          /\ gui = "open" /\ gui' = "stopping" /\ mixed' \in BOOLEAN
          /\ shallExit' \in [Scripts -> BOOLEAN]
      BY <1>1, <1>4 DEF Close, Overlap, RestOK, ToldToExit
    <2>5. /\ inbox' \in Seq(Orders)
          /\ \A i \in 1..Len(inbox') :
                    inbox'[i].kind = "exit" => \E j \in 1..Len(inbox) : inbox[j].kind = "exit"
      BY <1>1, <2>2, <2>3, AppendOrders
    <2>6. RestOK'
      BY <1>1, <2>4, <2>5 DEF RestOK
    <2>7. ExitInv'
      BY <2>4, <2>5 DEF ExitInv
    <2> QED
      BY <1>2, <2>2, <2>3, <2>4, <2>6, <2>7
  <1>5. CASE Exit
    <2>1. ExitOrder \in Orders /\ ExitOrder.from = Gui
      BY DEF ExitOrder, Orders
    <2>2. /\ inbox' = Append(inbox, ExitOrder) /\ gui' = "exiting" /\ gui = "stopping" /\ MayExit
          /\ UNCHANGED <<settings, mi, sending, state, shallExit, succeeded, stack, calls, mixed>>
      BY <1>5 DEF Exit, scriptVars, history
    <2>3. inbox' \in Seq(Orders)
      BY <1>1, <2>1, <2>2, AppendOrders
    <2>4. RestOK'
      BY <1>1, <2>2, <2>3 DEF RestOK
    <2>5. ExitInv'
      BY <2>2 DEF ExitInv, MayExit
    <2> QED
      BY <1>2, <2>1, <2>2, <2>4, <2>5
  <1>6. CASE HandleExit
    <2>1. PICK o \in Orders : o = Head(inbox)
      BY <1>1, <1>6, HeadOrder DEF HandleExit, Takes, RestOK
    <2>2. /\ inbox # <<>> /\ inbox' = Tail(inbox) /\ o.kind = "exit"
          /\ mi = "runs" /\ mi' = "ended" /\ gui' = "closed"
          /\ UNCHANGED <<settings, sending, state, shallExit, succeeded, stack, calls, mixed>>
      BY <1>6, <2>1 DEF HandleExit, Takes, Consume, scriptVars, history
    <2>3. /\ inbox' \in Seq(Orders)
          /\ 1 \in 1..Len(inbox) /\ inbox[1] = o
      BY <1>1, <2>1, <2>2, TailOrders
    <2>4. RestOK'
      BY <1>1, <2>2, <2>3 DEF RestOK
    <2>5. gui \in {"exiting", "closed"}
      BY <2>2, <2>3 DEF ExitInv
    <2>6. ExitInv'
      BY <2>2, <2>5 DEF ExitInv
    <2>7. LocalAll' /\ \A s \in Scripts : Pc(s)' = Pc(s)
      BY <2>2, LocalSame
    <2>8. o.from = Gui
      BY <2>2, OrderTypes
    <2>9. QueueInv'
      BY <1>1, <2>1, <2>2, <2>4, <2>7, <2>8, QueueTail
    <2> QED
      BY <1>1, <2>2, <2>4, <2>6, <2>7, <2>9 DEF StackOK
  <1> QED
    BY <1>3, <1>4, <1>5, <1>6

LEMMA LifeCalls ==
    ASSUME TypeOK, StackInv, NEW s \in Scripts, Create(s) \/ InitSignals(s) \/ End(s)
    PROVE  RestOK' /\ StackOK' /\ StackInv'
  <1> USE DEF StackInv
  <1>1. LinkOK /\ RestOK /\ StackOK
    BY TypeParts
  <1>2. /\ UNCHANGED <<gui, settings, mi, inbox, sending, shallExit, succeeded, stack, calls, mixed>>
        /\ \/ state[s] = "new" /\ gui = "open" /\ state' = [state EXCEPT ![s] = "created"]
           \/ state[s] = "created" /\ state' = [state EXCEPT ![s] = "running"]
           \/ state[s] = "running" /\ ~Calling(s) /\ state' = [state EXCEPT ![s] = "ended"]
    BY DEF Create, InitSignals, End, Running, guiVars, history
  <1>3. RestOK' /\ StackOK'
    BY <1>1, <1>2 DEF RestOK, StackOK
  <1>5. LocalAll' /\ \A t \in Scripts : Pc(t)' = Pc(t)
    BY <1>2, LocalSame
  <1>6. QueueInv'
    BY <1>1, <1>2, <1>5, QueueSame
  <1>7. ExitInv'
    BY <1>1, <1>2 DEF ExitInv, RestOK
  <1> QED
    BY <1>3, <1>5, <1>6, <1>7

LEMMA StopCalls ==
    ASSUME TypeOK, StackInv, NEW s \in Scripts, Stop(s) PROVE RestOK' /\ StackOK' /\ StackInv'
  <1> USE DEF StackInv
  <1>1. RestOK /\ StackOK
    BY TypeParts
  <1>2. /\ UNCHANGED <<gui, settings, mi, inbox, sending, state, succeeded, stack, mixed>>
        /\ calls < MaxCalls /\ calls' = calls + 1
        /\ shallExit' = [shallExit EXCEPT ![s] = TRUE]
    BY DEF Stop, guiVars
  <1>3. RestOK' /\ StackOK'
    BY <1>1, <1>2, InfAssumption DEF RestOK, StackOK
  <1>4. LocalAll' /\ \A t \in Scripts : Pc(t)' = Pc(t)
    BY <1>2, LocalSame
  <1>5. QueueInv' /\ ExitInv'
    BY <1>1, <1>2, <1>4, QueueSame, ExitKept
  <1> QED
    BY <1>3, <1>4, <1>5

\* Of the calls of a script that is terminated is left the innermost, if it waits.
LEMMA TerminateShape ==
    ASSUME StackOK, NEW s \in Scripts, Terminate(s)
    PROVE  /\ StackOK' /\ (Calling(s)' => Calling(s) /\ stack'[s] = <<Top(s)>> /\ Top(s)' = Top(s))
           /\ Pc(s)' = Pc(s) \/ (Pc(s) \notin MainWaits /\ Pc(s)' \notin MainWaits)
           /\ stack'[s] = <<>>
              \/ (stack'[s] = <<Top(s)>> /\ Top(s).pc \in MainWaits \cup GuiWaits)
           /\ \A t \in Scripts : t # s => stack'[t] = stack[t] /\ Pc(t)' = Pc(t)
  <1> DEFINE left == Calling(s) /\ Top(s).pc \in MainWaits \cup GuiWaits
  <1>1. stack' = [stack EXCEPT ![s] = IF left THEN <<Top(s)>> ELSE <<>>]
    BY DEF Terminate
  <1>2. /\ stack'[s] = IF left THEN <<Top(s)>> ELSE <<>>
        /\ \A t \in Scripts : t # s => stack'[t] = stack[t]
    BY <1>1 DEF StackOK
  <1>3. \A t \in Scripts : t # s => Pc(t)' = Pc(t)
    BY <1>2 DEF Pc, Calling, Top
  <1>4. CASE left
    <2>1. Top(s) \in Frames /\ Pc(s) = Top(s).pc
      BY <1>4, TopIs
    <2>2. PICK f \in Frames : f = Top(s)
      BY <2>1
    <2>3. stack'[s] = <<f>> /\ <<f>> \in Seq(Frames) /\ Len(<<f>>) = 1 /\ <<f>>[1] = f /\ <<f>> # <<>>
      BY <1>2, <1>4, <2>2
    <2>4. StackOK'
      BY <1>1, <1>4, <2>2, <2>3 DEF StackOK
    <2>5. Calling(s)' /\ Top(s)' = f /\ Pc(s)' = f.pc
      BY <2>3 DEF Calling, Top, Pc
    <2> QED
      BY <1>2, <1>3, <1>4, <2>1, <2>2, <2>3, <2>4, <2>5
  <1>5. CASE ~left
    <2>1. stack'[s] = <<>> /\ StackOK'
      BY <1>1, <1>2, <1>5, EmptySeq DEF StackOK
    <2>2. ~Calling(s)' /\ Pc(s)' = "none"
      BY <2>1 DEF Calling, Pc
    <2>3. Pc(s) \notin MainWaits
      BY <1>5 DEF Pc, MainWaits
    <2> QED
      BY <1>2, <1>3, <2>1, <2>2, <2>3 DEF MainWaits
  <1> QED
    BY <1>4, <1>5

LEMMA TerminateCalls ==
    ASSUME TypeOK, StackInv, NEW s \in Scripts, Terminate(s)
    PROVE  RestOK' /\ StackOK' /\ StackInv'
  <1> USE DEF StackInv
  <1>1. RestOK /\ StackOK
    BY TypeParts
  <1>2. /\ UNCHANGED <<gui, settings, mi, inbox, sending, shallExit, calls, mixed>>
        /\ gui \in {"open", "stopping"}
        /\ state' = [state EXCEPT ![s] = "terminated"]
        /\ succeeded' = [succeeded EXCEPT ![s] = FALSE]
    BY DEF Terminate, EventLoop, guiVars
  <1>3. RestOK'
    BY <1>1, <1>2 DEF RestOK
  <1>4. /\ StackOK'
        /\ stack'[s] = <<>> \/ stack'[s] = <<Top(s)>>
        /\ \A t \in Scripts : t # s => stack'[t] = stack[t] /\ Pc(t)' = Pc(t)
        /\ Pc(s)' = Pc(s) \/ (Pc(s) \notin MainWaits /\ Pc(s)' \notin MainWaits)
    BY <1>1, TerminateShape
  <1>5. ASSUME Calling(s), Top(s).pc \in MainWaits \cup GuiWaits PROVE FrameOk(Top(s), FALSE)
    <2>1. Len(stack[s]) \in 1..Len(stack[s]) /\ Top(s) = stack[s][Len(stack[s])]
      BY <1>1, <1>5, TopIs
    <2>2. FrameOk(Top(s), succeeded[s])
      BY <2>1 DEF LocalAll, LocalInv
    <2> QED
      BY <1>5, <2>2 DEF FrameOk, MainWaits, GuiWaits
  <1>6. stack'[s] = <<>> \/ (stack'[s] = <<Top(s)>> /\ FrameOk(Top(s), succeeded'[s]))
    <2>1. succeeded'[s] = FALSE
      BY <1>1, <1>2 DEF RestOK
    <2>2. stack' = [stack EXCEPT ![s] = IF Calling(s) /\ Top(s).pc \in MainWaits \cup GuiWaits
                                        THEN <<Top(s)>> ELSE <<>>]
      BY DEF Terminate
    <2>3. \/ stack'[s] = <<>>
          \/ stack'[s] = <<Top(s)>> /\ Calling(s) /\ Top(s).pc \in MainWaits \cup GuiWaits
      BY <1>1, <2>2 DEF StackOK
    <2> QED
      BY <1>5, <2>1, <2>3
  <1>7. LocalAll'
    <2>1. \A t \in Scripts : t # s => succeeded'[t] = succeeded[t]
      BY <1>1, <1>2 DEF RestOK
    <2>2. PICK f : f = Top(s)
      OBVIOUS
    <2> QED
      BY <1>4, <1>6, <2>1, <2>2, LocalLeft
  <1>8. QueueInv'
    BY <1>1, <1>2, <1>4, QueueSame
  <1>9. ExitInv'
    BY <1>2 DEF ExitInv
  <1> QED
    BY <1>3, <1>4, <1>7, <1>8, <1>9

\* The innermost call of s goes on, and no order is posted.
LEMMA GoesOn ==
    ASSUME TypeOK, StackInv, NEW s \in Scripts, Calling(s), NEW f \in Frames,
           stack' = WithTop(s, f), FrameOk(f, succeeded'[s]),
           succeeded' \in [Scripts -> BOOLEAN],
           \A t \in Scripts : t # s => succeeded'[t] = succeeded[t],
           Top(s).pc \notin MainWaits, f.pc \notin MainWaits, settings' \in Configs,
           UNCHANGED <<gui, mi, inbox, sending, state, shallExit, calls, mixed>>
    PROVE  RestOK' /\ StackOK' /\ StackInv'
  <1> USE DEF StackInv
  <1>1. RestOK /\ StackOK
    BY TypeParts
  <1>2. /\ StackOK' /\ Pc(s)' \notin MainWaits /\ \A t \in Scripts : t # s => Pc(t)' = Pc(t)
        /\ Pc(s) = Top(s).pc
    BY <1>1, TopOrNone, TopIs DEF MainWaits
  <1>3. RestOK'
    BY <1>1 DEF RestOK
  <1>4. LocalAll'
    BY <1>1, LocalTop
  <1>5. QueueInv'
    BY <1>1, <1>2, QueueSame
  <1>6. ExitInv'
    BY ExitKept
  <1> QED
    BY <1>2, <1>3, <1>4, <1>5, <1>6

\* The innermost call of s posts an order and awaits it.
LEMMA PostsOrder ==
    ASSUME TypeOK, StackInv, NEW s \in Scripts, Running(s), Calling(s), NEW f \in Frames,
           stack' = WithTop(s, f), FrameOk(f, succeeded'[s]),
           succeeded' \in [Scripts -> BOOLEAN],
           \A t \in Scripts : t # s => succeeded'[t] = succeeded[t],
           Top(s).pc \notin MainWaits, f.pc \in Queued,
           NEW o \in Orders, o.from = s, inbox' = Append(inbox, o),
           o.kind = "send" <=> f.pc = "sent",
           UNCHANGED <<gui, settings, mi, sending, state, shallExit, calls, mixed>>
    PROVE  RestOK' /\ StackOK' /\ StackInv'
  <1> USE DEF StackInv
  <1>1. RestOK /\ StackOK
    BY TypeParts
  <1>2. /\ StackOK' /\ Pc(s)' = f.pc /\ \A t \in Scripts : t # s => Pc(t)' = Pc(t)
        /\ Pc(s) = Top(s).pc
    BY <1>1, TopShape, TopIs DEF WithTop
  <1>3. o.kind # "exit"
    BY OrderTypes, InfAssumption
  <1>4. inbox' \in Seq(Orders) /\ ExitInv'
    BY <1>1, <1>3, AppendOrders, ExitKept
  <1>5. RestOK'
    BY <1>1, <1>4 DEF RestOK
  <1>6. LocalAll'
    BY <1>1, LocalTop
  <1>7. QueueInv'
    BY <1>1, <1>2, <1>5, QueueAppend
  <1> QED
    BY <1>2, <1>4, <1>5, <1>6, <1>7

LEMMA SetSettingsCalls ==
    ASSUME TypeOK, StackInv, NEW s \in Scripts, SetSettings(s)
    PROVE  RestOK' /\ StackOK' /\ StackInv'
  <1>1. LinkOK /\ RestOK /\ StackOK
    BY TypeParts
  <1>2. PICK pc \in {"order", "withdraw"} :
            /\ Calling(s) /\ Top(s).pc \in {"set", "restore"} /\ Top(s).op = "connect"
            /\ stack' = WithTop(s, [Top(s) EXCEPT !.pc = pc])
            /\ settings' \in {Top(s).new, Top(s).old}
    BY DEF SetSettings, TakesSettings, At, Go
  <1>3. Top(s) \in ConnectFrames
    BY <1>1, <1>2, TopIs, FrameTypes
  <1> DEFINE f == [Top(s) EXCEPT !.pc = pc]
  <1>4. f \in Frames /\ f.pc = pc /\ \A flag : FrameOk(f, flag)
    <2>1. pc \in ConnectPcs
      BY DEF ConnectPcs
    <2> QED
      BY <1>3, <2>1, ConnectGoes
  <1>5. stack' = WithTop(s, f)
    BY <1>2
  <1> HIDE DEF f
  <1>6. settings' \in Configs
    BY <1>2, <1>3 DEF ConnectFrames
  <1>7. UNCHANGED <<gui, mi, inbox, sending, state, shallExit, succeeded, calls, mixed>>
    BY DEF SetSettings, history
  <1>8. /\ succeeded' \in [Scripts -> BOOLEAN] /\ f.pc \notin MainWaits /\ Top(s).pc \notin MainWaits
        /\ FrameOk(f, succeeded'[s])
    BY <1>1, <1>2, <1>4, <1>7 DEF RestOK, MainWaits
  <1> QED
    BY <1>2, <1>4, <1>5, <1>6, <1>7, <1>8, GoesOn

LEMMA PostConnectCalls ==
    ASSUME TypeOK, StackInv, NEW s \in Scripts, Running(s), PostConnect(s)
    PROVE  RestOK' /\ StackOK' /\ StackInv'
  <1>1. LinkOK /\ RestOK /\ StackOK
    BY TypeParts
  <1>2. PICK pc \in {"ordered", "withdrawn"} :
            /\ Calling(s) /\ Top(s).pc \in {"order", "withdraw"} /\ Top(s).op = "connect"
            /\ stack' = WithTop(s, [Top(s) EXCEPT !.pc = pc])
            /\ \E c \in {Top(s).new, Top(s).old}, on \in BOOLEAN :
                  inbox' = Append(inbox, ConnectOrder(s, c, on, FALSE))
    BY DEF PostConnect, Withdrawal, At, Go
  <1>3. Top(s) \in ConnectFrames
    BY <1>1, <1>2, TopIs, FrameTypes
  <1> DEFINE f == [Top(s) EXCEPT !.pc = pc]
  <1>4. f \in Frames /\ f.pc = pc /\ \A flag : FrameOk(f, flag)
    <2>1. pc \in ConnectPcs
      BY DEF ConnectPcs
    <2> QED
      BY <1>3, <2>1, ConnectGoes
  <1>5. stack' = WithTop(s, f)
    BY <1>2
  <1> HIDE DEF f
  <1>6. PICK o \in Orders : inbox' = Append(inbox, o) /\ o.from = s /\ o.kind = "connect"
    <2>1. Top(s).new \in Configs /\ Top(s).old \in Configs
      BY <1>3 DEF ConnectFrames
    <2>2. PICK c \in Configs, on \in BOOLEAN : inbox' = Append(inbox, ConnectOrder(s, c, on, FALSE))
      BY <1>2, <2>1
    <2>3. /\ ConnectOrder(s, c, on, FALSE) \in Orders /\ ConnectOrder(s, c, on, FALSE).from = s
          /\ ConnectOrder(s, c, on, FALSE).kind = "connect"
      BY DEF ConnectOrder, Orders
    <2> QED
      BY <2>2, <2>3
  <1>7. UNCHANGED <<gui, settings, mi, sending, state, shallExit, succeeded, calls, mixed>>
    BY DEF PostConnect, history, guiVars
  <1>8. /\ succeeded' \in [Scripts -> BOOLEAN] /\ f.pc \in Queued /\ Top(s).pc \notin MainWaits
        /\ FrameOk(f, succeeded'[s]) /\ f.pc # "sent"
    BY <1>1, <1>2, <1>4, <1>7 DEF RestOK, MainWaits, Queued
  <1> QED
    BY <1>2, <1>4, <1>5, <1>6, <1>7, <1>8, PostsOrder

LEMMA WaitCalls ==
    ASSUME TypeOK, StackInv, NEW s \in Scripts, WaitEnds(s) \/ Result(s)
    PROVE  RestOK' /\ StackOK' /\ StackInv'
  <1>1. LinkOK /\ RestOK /\ StackOK /\ isConn[s] \in BOOLEAN
    BY TypeParts DEF LinkOK
  <1>2. /\ Calling(s) /\ Top(s).pc \in {"wait", "result"} /\ Top(s).op = "connect"
        /\ \/ stack' = WithTop(s, [Top(s) EXCEPT !.pc = IF isConn[s] THEN "result" ELSE "restore",
                                                 !.gaveUp = ~isConn[s]])
           \/ stack' = WithTop(s, [Top(s) EXCEPT !.pc = "return", !.ok = isConn[s]])
    BY DEF WaitEnds, Result, At
  <1>3. Top(s) \in ConnectFrames
    BY <1>1, <1>2, TopIs, FrameTypes
  <1>4. PICK g \in ConnectFrames : g = Top(s)
    BY <1>3
  <1>5. PICK f \in Frames : stack' = WithTop(s, f) /\ f.op = "connect" /\ f.pc \in {"result", "restore", "return"}
    <2>1. PICK b \in BOOLEAN : b = isConn[s]
      BY <1>1
    <2>2. CASE stack' = WithTop(s, [g EXCEPT !.pc = "return", !.ok = b])
      <3>1. [g EXCEPT !.pc = "return", !.ok = b] \in Frames
        BY <1>4 DEF ConnectFrames, Frames
      <3>2. /\ [g EXCEPT !.pc = "return", !.ok = b].op = "connect"
            /\ [g EXCEPT !.pc = "return", !.ok = b].pc = "return"
        BY <1>4 DEF ConnectFrames
      <3> QED
        BY <2>2, <3>1, <3>2
    <2>3. ASSUME NEW pc \in {"result", "restore"},
                 stack' = WithTop(s, [g EXCEPT !.pc = pc, !.gaveUp = ~b])
          PROVE  \E f \in Frames : stack' = WithTop(s, f) /\ f.op = "connect" /\ f.pc \in {"result", "restore"}
      <3>1. [g EXCEPT !.pc = pc, !.gaveUp = ~b] \in Frames
        BY <1>4 DEF ConnectFrames, Frames
      <3>2. /\ [g EXCEPT !.pc = pc, !.gaveUp = ~b].op = "connect"
            /\ [g EXCEPT !.pc = pc, !.gaveUp = ~b].pc = pc
        BY <1>4 DEF ConnectFrames
      <3> QED
        BY <2>3, <3>1, <3>2
    <2> QED
      BY <1>2, <1>4, <2>1, <2>2, <2>3
  <1>6. UNCHANGED <<gui, settings, mi, inbox, sending, state, shallExit, succeeded, calls, mixed>>
    BY DEF WaitEnds, Result, history, guiVars
  <1>7. /\ succeeded' \in [Scripts -> BOOLEAN] /\ settings' \in Configs
        /\ f.pc \notin MainWaits /\ Top(s).pc \notin MainWaits /\ FrameOk(f, succeeded'[s])
    BY <1>1, <1>2, <1>5, <1>6 DEF RestOK, MainWaits, FrameOk
  <1> QED
    BY <1>2, <1>5, <1>6, <1>7, GoesOn
SendPcs == {"loop", "sent", "failed", "answered", "gap", "return"}

\* A send goes on, ...
LEMMA GoesPc ==
    ASSUME NEW g \in SendFrames, NEW pc \in SendPcs
    PROVE  \E f \in Frames : /\ f = [g EXCEPT !.pc = pc]
                            /\ f.op = "send" /\ f.pc = pc
                            /\ f.tried = g.tried /\ f.ok = g.ok /\ f.sent = g.sent
  <1> DEFINE f == [g EXCEPT !.pc = pc]
  <1>1. /\ f \in Frames
        /\ f.op = "send" /\ f.pc = pc
        /\ f.tried = g.tried /\ f.ok = g.ok /\ f.sent = g.sent
    BY DEF SendFrames, Frames, SendPcs
  <1> HIDE DEF f
  <1>2. f = [g EXCEPT !.pc = pc]
    BY DEF f
  <1> QED
    BY <1>1, <1>2

\* ... tries, ...
Tried(g, n) == [g EXCEPT !.pc = "sent", !.tried = n]

LEMMA GoesTried ==
    ASSUME NEW g \in SendFrames, NEW n \in 0..MaxRepeats
    PROVE  /\ Tried(g, n) \in Frames
           /\ Tried(g, n).op = "send" /\ Tried(g, n).pc = "sent"
           /\ Tried(g, n).tried = n /\ Tried(g, n).ok = g.ok /\ Tried(g, n).sent = g.sent
  BY DEF SendFrames, Frames, SendPcs, Tried

\* ... or takes over an answer.
Took(g, pc, b) == [g EXCEPT !.ok = b, !.pc = pc]

LEMMA GoesOk ==
    ASSUME NEW g \in SendFrames, NEW pc \in SendPcs, NEW b \in BOOLEAN
    PROVE  /\ Took(g, pc, b) \in Frames
           /\ Took(g, pc, b).op = "send" /\ Took(g, pc, b).pc = pc
           /\ Took(g, pc, b).tried = g.tried /\ Took(g, pc, b).ok = b /\ Took(g, pc, b).sent = g.sent
  BY DEF SendFrames, Frames, SendPcs, Took

LEMMA RepeatCalls ==
    ASSUME TypeOK, StackInv, NEW s \in Scripts, Running(s), Repeat(s)
    PROVE  RestOK' /\ StackOK' /\ StackInv'
  <1>1. LinkOK /\ RestOK /\ StackOK /\ LocalAll
    BY TypeParts DEF StackInv
  <1>2. /\ Calling(s) /\ Top(s).op = "send" /\ Top(s).pc = "loop" /\ Top(s).tried < Top(s).want
        /\ succeeded' = [succeeded EXCEPT ![s] = FALSE]
        /\ UNCHANGED <<gui, settings, mi, sending, state, shallExit, calls, mixed>>
    BY DEF Repeat, At, More, guiVars, history
  <1>3. PICK g \in SendFrames : g = Top(s)
    BY <1>1, <1>2, SendTop
  <1>4. /\ g.tried \in 0..MaxRepeats /\ g.want \in 0..MaxRepeats /\ g.sent \in 0..MaxRepeats
        /\ g.ok \in BOOLEAN /\ g.sent = g.tried /\ (g.ok <=> g.sent > 0)
    <2>1. FrameOk(g, succeeded[s]) /\ g.op = "send" /\ g.pc = "loop"
      BY <1>1, <1>2, <1>3, SendTop
    <2>2. /\ g.tried \in 0..MaxRepeats /\ g.want \in 0..MaxRepeats /\ g.sent \in 0..MaxRepeats
      BY <1>1, <1>2, <1>3, SendTop
    <2>3. g.ok \in BOOLEAN
      BY DEF SendFrames
    <2> QED
      BY <2>1, <2>2, <2>3 DEF FrameOk
  <1>5. /\ succeeded' \in [Scripts -> BOOLEAN] /\ succeeded'[s] = FALSE /\ settings' \in Configs
        /\ \A t \in Scripts : t # s => succeeded'[t] = succeeded[t]
    BY <1>1, <1>2 DEF RestOK
  <1>6. CASE Go(s, "return") /\ inbox' = inbox
    <2>1. PICK f \in Frames : /\ f = [g EXCEPT !.pc = "return"] /\ f.op = "send" /\ f.pc = "return"
                              /\ f.tried = g.tried /\ f.ok = g.ok /\ f.sent = g.sent
      BY GoesPc DEF SendPcs
    <2>2. stack' = WithTop(s, f)
      BY <1>3, <1>6, <2>1 DEF Go
    <2>3. FrameOk(f, succeeded'[s])
      BY <1>4, <2>1 DEF FrameOk
    <2>4. f.pc \notin MainWaits /\ Top(s).pc \notin MainWaits
      BY <1>2, <2>1 DEF MainWaits
    <2> QED
      BY <1>2, <1>5, <1>6, <2>2, <2>3, <2>4, GoesOn
  <1>7. CASE /\ stack' = WithTop(s, [Top(s) EXCEPT !.pc = "sent", !.tried = @ + 1])
             /\ inbox' = Append(inbox, SendOrder(s))
    <2>1. PICK n \in 0..MaxRepeats : n = g.tried + 1
      BY <1>2, <1>3, <1>4, InfAssumption
    <2>2. PICK f \in Frames : /\ f = Tried(g, n)
                              /\ f.op = "send" /\ f.pc = "sent"
                              /\ f.tried = n /\ f.ok = g.ok /\ f.sent = g.sent
      BY GoesTried
    <2>3. stack' = WithTop(s, f)
      BY <1>3, <1>7, <2>1, <2>2 DEF Tried
    <2>4. FrameOk(f, succeeded'[s])
      BY <1>4, <2>1, <2>2 DEF FrameOk
    <2>5. f.pc \in Queued /\ Top(s).pc \notin MainWaits
      BY <1>2, <2>2 DEF Queued, MainWaits
    <2>6. SendOrder(s) \in Orders /\ SendOrder(s).from = s /\ SendOrder(s).kind = "send"
      BY DEF SendOrder, Orders
    <2> QED
      BY <1>2, <1>5, <1>7, <2>2, <2>3, <2>4, <2>5, <2>6, PostsOrder
  <1> QED
    BY <1>6, <1>7 DEF Repeat

LEMMA SendCalls ==
    ASSUME TypeOK, StackInv, NEW s \in Scripts, RepeatedAll(s) \/ ContinueSend(s)
    PROVE  RestOK' /\ StackOK' /\ StackInv'
  <1>1. LinkOK /\ RestOK /\ StackOK /\ LocalAll
    BY TypeParts DEF StackInv
  <1>2. /\ Calling(s) /\ Top(s).op = "send" /\ Top(s).pc \in {"loop", "answered", "gap"}
        /\ UNCHANGED <<gui, settings, mi, inbox, sending, state, shallExit, succeeded, calls, mixed>>
    BY DEF RepeatedAll, ContinueSend, AfterAnswer, At, guiVars, history
  <1>3. PICK g \in SendFrames : g = Top(s)
    BY <1>1, <1>2, SendTop
  <1>4. /\ g.tried \in 0..MaxRepeats /\ g.sent \in 0..MaxRepeats /\ g.ok \in BOOLEAN
        /\ FrameOk(g, succeeded[s]) /\ g.op = "send"
    <2>1. FrameOk(g, succeeded[s]) /\ g.op = "send"
      BY <1>1, <1>2, <1>3, SendTop
    <2>2. g.tried \in 0..MaxRepeats /\ g.sent \in 0..MaxRepeats
      BY <1>1, <1>2, <1>3, SendTop
    <2>3. g.ok \in BOOLEAN
      BY DEF SendFrames
    <2> QED
      BY <2>1, <2>2, <2>3
  <1>5. /\ succeeded' \in [Scripts -> BOOLEAN] /\ settings' \in Configs /\ succeeded[s] \in BOOLEAN
    BY <1>1, <1>2 DEF RestOK
  <1>6. ASSUME NEW f \in Frames, stack' = WithTop(s, f), f.op = "send",
               f.pc \in {"gap", "loop", "return"}, FrameOk(f, succeeded[s])
        PROVE  RestOK' /\ StackOK' /\ StackInv'
    <2>1. f.pc \notin MainWaits /\ Top(s).pc \notin MainWaits /\ FrameOk(f, succeeded'[s])
      BY <1>2, <1>6 DEF MainWaits
    <2> QED
      BY <1>2, <1>5, <1>6, <2>1, GoesOn
  <1>7. CASE \/ g.pc = "loop" /\ Go(s, "return")
             \/ g.pc = "gap" /\ Go(s, "loop")
    <2>1. PICK pc \in {"return", "loop"} : /\ Go(s, pc)
                                           /\ \/ g.pc = "loop" /\ pc = "return"
                                              \/ g.pc = "gap" /\ pc = "loop"
      BY <1>7
    <2>2. PICK f \in Frames : /\ f = [g EXCEPT !.pc = pc] /\ f.op = "send" /\ f.pc = pc
                              /\ f.tried = g.tried /\ f.ok = g.ok /\ f.sent = g.sent
      BY GoesPc DEF SendPcs
    <2>3. stack' = WithTop(s, f)
      BY <1>3, <2>1, <2>2 DEF Go
    <2>4. FrameOk(f, succeeded[s])
      BY <1>4, <2>1, <2>2 DEF FrameOk
    <2> QED
      BY <1>6, <2>2, <2>3, <2>4
  <1>8. ASSUME g.pc = "answered", NEW pc \in {"gap", "loop", "return"},
               stack' = WithTop(s, [g EXCEPT !.ok = succeeded[s], !.pc = pc]),
               pc = "return" <=> ~succeeded[s]
        PROVE  RestOK' /\ StackOK' /\ StackInv'
    <2>1. PICK b \in BOOLEAN : b = succeeded[s]
      BY <1>5
    <2>2. PICK f \in Frames : /\ f = Took(g, pc, b) /\ f.op = "send" /\ f.pc = pc
                              /\ f.tried = g.tried /\ f.ok = b /\ f.sent = g.sent
      BY GoesOk DEF SendPcs
    <2>3. stack' = WithTop(s, f)
      BY <1>8, <2>1, <2>2 DEF Took
    <2>4. FrameOk(f, succeeded[s])
      BY <1>4, <1>8, <2>1, <2>2 DEF FrameOk
    <2> QED
      BY <1>6, <2>2, <2>3, <2>4
  <1>9. CASE /\ g.pc = "answered"
             /\ stack' = WithTop(s, [g EXCEPT
                        !.ok = succeeded[s],
                        !.pc = IF ~succeeded[s] THEN "return"
                               ELSE IF g.pc = "answered" /\ g.want > 1 THEN "gap"
                               ELSE "loop"])
    BY <1>8, <1>9
  <1> QED
    BY <1>3, <1>7, <1>9 DEF RepeatedAll, ContinueSend, AfterAnswer, At

\* s begins a call.
LEMMA Begins ==
    ASSUME TypeOK, StackInv, NEW s \in Scripts, MayCall(s), NEW f \in Frames,
           stack' = [stack EXCEPT ![s] = Append(@, f)],
           f.pc \in {"set"} \/ (f.pc = "loop" /\ f.tried = 0 /\ f.sent = 0 /\ ~f.ok),
           calls' = calls + 1, mixed' \in BOOLEAN,
           UNCHANGED <<gui, settings, mi, inbox, sending, state, shallExit, succeeded>>
    PROVE  RestOK' /\ StackOK' /\ StackInv'
  <1> USE DEF StackInv
  <1>1. RestOK /\ StackOK
    BY TypeParts
  <1>2. StackOK' /\ Pc(s)' = f.pc /\ \A t \in Scripts : t # s => Pc(t)' = Pc(t)
    BY <1>1, PushShape
  <1>3. Pc(s) \notin MainWaits /\ f.pc \notin MainWaits
    BY DEF MayCall, Pc, MainWaits
  <1>4. RestOK'
    BY <1>1, InfAssumption DEF RestOK, MayCall
  <1>5. LocalAll'
    BY <1>1, LocalPush
  <1>6. QueueInv'
    BY <1>1, <1>2, <1>3, QueueSame
  <1>7. ExitInv'
    BY ExitKept
  <1> QED
    BY <1>2, <1>4, <1>5, <1>6, <1>7

LEMMA CallCalls ==
    ASSUME TypeOK, StackInv, NEW s \in Scripts, CallSend(s) \/ \E c \in Configs : CallConnect(s, c)
    PROVE  RestOK' /\ StackOK' /\ StackInv'
  <1>1. /\ MayCall(s) /\ calls' = calls + 1
        /\ UNCHANGED <<gui, settings, mi, inbox, sending, state, shallExit, succeeded>>
    BY DEF CallSend, CallConnect, guiVars
  <1>2. settings \in Configs /\ mixed \in BOOLEAN
    BY DEF TypeOK
  <1>3. CASE CallSend(s)
    <2>1. PICK n \in 1..MaxRepeats : stack' = [stack EXCEPT ![s] = Append(@, SendFrame(n))]
      BY <1>3 DEF CallSend
    <2>2. PICK f : f = SendFrame(n)
      OBVIOUS
    <2>3. f \in Frames /\ f.pc = "loop" /\ f.tried = 0 /\ f.sent = 0 /\ ~f.ok
      BY <2>2, InfAssumption DEF SendFrame, SendFrames, Frames
    <2>4. mixed' \in BOOLEAN
      BY <1>2, <1>3 DEF CallSend
    <2> QED
      BY <1>1, <2>1, <2>2, <2>3, <2>4, Begins
  <1>4. CASE \E c \in Configs : CallConnect(s, c)
    <2>1. PICK c \in Configs : CallConnect(s, c)
      BY <1>4
    <2>2. PICK f : f = ConnectFrame(c)
      OBVIOUS
    <2>3. f \in Frames /\ f.pc = "set"
      BY <1>2, <2>2 DEF ConnectFrame, ConnectFrames, Frames
    <2>4. mixed' \in BOOLEAN /\ stack' = [stack EXCEPT ![s] = Append(@, f)]
      BY <1>2, <2>1, <2>2 DEF CallConnect
    <2> QED
      BY <1>1, <2>3, <2>4, Begins
  <1> QED
    BY <1>3, <1>4

LEMMA ReturnCalls ==
    ASSUME TypeOK, StackInv, NEW s \in Scripts, Return(s)
    PROVE  RestOK' /\ StackOK' /\ StackInv'
  <1> USE DEF StackInv
  <1>1. RestOK /\ StackOK
    BY TypeParts
  <1>2. /\ Calling(s) /\ Top(s).pc = "return"
        /\ stack' = [stack EXCEPT ![s] = SubSeq(@, 1, Len(@) - 1)]
        /\ UNCHANGED <<gui, settings, mi, inbox, sending, state, shallExit, succeeded, calls, mixed>>
    BY DEF Return, guiVars, history
  <1>3. StackOK' /\ \A t \in Scripts : t # s => Pc(t)' = Pc(t)
    BY <1>1, <1>2, PopShape
  <1>4. LocalAll' /\ Pc(s)' \in Lower \cup {"none"}
    BY <1>1, <1>2, LocalPop
  <1>5. Pc(s) \notin MainWaits /\ Pc(s)' \notin MainWaits
    BY <1>2, <1>4 DEF Pc, MainWaits, Lower
  <1>6. RestOK'
    BY <1>1, <1>2 DEF RestOK
  <1>7. QueueInv'
    BY <1>1, <1>2, <1>3, <1>5, QueueSame
  <1>8. ExitInv'
    BY <1>2, ExitKept
  <1> QED
    BY <1>3, <1>4, <1>6, <1>7, <1>8

LEMMA StackStep == ASSUME TypeOK, StackInv, Next PROVE RestOK' /\ StackOK' /\ StackInv'
  <1>1. ASSUME NEW s \in Scripts, ScriptStep(s) PROVE RestOK' /\ StackOK' /\ StackInv'
    BY <1>1, RepeatCalls, SendCalls, PostConnectCalls, WaitCalls, ReturnCalls DEF ScriptStep
  <1>2. ASSUME NEW s \in Scripts,
               \/ SendEnds(s) \/ SetSettings(s) \/ Create(s) \/ InitSignals(s) \/ End(s)
               \/ Stop(s) \/ Terminate(s)
               \/ CallSend(s) \/ \E c \in Configs : CallConnect(s, c)
        PROVE  RestOK' /\ StackOK' /\ StackInv'
    BY <1>2, SendEndsCalls, SetSettingsCalls, LifeCalls, StopCalls, TerminateCalls, CallCalls
  <1> QED
    BY <1>1, <1>2, HandleConnectCalls, HandleSendCalls, GuiCalls, ConnectionCalls DEF Next, MainStep

LEMMA StackInit == ASSUME Init PROVE RestOK /\ StackOK /\ StackInv
  <1>1. RestOK
    <2>1. inbox \in Seq(Orders)
      BY EmptySeq DEF Init
    <2>2. calls \in 0..MaxCalls /\ settings \in Configs
      BY InfAssumption DEF Init
    <2> QED
      BY <2>1, <2>2 DEF Init, RestOK
  <1>2. stack = [s \in Scripts |-> <<>>] /\ \A s \in Scripts : ~Calling(s)
    BY DEF Init, Calling
  <1>3. StackOK
    BY <1>2, EmptySeq DEF StackOK
  <1>4. Len(inbox) = 0 /\ sending = {} /\ \A s \in Scripts : Pc(s) \notin MainWaits
    BY <1>2, EmptySeq DEF Init, Pc, MainWaits
  <1>5. QueueInv /\ ExitInv
    BY <1>4 DEF QueueInv, ExitInv, Init
  <1>6. \A s \in Scripts : Len(stack[s]) = 0
    BY <1>2, EmptySeq
  <1>7. LocalAll
    BY <1>2, <1>6 DEF LocalAll, LocalInv
  <1> QED
    BY <1>1, <1>3, <1>5, <1>7 DEF StackInv

LEMMA StackStays == ASSUME TypeOK, StackInv, UNCHANGED vars PROVE RestOK' /\ StackOK' /\ StackInv'
  <1>1. RestOK /\ StackOK
    BY TypeParts
  <1>2. UNCHANGED <<gui, settings, inbox, sending, state, shallExit, succeeded, stack, mixed, calls, mi>>
    BY DEF vars
  <1> QED
    BY <1>1, <1>2, CallsSame
-----------------------------------------------------------------------------
(***************************************************************************)
(* A connect that gives up, while it is the only one.                      *)
(***************************************************************************)
\* No connection exists, apart from one that is given up again at once, or comes.
Gone == client \notin {"connecting", "up"} /\ peer = "closed" /\ (conn => mi = "vain")

\* From the old settings to the withdrawal to its effect
GivenTop(s) ==
    Calling(s) /\ Top(s).op = "connect" =>
        /\ Top(s).gaveUp /\ Top(s).pc \in {"withdraw", "withdrawn", "result", "return"} =>
              settings = Top(s).old
        /\ Top(s).gaveUp /\ Top(s).pc \in {"result", "return"} => cfg = Top(s).old /\ Gone
        /\ Top(s).pc = "withdrawn" =>
              \A i \in 1..Len(inbox) :
                  inbox[i].from = s => inbox[i].conf = Top(s).old /\ ~inbox[i].on

Alone ==
    \A s \in Scripts : Connecting(s) =>
        /\ \A t \in Scripts : Connecting(t) => t = s
        /\ \A i \in 1..Len(inbox) : inbox[i].kind = "connect" => inbox[i].from = s

GivenAll == Alone /\ \A s \in Scripts : GivenTop(s)
GivenInv == ~mixed => GivenAll

LEMMA ConnectingIs ==
    ASSUME NEW s \in Scripts
    PROVE  Connecting(s) <=> \E i \in 1..Len(stack[s]) : stack[s][i].op = "connect"
  BY DEF Connecting, FramesOf

LEMMA ConnectingNext ==
    ASSUME NEW s \in Scripts
    PROVE  Connecting(s)' <=> \E i \in 1..Len(stack'[s]) : stack'[s][i].op = "connect"
  BY DEF Connecting, FramesOf

LEMMA TopConnects ==
    ASSUME StackOK, NEW s \in Scripts, Calling(s), Top(s).op = "connect" PROVE Connecting(s)
  <1>1. Len(stack[s]) \in 1..Len(stack[s]) /\ Top(s) = stack[s][Len(stack[s])]
    BY TopIs
  <1> QED
    BY <1>1, ConnectingIs

LEMMA ConnectingTop ==
    ASSUME StackOK, NEW s \in Scripts, Calling(s), NEW f \in Frames, stack' = WithTop(s, f),
           f.op = Top(s).op, Connecting(s)'
    PROVE  Connecting(s)
  <1>0. stack' = SetTop(s, f)
    <2>1. stack'[s] # <<>>
      BY EmptySeq, ConnectingNext
    <2> QED
      BY <2>1, TopOrNone DEF WithTop
  <1>1. /\ Len(stack[s]) \in Nat \ {0} /\ Top(s) = stack[s][Len(stack[s])]
        /\ Len(stack'[s]) = Len(stack[s]) /\ stack'[s][Len(stack[s])] = f
        /\ \A i \in 1..(Len(stack[s]) - 1) : stack'[s][i] = stack[s][i]
    BY <1>0, TopShape, TopIs
  <1>2. PICK i \in 1..Len(stack[s]) : stack'[s][i].op = "connect"
    BY <1>1, ConnectingNext
  <1>3. i \in 1..(Len(stack[s]) - 1) \/ i = Len(stack[s])
    BY <1>1, <1>2
  <1>4. stack[s][i].op = "connect"
    BY <1>1, <1>2, <1>3
  <1> QED
    BY <1>2, <1>4, ConnectingIs

\* Only s goes on; it may only change the connection, or post an order for it,
\* when it connects.
LEMMA OneMoves ==
    ASSUME StackOK, GivenAll, NEW s \in Scripts,
           \A t \in Scripts : t # s => stack'[t] = stack[t],
           Connecting(s)' => Connecting(s), GivenTop(s)',
           \A i \in 1..Len(inbox') :
               \/ \E j \in 1..Len(inbox) : inbox'[i] = inbox[j]
               \/ inbox'[i].from = s /\ (inbox'[i].kind = "connect" => Connecting(s)),
           Connecting(s) \/ (settings' = settings /\ cfg' = cfg /\ (Gone => Gone'))
    PROVE  GivenAll'
  <1>1. \A t \in Scripts : Connecting(t)' => Connecting(t)
    <2>1. \A t \in Scripts : t # s => (Connecting(t)' <=> Connecting(t))
      BY ConnectingIs, ConnectingNext
    <2> QED
      BY <2>1
  <1>2. Alone'
    <2> SUFFICES ASSUME NEW u \in Scripts, Connecting(u)'
                 PROVE  /\ \A t \in Scripts : Connecting(t)' => t = u
                        /\ \A i \in 1..Len(inbox') : inbox'[i].kind = "connect" => inbox'[i].from = u
      BY DEF Alone
    <2>1. Connecting(u)
      BY <1>1
    <2> QED
      BY <1>1, <2>1 DEF GivenAll, Alone
  <1>3. ASSUME NEW t \in Scripts, t # s PROVE GivenTop(t)'
    <2>1. stack'[t] = stack[t] /\ GivenTop(t)
      BY <1>3 DEF GivenAll
    <2>2. (Calling(t)' <=> Calling(t)) /\ Top(t)' = Top(t)
      BY <2>1 DEF Calling, Top
    <2>3. CASE Calling(t) /\ Top(t).op = "connect"
      <3>1. ~Connecting(s)
        BY <1>3, <2>3, TopConnects DEF GivenAll, Alone
      <3>2. settings' = settings /\ cfg' = cfg /\ (Gone => Gone')
        BY <3>1
      <3>3. \A i \in 1..Len(inbox') :
                inbox'[i].from = t => \E j \in 1..Len(inbox) : inbox'[i] = inbox[j]
        BY <1>3
      <3> QED
        BY <2>1, <2>2, <2>3, <3>2, <3>3 DEF GivenTop
    <2>4. CASE ~(Calling(t) /\ Top(t).op = "connect")
      BY <2>2, <2>4 DEF GivenTop
    <2> QED
      BY <2>3, <2>4
  <1> QED
    BY <1>2, <1>3 DEF GivenAll

\* No script goes on.
LEMMA NoneMoves ==
    ASSUME StackOK, GivenAll, stack' = stack,
           (\E s \in Scripts : Connecting(s)) =>
               /\ settings' = settings /\ cfg' = cfg /\ (Gone => Gone')
               /\ \A i \in 1..Len(inbox') :
                     \/ \E j \in 1..Len(inbox) : inbox'[i] = inbox[j]
                     \/ inbox'[i].from \notin Scripts /\ inbox'[i].kind # "connect"
    PROVE  GivenAll'
  <1>1. \A t \in Scripts : Connecting(t)' <=> Connecting(t)
    BY ConnectingIs, ConnectingNext
  <1>2. Alone'
    BY <1>1 DEF GivenAll, Alone
  <1>3. ASSUME NEW t \in Scripts PROVE GivenTop(t)'
    <2>1. GivenTop(t) /\ (Calling(t)' <=> Calling(t)) /\ Top(t)' = Top(t)
      BY DEF GivenAll, Calling, Top
    <2>2. CASE Calling(t) /\ Top(t).op = "connect"
      <3>1. Connecting(t)
        BY <2>2, TopConnects
      <3>2. /\ settings' = settings /\ cfg' = cfg /\ (Gone => Gone')
            /\ \A i \in 1..Len(inbox') :
                inbox'[i].from = t => \E j \in 1..Len(inbox) : inbox'[i] = inbox[j]
        BY <3>1
      <3> QED
        BY <2>1, <2>2, <3>2 DEF GivenTop
    <2>3. CASE ~(Calling(t) /\ Top(t).op = "connect")
      BY <2>1, <2>3 DEF GivenTop
    <2> QED
      BY <2>2, <2>3
  <1> QED
    BY <1>2, <1>3 DEF GivenAll

LEMMA InboxAppend ==
    ASSUME RestOK, NEW o \in Orders, inbox' = Append(inbox, o)
    PROVE  \A i \in 1..Len(inbox') : inbox'[i] = o \/ \E j \in 1..Len(inbox) : inbox'[i] = inbox[j]
  <1>1. /\ Len(inbox) \in Nat /\ Len(inbox') = Len(inbox) + 1
        /\ inbox'[Len(inbox) + 1] = o
        /\ \A i \in 1..Len(inbox) : inbox'[i] = inbox[i]
    BY AppendProperties, LenProperties DEF RestOK
  <1>2. \A i \in 1..Len(inbox') : i \in 1..Len(inbox) \/ i = Len(inbox) + 1
    BY <1>1
  <1> QED
    BY <1>1, <1>2

LEMMA InboxTail ==
    ASSUME RestOK, inbox # <<>>, inbox' = Tail(inbox)
    PROVE  \A i \in 1..Len(inbox') : \E j \in 1..Len(inbox) : inbox'[i] = inbox[j]
  <1>1. /\ Len(inbox) \in Nat \ {0} /\ Len(inbox') = Len(inbox) - 1
        /\ \A i \in 1..(Len(inbox) - 1) : inbox'[i] = inbox[i + 1]
    BY HeadOrder DEF RestOK
  <1>2. \A i \in 1..(Len(inbox) - 1) : i + 1 \in 1..Len(inbox)
    BY <1>1
  <1> QED
    BY <1>1, <1>2

\* The innermost call of s is a send: nothing about it is given.
LEMMA SendMoves ==
    ASSUME TypeOK, GivenAll, NEW s \in Scripts, Calling(s), Top(s).op = "send",
           NEW f \in Frames, f.op = "send", stack' = WithTop(s, f),
           \/ inbox' = inbox
           \/ inbox # <<>> /\ inbox' = Tail(inbox)
           \/ inbox' = Append(inbox, SendOrder(s)),
           UNCHANGED <<settings, cfg, client, peer, conn, mi>>
    PROVE  GivenAll'
  <1>1. RestOK /\ StackOK
    BY TypeParts
  <1>2. /\ Calling(s)' => Top(s)' = f
        /\ \A t \in Scripts : t # s => stack'[t] = stack[t]
    BY <1>1, TopOrNone
  <1>3. Connecting(s)' => Connecting(s)
    BY <1>1, ConnectingTop
  <1>4. GivenTop(s)'
    BY <1>2 DEF GivenTop
  <1>5. SendOrder(s) \in Orders /\ SendOrder(s).from = s /\ SendOrder(s).kind = "send"
    BY DEF SendOrder, Orders
  <1>6. \A i \in 1..Len(inbox') :
               \/ \E j \in 1..Len(inbox) : inbox'[i] = inbox[j]
               \/ inbox'[i].from = s /\ inbox'[i].kind # "connect"
    <2>1. CASE inbox' = inbox
      BY <2>1
    <2>2. CASE inbox # <<>> /\ inbox' = Tail(inbox)
      BY <1>1, <2>2, InboxTail
    <2>3. CASE inbox' = Append(inbox, SendOrder(s))
      <3>1. \A i \in 1..Len(inbox') :
               inbox'[i] = SendOrder(s) \/ \E j \in 1..Len(inbox) : inbox'[i] = inbox[j]
        BY <1>1, <1>5, <2>3, InboxAppend
      <3> QED
        BY <1>5, <3>1
    <2> QED
      BY <2>1, <2>2, <2>3
  <1>7. Gone => Gone'
    BY DEF Gone
  <1> QED
    BY <1>1, <1>2, <1>3, <1>4, <1>6, <1>7, OneMoves

LEMMA AnswerMoves ==
    ASSUME TypeOK, StackInv, GivenAll, NEW s \in Scripts, Pc(s) \in {"sent", "failed"},
           NEW ok \in BOOLEAN,
           Answer(s, ok), inbox' = inbox \/ (inbox # <<>> /\ inbox' = Tail(inbox)),
           UNCHANGED <<settings, cfg, client, peer, conn, mi>>
    PROVE  GivenAll'
  <1>1. StackOK /\ LocalAll
    BY TypeParts DEF StackInv
  <1>2. Calling(s) /\ Top(s).op = "send" /\ Top(s).pc \in {"sent", "failed"}
    BY <1>1, PcIs, FrameTypes
  <1>3. PICK g \in SendFrames : g = Top(s)
    BY <1>1, <1>2, SendTop
  <1>4. g.tried = g.sent + 1 /\ g.tried \in 0..MaxRepeats /\ g.sent \in 0..MaxRepeats
    <2>1. FrameOk(g, succeeded[s]) /\ g.op = "send" /\ g.pc \in {"sent", "failed"}
      BY <1>1, <1>2, <1>3, SendTop
    <2>2. g.tried \in 0..MaxRepeats /\ g.sent \in 0..MaxRepeats
      BY <1>1, <1>2, <1>3, SendTop
    <2> QED
      BY <2>1, <2>2 DEF FrameOk
  <1>5. PICK n \in 0..MaxRepeats : n = IF ok THEN g.sent + 1 ELSE g.sent
    BY <1>4
  <1> DEFINE f == [g EXCEPT !.pc = "answered", !.sent = n]
  <1>6. f \in Frames /\ f.op = "send"
    BY DEF SendFrames, Frames
  <1>7. stack' = WithTop(s, f)
    BY <1>3, <1>5 DEF Answer
  <1> HIDE DEF f
  <1> QED
    BY <1>2, <1>6, <1>7, SendMoves

\* The innermost call of s connects, alone: only what it says itself matters.
LEMMA ConnectMoves ==
    ASSUME TypeOK, GivenAll, NEW s \in Scripts, Calling(s), Top(s).op = "connect",
           NEW f \in Frames, f.op = "connect", stack' = WithTop(s, f),
           \/ inbox' = inbox
           \/ inbox # <<>> /\ inbox' = Tail(inbox)
           \/ \E o \in Orders : o.from = s /\ inbox' = Append(inbox, o),
           f.gaveUp /\ f.pc \in {"withdraw", "withdrawn", "result", "return"} => settings' = f.old,
           f.gaveUp /\ f.pc \in {"result", "return"} => cfg' = f.old /\ Gone',
           f.pc = "withdrawn" =>
              \A i \in 1..Len(inbox') :
                  inbox'[i].from = s => inbox'[i].conf = f.old /\ ~inbox'[i].on
    PROVE  GivenAll'
  <1>1. RestOK /\ StackOK
    BY TypeParts
  <1>2. /\ Calling(s)' => Top(s)' = f
        /\ \A t \in Scripts : t # s => stack'[t] = stack[t]
    BY <1>1, TopOrNone
  <1>3. Connecting(s)
    BY <1>1, TopConnects
  <1>4. GivenTop(s)'
    BY <1>2 DEF GivenTop
  <1>5. \A i \in 1..Len(inbox') :
            inbox'[i].from = s \/ \E j \in 1..Len(inbox) : inbox'[i] = inbox[j]
    <2>1. CASE inbox' = inbox
      BY <2>1
    <2>2. CASE inbox # <<>> /\ inbox' = Tail(inbox)
      BY <1>1, <2>2, InboxTail
    <2>3. CASE \E o \in Orders : o.from = s /\ inbox' = Append(inbox, o)
      <3>1. PICK o \in Orders : o.from = s /\ inbox' = Append(inbox, o)
        BY <2>3
      <3>2. \A i \in 1..Len(inbox') : inbox'[i] = o \/ \E j \in 1..Len(inbox) : inbox'[i] = inbox[j]
        BY <1>1, <3>1, InboxAppend
      <3> QED
        BY <3>1, <3>2
    <2> QED
      BY <2>1, <2>2, <2>3
  <1> QED
    BY <1>1, <1>2, <1>3, <1>4, <1>5, OneMoves

LEMMA HandleConnectGiven ==
    ASSUME TypeOK, StackInv, GivenAll, HandleConnect PROVE GivenAll'
  <1> USE DEF StackInv
  <1>1. LinkOK /\ RestOK /\ StackOK
    BY TypeParts
  <1>2. PICK o \in Orders : o = Head(inbox)
    BY <1>1, HeadOrder DEF HandleConnect, Takes, RestOK
  <1>3. /\ inbox # <<>> /\ inbox' = Tail(inbox) /\ o.kind = "connect"
        /\ ConnectSlot(o.conf, o.on, o.box) /\ settings' = settings
    BY <1>2 DEF HandleConnect, Takes, Consume, guiVars
  <1>4. 1 \in 1..Len(inbox) /\ inbox[1] = o
    BY <1>1, <1>2, <1>3, TailOrders
  <1>5. CASE o.from = Gui
    <2>1. stack' = stack
      BY <1>2, <1>5 DEF HandleConnect
    <2>2. ~\E s \in Scripts : Connecting(s)
      BY <1>3, <1>4, <1>5, InfAssumption DEF GivenAll, Alone
    <2> QED
      BY <1>1, <2>1, <2>2, NoneMoves
  <1>6. CASE o.from # Gui
    <2>1. PICK s \in Scripts : s = o.from
      BY <1>6, OrderTypes
    <2>2. Pc(s) \in {"ordered", "withdrawn"}
      BY <1>3, <1>4, <1>6, <2>1 DEF QueueInv, Queued
    <2>3. Calling(s) /\ Top(s) \in ConnectFrames /\ Top(s).op = "connect" /\ Pc(s) = Top(s).pc
      BY <1>1, <2>2, PcIs, FrameTypes
    <2>4. PICK pc \in {"wait", "result"} :
              /\ stack' = WithTop(s, [Top(s) EXCEPT !.pc = pc])
              /\ pc = "result" => Top(s).pc = "withdrawn"
      BY <1>2, <1>6, <2>1, <2>2, <2>3 DEF HandleConnect, Go
    <2> DEFINE f == [Top(s) EXCEPT !.pc = pc]
    <2>5. f \in Frames /\ f.pc = pc /\ f.op = "connect" /\ f.old = Top(s).old /\ f.gaveUp = Top(s).gaveUp
      <3>1. pc \in ConnectPcs
        BY DEF ConnectPcs
      <3> QED
        BY <2>3, <3>1, ConnectGoes
    <2>6. stack' = WithTop(s, f)
      BY <2>4
    <2> HIDE DEF f
    <2>7. GivenTop(s)
      BY DEF GivenAll
    <2>8. f.gaveUp /\ f.pc = "result" => settings' = f.old
      BY <1>3, <2>3, <2>4, <2>5, <2>7 DEF GivenTop
    <2>9. ASSUME f.pc = "result" PROVE cfg' = f.old /\ Gone'
      <3>1. o.conf = f.old /\ ~o.on
        BY <1>4, <2>1, <2>3, <2>4, <2>5, <2>7, <2>9 DEF GivenTop
      <3>2. o.conf \in Configs /\ o.on \in BOOLEAN /\ o.box \in BOOLEAN
        BY <1>3, OrderTypes
      <3> QED
        BY <1>1, <1>3, <3>1, <3>2, SlotShape DEF Gone
    <2> QED
      BY <1>3, <2>3, <2>4, <2>5, <2>6, <2>8, <2>9, ConnectMoves
  <1> QED
    BY <1>5, <1>6

LEMMA SendsGiven ==
    ASSUME TypeOK, StackInv, GivenAll, HandleSend \/ \E s \in Scripts : SendEnds(s) PROVE GivenAll'
  <1> USE DEF StackInv
  <1>1. LinkOK /\ RestOK /\ StackOK
    BY TypeParts
  <1>2. CASE HandleSend
    <2>1. PICK o \in Orders : o = Head(inbox)
      BY <1>1, <1>2, HeadOrder DEF HandleSend, Takes, RestOK
    <2>2. /\ inbox # <<>> /\ inbox' = Tail(inbox) /\ o.kind = "send"
          /\ settings' = settings /\ mi = "runs"
      BY <1>2, <2>1 DEF HandleSend, Takes, Consume, guiVars
    <2>3. PICK s \in Scripts : s = o.from
      BY <2>2, OrderTypes
    <2>4. Pc(s) = "sent"
      <3>1. s # Gui
        BY InfAssumption
      <3>2. 1 \in 1..Len(inbox) /\ inbox[1] = o
        BY <1>1, <2>1, <2>2, TailOrders
      <3> QED
        BY <2>2, <2>3, <3>1, <3>2 DEF QueueInv
    <2>5. CASE Answer(s, FALSE) /\ UNCHANGED <<mi, cfg, client, peer, conn>>
      BY <2>2, <2>4, <2>5, AnswerMoves
    <2>6. \A i \in 1..Len(inbox') : \E j \in 1..Len(inbox) : inbox'[i] = inbox[j]
      BY <1>1, <2>2, InboxTail
    <2>7. CASE BeginSend(s)
      <3>1. stack' = stack /\ UNCHANGED <<mi, cfg, client, peer, conn>>
        BY <2>7 DEF BeginSend, link
      <3>2. Gone => Gone'
        BY <3>1 DEF Gone
      <3> QED
        BY <1>1, <2>2, <2>6, <3>1, <3>2, NoneMoves
    <2>8. CASE conn /\ Restart(s)
      <3>1. stack' = SetTop(s, Failed(Top(s))) /\ cfg' = cfg
        BY <2>8 DEF Restart, OpenDevice, Failed
      <3>2. Calling(s) /\ Top(s).op = "send"
        BY <1>1, <2>4, PcIs, FrameTypes
      <3>3. PICK f \in Frames : f = Failed(Top(s)) /\ f.op = "send"
        BY <1>1, <3>2, SendTop, GoesFailed
      <3>4. ~Gone
        BY <2>2, <2>8 DEF Gone
      <3>5. /\ Calling(s)' /\ Top(s)' = f /\ Len(stack[s]) \in Nat \ {0}
            /\ Len(stack'[s]) = Len(stack[s]) /\ stack'[s][Len(stack[s])] = f
            /\ \A i \in 1..(Len(stack[s]) - 1) : stack'[s][i] = stack[s][i]
            /\ \A t \in Scripts : t # s => stack'[t] = stack[t]
        BY <1>1, <3>1, <3>2, <3>3, TopShape, TopIs
      <3>6. GivenTop(s)'
        BY <3>3, <3>5 DEF GivenTop
      <3>7. ASSUME Connecting(s)' PROVE Connecting(s)
        <4>1. PICK i \in 1..Len(stack[s]) : stack'[s][i].op = "connect"
          BY <3>5, <3>7, ConnectingNext
        <4>2. i \in 1..(Len(stack[s]) - 1)
          BY <3>3, <3>5, <4>1
        <4> QED
          BY <3>5, <4>1, <4>2, ConnectingIs
      <3> QED
        BY <1>1, <2>2, <2>6, <3>1, <3>4, <3>5, <3>6, <3>7, OneMoves
    <2> QED
      BY <1>2, <2>1, <2>3, <2>5, <2>7, <2>8 DEF HandleSend, link
  <1>3. ASSUME NEW s \in Scripts, SendEnds(s) PROVE GivenAll'
    <2>1. s \in sending /\ UNCHANGED <<settings, mi, inbox, cfg, client, peer, conn>>
      BY <1>3 DEF SendEnds, guiVars, link
    <2>2. PICK ok \in BOOLEAN : Answer(s, ok)
      BY <1>3 DEF SendEnds
    <2>3. Pc(s) \in {"sent", "failed"}
      BY <2>1 DEF QueueInv
    <2> QED
      BY <2>1, <2>2, <2>3, AnswerMoves
  <1> QED
    BY <1>2, <1>3

LEMMA ConnectionGiven ==
    ASSUME TypeOK, GivenAll,
           ClientConnects \/ ClientDisconnects \/ ClientError \/ PeerConnects \/ PeerLeaves \/ CloseBox
    PROVE  GivenAll'
  <1>1. StackOK /\ LinkOK
    BY TypeParts
  <1>2. UNCHANGED <<settings, inbox, stack>>
    BY DEF ClientConnects, ClientDisconnects, ClientError, PeerConnects, PeerLeaves, CloseBox, guiVars
  <1>3. cfg' = cfg
    <2>1. CASE PeerLeaves
      BY <1>1, <2>1, SlotShape DEF PeerLeaves, LinkOK
    <2>2. CASE ~PeerLeaves
      BY <2>2 DEF ClientConnects, ClientDisconnects, ClientError, PeerConnects, CloseBox,
         Disconnect, link
    <2> QED
      BY <2>1, <2>2
  <1>4. ASSUME Gone PROVE Gone'
    <2>1. ~PeerConnects /\ ~PeerLeaves
      BY <1>4 DEF Gone, PeerConnects, PeerLeaves
    <2>2. CASE ClientConnects
      BY <1>4, <2>2 DEF Gone, ClientConnects
    <2>4. CASE ClientDisconnects
      BY <1>4, <2>4 DEF Gone, ClientDisconnects
    <2>5. CASE ClientError
      <3>1. mi = "runs" /\ conn \in BOOLEAN
        BY <1>1, <2>5 DEF ClientError, LinkOK
      <3>2. conn = FALSE /\ client # "up" /\ peer = "closed"
        BY <1>4, <3>1 DEF Gone
      <3>3. (conn' = conn \/ conn' = FALSE) /\ client' = "idle" /\ (peer' = peer \/ peer' = "closed")
        BY <2>5, <3>2 DEF ClientError
      <3> QED
        BY <3>2, <3>3 DEF Gone
    <2>3. CASE CloseBox
      <3>1. mi \in Boxes /\ conn = FALSE
        BY <1>1, <1>4, <2>3 DEF CloseBox, Gone, LinkOK, Boxes
      <3>2. CASE UNCHANGED <<conn, client, peer>>
        BY <1>4, <3>1, <3>2 DEF Gone
      <3>3. CASE Disconnect(cfg, TRUE)
        BY <3>3 DEF Gone, Disconnect, ClosedClient
      <3> QED
        BY <2>3, <3>2, <3>3 DEF CloseBox, link
    <2> QED
      BY <2>1, <2>2, <2>3, <2>4, <2>5
  <1>5. \A i \in 1..Len(inbox') : \E j \in 1..Len(inbox) : inbox'[i] = inbox[j]
    BY <1>2
  <1> QED
    BY <1>1, <1>2, <1>3, <1>4, <1>5, NoneMoves

LEMMA GuiGiven ==
    ASSUME TypeOK, GivenAll, ~mixed', PressConnect \/ Close \/ Exit \/ HandleExit PROVE GivenAll'
  <1>1. RestOK /\ StackOK
    BY TypeParts
  <1>2. CASE PressConnect \/ Close
    <2>1. stack' = stack /\ ~\E s \in Scripts : Connecting(s)
      BY <1>2 DEF PressConnect, Close, Overlap, scriptVars
    <2> QED
      BY <1>1, <2>1, NoneMoves
  <1>3. CASE Exit
    <2>1. UNCHANGED <<stack, settings, cfg, client, peer, conn, mi>> /\ inbox' = Append(inbox, ExitOrder)
      BY <1>3 DEF Exit, link, scriptVars
    <2>2. ExitOrder \in Orders /\ ExitOrder.from \notin Scripts /\ ExitOrder.kind # "connect"
      BY InfAssumption DEF ExitOrder, Orders
    <2>3. \A i \in 1..Len(inbox') :
               inbox'[i] = ExitOrder \/ \E j \in 1..Len(inbox) : inbox'[i] = inbox[j]
      BY <1>1, <2>1, <2>2, InboxAppend
    <2>4. Gone => Gone'
      BY <2>1 DEF Gone
    <2> QED
      BY <1>1, <2>1, <2>2, <2>3, <2>4, NoneMoves
  <1>4. CASE HandleExit
    <2>1. /\ UNCHANGED <<stack, settings, cfg, client, peer, conn>> /\ mi = "runs"
          /\ inbox # <<>> /\ inbox' = Tail(inbox)
      BY <1>4 DEF HandleExit, Takes, Consume, link, scriptVars
    <2>2. \A i \in 1..Len(inbox') : \E j \in 1..Len(inbox) : inbox'[i] = inbox[j]
      BY <1>1, <2>1, InboxTail
    <2>3. Gone => Gone'
      BY <2>1 DEF Gone
    <2> QED
      BY <1>1, <2>1, <2>2, <2>3, NoneMoves
  <1> QED
    BY <1>2, <1>3, <1>4

LEMMA SettingsGiven ==
    ASSUME TypeOK, StackInv, GivenAll, NEW s \in Scripts, SetSettings(s) PROVE GivenAll'
  <1>1. RestOK /\ StackOK
    BY TypeParts
  <1>2. PICK pc \in {"order", "withdraw"} :
            /\ Calling(s) /\ Top(s).pc \in {"set", "restore"} /\ Top(s).op = "connect"
            /\ stack' = WithTop(s, [Top(s) EXCEPT !.pc = pc])
            /\ pc = "withdraw" => settings' = Top(s).old
    BY DEF SetSettings, TakesSettings, At, Go
  <1>3. Top(s) \in ConnectFrames /\ inbox' = inbox
    BY <1>1, <1>2, TopIs, FrameTypes DEF SetSettings
  <1> DEFINE f == [Top(s) EXCEPT !.pc = pc]
  <1>4. f \in Frames /\ f.pc = pc /\ f.op = "connect" /\ f.old = Top(s).old
    <2>1. pc \in ConnectPcs
      BY DEF ConnectPcs
    <2> QED
      BY <1>3, <2>1, ConnectGoes
  <1>5. stack' = WithTop(s, f)
    BY <1>2
  <1> HIDE DEF f
  <1> QED
    BY <1>2, <1>3, <1>4, <1>5, ConnectMoves

LEMMA PostGiven ==
    ASSUME TypeOK, StackInv, GivenAll, NEW s \in Scripts, PostConnect(s) PROVE GivenAll'
  <1> USE DEF StackInv
  <1>1. RestOK /\ StackOK
    BY TypeParts
  <1>2. PICK pc \in {"ordered", "withdrawn"}, c \in {Top(s).new, Top(s).old}, on \in BOOLEAN :
            /\ Calling(s) /\ Top(s).pc \in {"order", "withdraw"} /\ Top(s).op = "connect"
            /\ stack' = WithTop(s, [Top(s) EXCEPT !.pc = pc])
            /\ inbox' = Append(inbox, ConnectOrder(s, c, on, FALSE))
            /\ pc = "withdrawn" => Top(s).pc = "withdraw" /\ c = Top(s).old /\ on = FALSE
    BY DEF PostConnect, Withdrawal, At, Go
  <1>3. Top(s) \in ConnectFrames /\ settings' = settings
    BY <1>1, <1>2, TopIs, FrameTypes DEF PostConnect, guiVars
  <1> DEFINE f == [Top(s) EXCEPT !.pc = pc]
  <1>4. f \in Frames /\ f.pc = pc /\ f.op = "connect" /\ f.old = Top(s).old /\ f.gaveUp = Top(s).gaveUp
    <2>1. pc \in ConnectPcs
      BY DEF ConnectPcs
    <2> QED
      BY <1>3, <2>1, ConnectGoes
  <1>5. stack' = WithTop(s, f)
    BY <1>2
  <1> HIDE DEF f
  <1>6. PICK o \in Orders : o.from = s /\ o.conf = c /\ o.on = on /\ inbox' = Append(inbox, o)
    <2>1. c \in Configs
      BY <1>3 DEF ConnectFrames
    <2>2. /\ ConnectOrder(s, c, on, FALSE) \in Orders /\ ConnectOrder(s, c, on, FALSE).from = s
          /\ ConnectOrder(s, c, on, FALSE).conf = c /\ ConnectOrder(s, c, on, FALSE).on = on
      BY <2>1 DEF ConnectOrder, Orders
    <2> QED
      BY <1>2, <2>2
  <1>7. f.gaveUp /\ f.pc = "withdrawn" => settings' = f.old
    BY <1>2, <1>3, <1>4 DEF GivenAll, GivenTop
  <1>8. ASSUME f.pc = "withdrawn", NEW i \in 1..Len(inbox'), inbox'[i].from = s
        PROVE  inbox'[i].conf = f.old /\ ~inbox'[i].on
    <2>1. Pc(s) \notin MainWaits
      BY <1>2 DEF Pc, MainWaits
    <2>2. \A j \in 1..Len(inbox) : inbox[j].from # s
      BY <2>1, InfAssumption DEF QueueInv, Queued, MainWaits
    <2>3. inbox'[i] = o
      BY <1>1, <1>6, <1>8, <2>2, InboxAppend
    <2> QED
      BY <1>2, <1>4, <1>6, <1>8, <2>3
  <1> QED
    BY <1>2, <1>4, <1>5, <1>6, <1>7, <1>8, ConnectMoves

\* The wait ends, or the result is taken: a connect that has given up has
\* withdrawn by then.
LEMMA WaitGiven ==
    ASSUME TypeOK, StackInv, GivenAll, NEW s \in Scripts, WaitEnds(s) \/ Result(s) PROVE GivenAll'
  <1>1. LinkOK /\ StackOK /\ isConn[s] \in BOOLEAN
    BY TypeParts DEF LinkOK
  <1>2. /\ Calling(s) /\ Top(s).op = "connect"
        /\ UNCHANGED <<settings, inbox, cfg, client, peer, conn, mi>>
    BY DEF WaitEnds, Result, At, guiVars, link
  <1>3. Top(s) \in ConnectFrames
    BY <1>1, <1>2, TopIs, FrameTypes
  <1>4. PICK g \in ConnectFrames : g = Top(s)
    BY <1>3
  <1>5. PICK b \in BOOLEAN : b = isConn[s]
    BY <1>1
  <1>6. CASE WaitEnds(s)
    <2>1. PICK pc \in {"result", "restore"} :
              /\ stack' = WithTop(s, [g EXCEPT !.pc = pc, !.gaveUp = ~b])
              /\ pc = "result" => b
      BY <1>4, <1>5, <1>6 DEF WaitEnds
    <2> DEFINE f == [g EXCEPT !.pc = pc, !.gaveUp = ~b]
    <2>2. f \in Frames /\ f.op = "connect" /\ f.pc = pc /\ f.gaveUp = ~b
      BY DEF ConnectFrames, Frames
    <2>3. stack' = WithTop(s, f)
      BY <2>1
    <2> HIDE DEF f
    <2> QED
      BY <1>2, <2>1, <2>2, <2>3, ConnectMoves
  <1>7. CASE Result(s)
    <2> DEFINE f == [g EXCEPT !.pc = "return", !.ok = b]
    <2>1. f \in Frames /\ f.op = "connect" /\ f.pc = "return" /\ f.gaveUp = g.gaveUp /\ f.old = g.old
      BY DEF ConnectFrames, Frames
    <2>2. stack' = WithTop(s, f) /\ g.pc = "result"
      BY <1>4, <1>5, <1>7 DEF Result, At
    <2> HIDE DEF f
    <2>3. f.gaveUp => settings = f.old /\ cfg = f.old /\ Gone
      BY <1>2, <1>4, <2>1, <2>2 DEF GivenAll, GivenTop
    <2>4. Gone => Gone'
      BY <1>2 DEF Gone
    <2> QED
      BY <1>2, <2>1, <2>2, <2>3, <2>4, ConnectMoves
  <1> QED
    BY <1>6, <1>7

LEMMA SendStepGiven ==
    ASSUME TypeOK, StackInv, GivenAll, NEW s \in Scripts,
           Repeat(s) \/ RepeatedAll(s) \/ ContinueSend(s)
    PROVE  GivenAll'
  <1>1. LinkOK /\ RestOK /\ StackOK /\ LocalAll /\ succeeded[s] \in BOOLEAN
    BY TypeParts DEF StackInv, RestOK
  <1>2. /\ Calling(s) /\ Top(s).op = "send"
        /\ UNCHANGED <<settings, cfg, client, peer, conn, mi>>
        /\ inbox' = inbox \/ inbox' = Append(inbox, SendOrder(s))
    BY DEF Repeat, RepeatedAll, ContinueSend, AfterAnswer, At, guiVars, link
  <1>3. PICK g \in SendFrames : g = Top(s)
    BY <1>1, <1>2, SendTop
  <1>4. ASSUME NEW f \in Frames, f.op = "send", stack' = WithTop(s, f) PROVE GivenAll'
    BY <1>2, <1>4, SendMoves
  <1>5. ASSUME NEW pc \in SendPcs, stack' = WithTop(s, [g EXCEPT !.pc = pc]) PROVE GivenAll'
    <2>1. PICK f \in Frames : f = [g EXCEPT !.pc = pc] /\ f.op = "send"
      BY GoesPc
    <2>2. stack' = WithTop(s, f)
      BY <1>5, <2>1
    <2> QED
      BY <1>4, <2>1, <2>2
  <1>6. ASSUME g.tried < g.want, stack' = WithTop(s, [g EXCEPT !.pc = "sent", !.tried = g.tried + 1])
        PROVE  GivenAll'
    <2>1. g.tried \in 0..MaxRepeats /\ g.want \in 0..MaxRepeats
      BY <1>1, <1>2, <1>3, SendTop
    <2>2. PICK n \in 0..MaxRepeats : n = g.tried + 1
      BY <1>6, <2>1, InfAssumption
    <2>3. Tried(g, n) \in Frames /\ Tried(g, n).op = "send"
      BY GoesTried
    <2>4. stack' = WithTop(s, Tried(g, n))
      BY <1>6, <2>2 DEF Tried
    <2> QED
      BY <1>4, <2>3, <2>4
  <1>7. ASSUME NEW pc \in SendPcs, stack' = WithTop(s, [g EXCEPT !.ok = succeeded[s], !.pc = pc])
        PROVE  GivenAll'
    <2>1. PICK b \in BOOLEAN : b = succeeded[s]
      BY <1>1
    <2>2. Took(g, pc, b) \in Frames /\ Took(g, pc, b).op = "send"
      BY GoesOk
    <2>3. stack' = WithTop(s, Took(g, pc, b))
      BY <1>7, <2>1 DEF Took
    <2> QED
      BY <1>4, <2>2, <2>3
  <1>8. CASE Repeat(s)
    BY <1>3, <1>5, <1>6, <1>8 DEF Repeat, Go, More, SendPcs
  <1>9. CASE RepeatedAll(s)
    BY <1>3, <1>5, <1>9 DEF RepeatedAll, Go, SendPcs
  <1>10. CASE ContinueSend(s)
    <2>1. CASE Go(s, "loop")
      BY <1>3, <1>5, <2>1 DEF Go, SendPcs
    <2>2. CASE stack' = WithTop(s, [g EXCEPT
                        !.ok = succeeded[s],
                        !.pc = IF ~succeeded[s] THEN "return"
                               ELSE IF g.pc = "answered" /\ g.want > 1 THEN "gap"
                               ELSE "loop"])
      BY <1>7, <2>2 DEF SendPcs
    <2> QED
      BY <1>3, <1>10, <2>1, <2>2 DEF ContinueSend, AfterAnswer
  <1> QED
    BY <1>8, <1>9, <1>10

LEMMA CallSendGiven ==
    ASSUME TypeOK, GivenAll, NEW s \in Scripts, CallSend(s) PROVE GivenAll'
  <1>1. StackOK /\ RestOK
    BY TypeParts
  <1>2. PICK n \in 1..MaxRepeats : stack' = [stack EXCEPT ![s] = Append(@, SendFrame(n))]
    BY DEF CallSend
  <1>3. UNCHANGED <<settings, inbox, cfg, client, peer, conn, mi>>
    BY DEF CallSend, guiVars, link
  <1>4. PICK f : f = SendFrame(n)
    OBVIOUS
  <1>5. f \in Frames /\ f.op = "send"
    BY <1>4, InfAssumption DEF SendFrame, SendFrames, Frames
  <1>6. /\ Calling(s)' /\ Top(s)' = f /\ Len(stack[s]) \in Nat
        /\ Len(stack'[s]) = Len(stack[s]) + 1 /\ stack'[s][Len(stack[s]) + 1] = f
        /\ \A i \in 1..Len(stack[s]) : stack'[s][i] = stack[s][i]
        /\ \A t \in Scripts : t # s => stack'[t] = stack[t]
    BY <1>1, <1>2, <1>4, <1>5, PushShape
  <1>7. ASSUME Connecting(s)' PROVE Connecting(s)
    <2>1. PICK i \in 1..Len(stack'[s]) : stack'[s][i].op = "connect"
      BY <1>7, ConnectingNext
    <2>2. i \in 1..Len(stack[s]) \/ i = Len(stack[s]) + 1
      BY <1>6, <2>1
    <2> QED
      BY <1>5, <1>6, <2>1, <2>2, ConnectingIs
  <1>8. GivenTop(s)'
    BY <1>5, <1>6 DEF GivenTop
  <1>9. (Gone => Gone') /\ \A i \in 1..Len(inbox') : \E j \in 1..Len(inbox) : inbox'[i] = inbox[j]
    BY <1>3 DEF Gone
  <1> QED
    BY <1>1, <1>3, <1>6, <1>7, <1>8, <1>9, OneMoves

LEMMA CallConnectGiven ==
    ASSUME TypeOK, GivenAll, NEW s \in Scripts, NEW c \in Configs, CallConnect(s, c), ~mixed'
    PROVE  GivenAll'
  <1>1. StackOK
    BY TypeParts
  <1>2. /\ stack' = [stack EXCEPT ![s] = Append(@, ConnectFrame(c))]
        /\ inbox' = inbox /\ settings \in Configs
        /\ ~ConnectPosted /\ \A t \in Scripts : t # s => ~Connecting(t)
    BY DEF CallConnect, TypeOK
  <1>3. PICK f : f = ConnectFrame(c)
    OBVIOUS
  <1>4. f \in Frames /\ f.pc = "set" /\ ~f.gaveUp
    BY <1>2, <1>3 DEF ConnectFrame, ConnectFrames, Frames
  <1>5. /\ Calling(s)' /\ Top(s)' = f
        /\ \A t \in Scripts : t # s => stack'[t] = stack[t]
    BY <1>1, <1>2, <1>3, <1>4, PushShape
  <1>6. \A t \in Scripts : t # s => ~Connecting(t)'
    BY <1>2, <1>5, ConnectingIs, ConnectingNext
  <1>7. Alone'
    BY <1>2, <1>6 DEF Alone, ConnectPosted
  <1>8. GivenTop(s)'
    BY <1>4, <1>5 DEF GivenTop
  <1>9. ASSUME NEW t \in Scripts, t # s PROVE GivenTop(t)'
    <2>1. (Calling(t)' <=> Calling(t)) /\ Top(t)' = Top(t)
      BY <1>5, <1>9 DEF Calling, Top
    <2>2. ~(Calling(t) /\ Top(t).op = "connect")
      BY <1>1, <1>2, <1>9, TopConnects
    <2> QED
      BY <2>1, <2>2 DEF GivenTop
  <1> QED
    BY <1>7, <1>8, <1>9 DEF GivenAll

LEMMA ReturnGiven ==
    ASSUME TypeOK, StackInv, GivenAll, NEW s \in Scripts, Return(s) PROVE GivenAll'
  <1>1. RestOK /\ StackOK
    BY TypeParts
  <1>2. /\ Calling(s)
        /\ stack' = [stack EXCEPT ![s] = SubSeq(@, 1, Len(@) - 1)]
        /\ UNCHANGED <<settings, inbox, cfg, client, peer, conn, mi, succeeded, state>>
    BY DEF Return, guiVars, link
  <1>3. /\ Len(stack'[s]) = Len(stack[s]) - 1 /\ Len(stack[s]) \in Nat \ {0}
        /\ \A i \in 1..(Len(stack[s]) - 1) : stack'[s][i] = stack[s][i]
        /\ \A t \in Scripts : t # s => stack'[t] = stack[t]
    BY <1>1, <1>2, PopShape, TopIs
  <1>4. Pc(s)' \in Lower \cup {"none"}
    BY <1>1, <1>2, LocalPop DEF StackInv
  <1>5. Calling(s)' => Top(s)'.pc \in Lower
    <2>1. Calling(s)' => Pc(s)' = Top(s)'.pc /\ Len(stack[s]) - 1 \in 1..(Len(stack[s]) - 1)
                         /\ Top(s)' = stack[s][Len(stack[s]) - 1]
      BY <1>1, <1>2, PopShape DEF Pc
    <2> QED
      BY <2>1 DEF StackInv, LocalAll, LocalInv
  <1>6. GivenTop(s)'
    BY <1>5 DEF GivenTop, Lower
  <1>7. ASSUME Connecting(s)' PROVE Connecting(s)
    <2>1. PICK i \in 1..Len(stack'[s]) : stack'[s][i].op = "connect"
      BY <1>7, ConnectingNext
    <2>2. i \in 1..(Len(stack[s]) - 1) /\ i \in 1..Len(stack[s])
      BY <1>3, <2>1
    <2> QED
      BY <1>3, <2>1, <2>2, ConnectingIs
  <1>8. (Gone => Gone') /\ \A i \in 1..Len(inbox') : \E j \in 1..Len(inbox) : inbox'[i] = inbox[j]
    BY <1>2 DEF Gone
  <1> QED
    BY <1>1, <1>2, <1>3, <1>6, <1>7, <1>8, OneMoves

LEMMA TerminateGiven ==
    ASSUME TypeOK, GivenAll, NEW s \in Scripts, Terminate(s) PROVE GivenAll'
  <1>1. StackOK
    BY TypeParts
  <1>2. UNCHANGED <<settings, inbox, cfg, client, peer, conn, mi>>
    BY DEF Terminate, guiVars, link
  <1>3. /\ Calling(s)' => Calling(s) /\ stack'[s] = <<Top(s)>> /\ Top(s)' = Top(s)
        /\ \A t \in Scripts : t # s => stack'[t] = stack[t]
    BY <1>1, TerminateShape
  <1>4. GivenTop(s)'
    BY <1>2, <1>3 DEF GivenAll, GivenTop, Gone
  <1>5. ASSUME Connecting(s)' PROVE Connecting(s)
    <2>1. stack'[s] # <<>>
      BY <1>5, EmptySeq, ConnectingNext
    <2>2. Calling(s) /\ stack'[s] = <<Top(s)>>
      BY <1>3, <2>1 DEF Calling
    <2>3. Len(stack'[s]) = 1 /\ stack'[s][1] = Top(s)
      BY <2>2
    <2>4. Top(s).op = "connect"
      BY <1>5, <2>3, ConnectingNext
    <2> QED
      BY <1>1, <2>2, <2>4, TopConnects
  <1>6. (Gone => Gone') /\ \A i \in 1..Len(inbox') : \E j \in 1..Len(inbox) : inbox'[i] = inbox[j]
    BY <1>2 DEF Gone
  <1> QED
    BY <1>1, <1>2, <1>3, <1>4, <1>5, <1>6, OneMoves

LEMMA GivenStep ==
    ASSUME TypeOK, StackInv, GivenInv, [Next]_vars PROVE GivenInv'
  <1>1. mixed => mixed'
    BY DEF Next, MainStep, ScriptStep, vars, history, Overlap,
       HandleConnect, HandleSend, HandleExit, ClientConnects, ClientDisconnects, ClientError,
       PeerConnects, PeerLeaves, CloseBox, PressConnect, Close, Exit, SendEnds, SetSettings,
       Create, InitSignals, End, Stop, Terminate, CallSend, CallConnect, Repeat, RepeatedAll,
       ContinueSend, PostConnect, WaitEnds, Result, Return
  <1> SUFFICES ASSUME ~mixed' PROVE GivenAll'
    BY DEF GivenInv
  <1>2. GivenAll /\ StackOK
    BY <1>1, TypeParts DEF GivenInv
  <1>3. ASSUME UNCHANGED <<settings, inbox, cfg, client, peer, conn, mi, stack>> PROVE GivenAll'
    <2>1. (Gone => Gone') /\ \A i \in 1..Len(inbox') : \E j \in 1..Len(inbox) : inbox'[i] = inbox[j]
      BY <1>3 DEF Gone
    <2> QED
      BY <1>2, <1>3, <2>1, NoneMoves
  <1>4. CASE UNCHANGED vars
    BY <1>3, <1>4 DEF vars
  <1>5. ASSUME NEW s \in Scripts, Create(s) \/ InitSignals(s) \/ End(s) \/ Stop(s) PROVE GivenAll'
    BY <1>3, <1>5 DEF Create, InitSignals, End, Stop, guiVars, link
  <1>6. ASSUME NEW s \in Scripts, ScriptStep(s) PROVE GivenAll'
    BY <1>2, <1>6, SendStepGiven, PostGiven, WaitGiven, ReturnGiven DEF ScriptStep
  <1>7. ASSUME NEW s \in Scripts,
               \/ SendEnds(s) \/ SetSettings(s) \/ Terminate(s) \/ CallSend(s)
               \/ \E c \in Configs : CallConnect(s, c)
        PROVE  GivenAll'
    BY <1>2, <1>7, SendsGiven, SettingsGiven, TerminateGiven, CallSendGiven, CallConnectGiven
  <1>8. CASE HandleConnect \/ HandleSend
    BY <1>2, <1>8, HandleConnectGiven, SendsGiven
  <1>9. CASE \/ ClientConnects \/ ClientDisconnects \/ ClientError \/ PeerConnects \/ PeerLeaves
             \/ CloseBox
    BY <1>2, <1>9, ConnectionGiven
  <1>10. CASE PressConnect \/ Close \/ Exit \/ HandleExit
    BY <1>2, <1>10, GuiGiven
  <1> QED
    BY <1>4, <1>5, <1>6, <1>7, <1>8, <1>9, <1>10 DEF Next, MainStep

LEMMA GivenInit == ASSUME Init PROVE GivenInv
  <1>1. \A s \in Scripts : stack[s] = <<>>
    BY DEF Init
  <1>2. \A s \in Scripts : ~Calling(s) /\ Len(stack[s]) = 0
    BY <1>1, EmptySeq DEF Calling
  <1> QED
    BY <1>2, ConnectingIs DEF GivenInv, GivenAll, Alone, GivenTop
-----------------------------------------------------------------------------
(***************************************************************************)
(* The theorems                                                            *)
(***************************************************************************)
LEMMA Always == SafeSpec => [](TypeOK /\ FlagInv /\ StackInv /\ GivenInv)
  <1> DEFINE I == TypeOK /\ FlagInv /\ StackInv /\ GivenInv
  <1>1. Init => I
    BY LinkInit, StackInit, GivenInit, TypeParts
  <1>2. I /\ [Next]_vars => I'
    <2> SUFFICES ASSUME I, [Next]_vars PROVE I'
      OBVIOUS
    <2>1. LinkOK /\ RestOK /\ StackOK
      BY TypeParts
    <2>2. LinkOK' /\ FlagInv'
      BY <2>1, LinkStep
    <2>3. RestOK' /\ StackOK' /\ StackInv'
      BY StackStep, StackStays
    <2>4. TypeOK'
      BY <2>2, <2>3 DEF TypeOK, LinkOK, RestOK, StackOK, Frames
    <2>5. GivenInv'
      BY GivenStep
    <2> QED
      BY <2>2, <2>3, <2>4, <2>5
  <1> QED
    BY <1>1, <1>2, PTL DEF SafeSpec

\* Connection, queue, call frames and counters keep their types.
THEOREM TypeCorrect == SafeSpec => []TypeOK
  BY Always, PTL

\* A running script that missed no announcement while it started knows whether
\* the main interface is connected, unless a message box delays the announcement.
THEOREM FlagsCurrent == SafeSpec => []FlagIsCurrent
  <1>1. FlagInv => FlagIsCurrent
    BY DEF FlagInv, FlagIsCurrent, Known, Boxes, Running
  <1> QED
    BY <1>1, Always, PTL

\* A send returns true exactly when all it handed over, at least one, was reported
\* as sent to this call, however calls of handlers and other scripts interleave.
THEOREM AnswersOwn == SafeSpec => []AnswerIsOwn
  <1>1. StackInv => AnswerIsOwn
    BY DEF StackInv, LocalAll, LocalInv, FrameOk, AnswerIsOwn, FramesOf
  <1> QED
    BY <1>1, Always, PTL

\* A running script that waits for the main interface thread has exactly one order
\* there, and the thread is there; nothing else is queued or being sent for scripts
\* but the one order each terminated script was waiting for.
THEOREM OrdersOfWaiters == SafeSpec => []WaitersHaveOrders
  <1>1. ASSUME TypeOK, StackInv PROVE WaitersHaveOrders
    <2>1. RestOK /\ StackOK
      BY <1>1, TypeParts
    <2> SUFFICES ASSUME NEW s \in Scripts
                 PROVE  /\ s \in sending \/ OrdersOf(s) # {} => Awaits(s)
                        /\ s \in sending => OrdersOf(s) = {}
                        /\ \A i, j \in OrdersOf(s) : i = j
                        /\ Running(s) /\ Awaits(s) =>
                              mi # "ended" /\ (s \in sending \/ OrdersOf(s) # {})
      BY DEF WaitersHaveOrders
    <2>2. QueueOf(s) /\ s # Gui
      BY <1>1, <2>1, QueueByScript, InfAssumption DEF StackInv
    <2>3. OrdersOf(s) # {} <=> Posted(s)
      BY DEF OrdersOf, Posted
    <2>4. s \in sending \/ OrdersOf(s) # {} => Awaits(s)
      <3>1. s \in sending \/ OrdersOf(s) # {} => Pc(s) \in MainWaits
        BY <2>2 DEF QueueOf, OrdersOf, Queued, MainWaits
      <3> QED
        BY <2>1, <3>1, PcIs DEF Awaits, MainWaits
    <2>5. \A i, j \in OrdersOf(s) : i = j
      BY <2>2 DEF QueueOf, OrdersOf
    <2>6. ASSUME Running(s), Awaits(s) PROVE mi # "ended" /\ (s \in sending \/ OrdersOf(s) # {})
      <3>1. Pc(s) \in MainWaits
        BY <2>6 DEF Pc, Awaits
      <3> QED
        BY <1>1, <2>2, <2>3, <2>6, <3>1, RunnerGoesOn DEF QueueOf
    <2> QED
      BY <2>2, <2>3, <2>4, <2>5, <2>6 DEF QueueOf
  <1> QED
    BY <1>1, Always, PTL

\* A connect that returns after it gave up has left nothing behind: the old
\* settings are back and no connection exists or comes, as long as no orders to
\* connect of several parties overlapped.
THEOREM GivenUp == SafeSpec => []GivenUpIsWithdrawn
  <1>1. ASSUME GivenInv PROVE GivenUpIsWithdrawn
    <2> SUFFICES ASSUME NEW s \in Scripts, At(s, "connect", "return"), Top(s).gaveUp, ~mixed
                 PROVE  /\ settings = Top(s).old /\ cfg = Top(s).old
                        /\ client \notin {"connecting", "up"} /\ peer = "closed"
                        /\ conn => mi = "vain"
      BY DEF GivenUpIsWithdrawn
    <2> QED
      BY <1>1 DEF GivenInv, GivenAll, GivenTop, Gone, At
  <1> QED
    BY <1>1, Always, PTL
-----------------------------------------------------------------------------
(***************************************************************************)
(* Who waits for whom.                                                     *)
(***************************************************************************)
ExitPosted == \E i \in 1..Len(inbox) : inbox[i].kind = "exit"

\* The scripts have been told to exit before the GUI thread waits for them, and the
\* main interface thread before the GUI thread waits for it.
ClosingInv ==
    /\ gui # "open" => \A s \in Scripts : shallExit[s]
    /\ gui = "exiting" => ExitPosted

\* The order to exit stays in the queue until the main interface thread takes it.
LEMMA ExitStays ==
    ASSUME RestOK, ExitPosted,
           \/ inbox' = inbox
           \/ \E o : inbox' = Append(inbox, o)
           \/ inbox # <<>> /\ inbox' = Tail(inbox) /\ Head(inbox).kind # "exit"
    PROVE  ExitPosted'
  <1>1. PICK i \in 1..Len(inbox) : inbox[i].kind = "exit"
    BY DEF ExitPosted
  <1>2. inbox \in Seq(Orders) /\ Len(inbox) \in Nat
    BY LenProperties DEF RestOK
  <1>3. CASE inbox' = inbox
    BY <1>1, <1>3 DEF ExitPosted
  <1>4. ASSUME NEW o, inbox' = Append(inbox, o) PROVE ExitPosted'
    <2>1. inbox \in Seq(Orders \cup {o})
      BY <1>2, ElementOfSeq, IsASeq
    <2>2. Len(inbox') = Len(inbox) + 1 /\ inbox'[i] = inbox[i]
      BY <1>1, <1>4, <2>1, AppendProperties
    <2> QED
      BY <1>1, <1>2, <2>2 DEF ExitPosted
  <1>5. CASE inbox # <<>> /\ inbox' = Tail(inbox) /\ Head(inbox).kind # "exit"
    <2>1. /\ Head(inbox) = inbox[1] /\ Len(inbox') = Len(inbox) - 1
          /\ \A j \in 1..(Len(inbox) - 1) : inbox'[j] = inbox[j + 1]
      BY <1>2, <1>5, HeadOrder
    <2>2. i # 1
      BY <1>1, <1>5, <2>1
    <2>3. PICK j \in 1..(Len(inbox) - 1) : i = j + 1
      <3>1. i - 1 \in 1..(Len(inbox) - 1) /\ i = (i - 1) + 1
        BY <1>2, <2>2
      <3> QED
        BY <3>1
    <2>4. inbox'[j] = inbox[i]
      BY <2>1, <2>3
    <2> QED
      BY <1>1, <2>1, <2>3, <2>4 DEF ExitPosted
  <1> QED
    BY <1>3, <1>4, <1>5

LEMMA ClosingKept ==
    ASSUME RestOK, ClosingInv, UNCHANGED <<gui, shallExit>>,
           \/ inbox' = inbox
           \/ \E o : inbox' = Append(inbox, o)
           \/ inbox # <<>> /\ inbox' = Tail(inbox) /\ Head(inbox).kind # "exit"
    PROVE  ClosingInv'
  BY ExitStays DEF ClosingInv

LEMMA ClosingStep == ASSUME RestOK, StackInv, ClosingInv, [Next]_vars PROVE ClosingInv'
  <1>1. CASE HandleConnect \/ HandleSend
    <2>1. inbox # <<>> /\ inbox' = Tail(inbox) /\ Head(inbox).kind # "exit"
      BY <1>1 DEF HandleConnect, HandleSend, Takes, Consume
    <2>2. UNCHANGED <<gui, shallExit>>
      BY <1>1 DEF HandleConnect, HandleSend, guiVars
    <2> QED
      BY <2>1, <2>2, ClosingKept
  <1>2. CASE HandleExit
    \* The order to exit is posted only after the scripts have been told.
    <2>1. /\ inbox # <<>> /\ Head(inbox).kind = "exit" /\ gui' = "closed"
          /\ shallExit' = shallExit
      BY <1>2 DEF HandleExit, Takes, scriptVars
    <2>2. Head(inbox) = inbox[1] /\ 1 \in 1..Len(inbox)
      BY <2>1, HeadOrder DEF RestOK
    <2>3. gui \in {"exiting", "closed"}
      BY <2>1, <2>2 DEF StackInv, ExitInv
    <2> QED
      BY <2>1, <2>3 DEF ClosingInv
  <1>3. CASE ClientConnects \/ ClientDisconnects \/ ClientError \/ PeerConnects \/ PeerLeaves
             \/ CloseBox
    <2>1. UNCHANGED <<gui, shallExit, inbox>>
      BY <1>3 DEF ClientConnects, ClientDisconnects, ClientError, PeerConnects, PeerLeaves,
                  CloseBox, guiVars
    <2> QED
      BY <2>1, ClosingKept
  <1>4. CASE PressConnect
    <2>1. UNCHANGED <<gui, shallExit>> /\ \E o : inbox' = Append(inbox, o)
      BY <1>4 DEF PressConnect, guiVars, scriptVars
    <2> QED
      BY <2>1, ClosingKept
  <1>5. CASE Close
    BY <1>5 DEF Close, ToldToExit, ClosingInv
  <1>6. CASE Exit
    <2>1. gui = "stopping" /\ inbox' = Append(inbox, ExitOrder) /\ shallExit' = shallExit
      BY <1>6 DEF Exit, scriptVars
    <2>2. /\ Len(inbox) \in Nat /\ Len(inbox') = Len(inbox) + 1
          /\ inbox'[Len(inbox) + 1] = ExitOrder
      BY <2>1, AppendProperties, LenProperties DEF RestOK, Orders
    <2>3. ExitPosted'
      BY <2>2 DEF ExitPosted, ExitOrder
    <2> QED
      BY <2>1, <2>3 DEF ClosingInv
  <1>7. ASSUME NEW s \in Scripts,
               \/ SendEnds(s) \/ SetSettings(s) \/ Create(s) \/ InitSignals(s) \/ End(s)
               \/ Terminate(s) \/ CallSend(s) \/ RepeatedAll(s) \/ ContinueSend(s) \/ WaitEnds(s) \/ Result(s)
               \/ Return(s) \/ \E c \in Configs : CallConnect(s, c)
        PROVE  ClosingInv'
    <2>1. UNCHANGED <<gui, shallExit, inbox>>
      BY <1>7 DEF SendEnds, SetSettings, Create, InitSignals, End, Terminate, CallSend,
                  RepeatedAll, ContinueSend, WaitEnds, Result, Return, CallConnect, guiVars
    <2> QED
      BY <2>1, ClosingKept
  <1>8. ASSUME NEW s \in Scripts, Repeat(s) \/ PostConnect(s) PROVE ClosingInv'
    <2>1. UNCHANGED <<gui, shallExit>>
      BY <1>8 DEF Repeat, PostConnect, guiVars
    <2>2. inbox' = inbox \/ \E o : inbox' = Append(inbox, o)
      BY <1>8 DEF Repeat, PostConnect
    <2> QED
      BY <2>1, <2>2, ClosingKept
  <1>9. CASE UNCHANGED vars
    BY <1>9, ClosingKept DEF vars
  <1>10. ASSUME NEW s \in Scripts, Stop(s) PROVE ClosingInv'
    BY <1>10 DEF Stop, guiVars, ClosingInv
  <1> QED
    BY <1>1, <1>2, <1>3, <1>4, <1>5, <1>6, <1>7, <1>8, <1>9, <1>10 DEF Next, MainStep, ScriptStep

\* The main interface thread can go on, or the user can have it go on.
MainGoesOn ==
    \/ mi = "vain"
    \/ mi = "runs" /\ (inbox # <<>> \/ sending # {})
    \/ mi \in Boxes /\ EventLoop

\* Whoever waits waits for a thread that goes on: a running script for the main
\* interface thread or the GUI thread, the GUI thread for the scripts and then for
\* the main interface thread.
WaitsEnd ==
    /\ \A s \in Scripts : Running(s) =>
        /\ Pc(s) \in MainWaits => MainGoesOn
        /\ Pc(s) \in GuiWaits => EventLoop
    /\ gui = "stopping" =>
        \/ MayExit
        \/ \E s \in Scripts : state[s] = "created" \/ (state[s] = "running" /\ shallExit[s])
    /\ gui = "exiting" => MainGoesOn \/ Embrace

(***************************************************************************)
(* The three kinds of threads wait for each other, but never in a circle,  *)
(* whatever the scripts call and the connections do, except in the one     *)
(* deadlock: the main interface thread shows a message box while the GUI   *)
(* thread waits for its end.                                               *)
(***************************************************************************)
THEOREM OnlyTheEmbraceBlocks == SafeSpec => []WaitsEnd
  <1>1. Init => ClosingInv
    BY DEF Init, ClosingInv
  <1>2. TypeOK /\ StackInv /\ ClosingInv /\ [Next]_vars => ClosingInv'
    BY ClosingStep, TypeParts
  <1>3. ASSUME TypeOK, StackInv, ClosingInv PROVE WaitsEnd
    <2>0. RestOK /\ StackOK /\ mi \in {"runs", "vain", "ended"} \cup Boxes
          /\ gui \in {"open", "stopping", "exiting", "closed"}
      BY <1>3, TypeParts DEF TypeOK
    <2>1. ASSUME NEW s \in Scripts, Running(s), Pc(s) \in MainWaits PROVE MainGoesOn
      <3>1. mi # "ended" /\ gui \notin {"exiting", "closed"}
        BY <1>3, <2>1, RunnerGoesOn
      <3>2. s \in sending \/ Posted(s)
        BY <1>3, <2>1 DEF StackInv, QueueInv
      <3>3. Posted(s) => inbox # <<>>
        BY EmptySeq DEF Posted
      <3> QED
        BY <2>0, <3>1, <3>2, <3>3 DEF MainGoesOn, EventLoop
    <2>2. ASSUME NEW s \in Scripts, Running(s) PROVE EventLoop
      BY <1>3, <2>0, <2>2, RunnerGoesOn DEF EventLoop
    <2>3. ASSUME gui = "stopping", ~MayExit
          PROVE  \E s \in Scripts : state[s] = "created" \/ (state[s] = "running" /\ shallExit[s])
      <3>1. PICK s \in Scripts : state[s] \notin {"new", "ended", "terminated"}
        BY <2>3 DEF MayExit
      <3>2. state[s] \in {"created", "running"} /\ shallExit[s]
        BY <1>3, <2>3, <3>1 DEF TypeOK, ClosingInv
      <3> QED
        BY <3>2
    <2>4. ASSUME gui = "exiting" PROVE MainGoesOn \/ Embrace
      <3>1. mi # "ended"
        BY <1>3, <2>4 DEF StackInv, ExitInv
      <3>2. inbox # <<>>
        BY <1>3, <2>4, EmptySeq DEF ClosingInv, ExitPosted
      <3> QED
        BY <2>0, <2>4, <3>1, <3>2 DEF MainGoesOn, Embrace
    <2> QED
      BY <2>1, <2>2, <2>3, <2>4 DEF WaitsEnd
  <1> QED
    BY <1>1, <1>2, <1>3, Always, PTL DEF SafeSpec
=============================================================================

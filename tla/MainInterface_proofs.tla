----------------------- MODULE MainInterface_proofs -----------------------
(***************************************************************************)
(* Proofs about MainInterface, for every set of requests, every length of  *)
(* their data, every set of peers and every number of connect orders.      *)
(***************************************************************************)
EXTENDS MainInterface, SequenceTheorems, TLAPS

\* Every waiting send is at a chunk of its request.
FramesInRange ==
    \A i \in 1..Len(stack) : stack[i].nr \in 1..Chunks[stack[i].req]

TypeInv == TypeOK /\ FramesInRange
-----------------------------------------------------------------------------
(***************************************************************************)
(* What the operators of the model return.                                 *)
(***************************************************************************)

\* The chunks of a sequence of chunks are chunks.
LEMMA InSeqType ==
    ASSUME NEW S, NEW s \in Seq(S)
    PROVE  InSeq(s) \subseteq S
  BY DEF InSeq

\* The chunk a send is at is one of the chunks of its request.
LEMMA ChunkType ==
    ASSUME NEW r \in Requests, NEW i \in 1..Chunks[r]
    PROVE  Chunk(r, i) \in AllChunks
  BY DEF Chunk, AllChunks

LEMMA ChunksOfType ==
    ASSUME NEW r \in Requests
    PROVE  ChunksOf(r) \in Seq(AllChunks)
  <1>1. Chunks[r] \in Nat
    BY MainAssumption
  <1>2. \A i \in 1..Chunks[r] : Chunk(r, i) \in AllChunks
    BY ChunkType
  <1> QED
    BY <1>1, <1>2 DEF ChunksOf

\* Closing everything and opening the configured interface keeps the types.
LEMMA ConnectSlotType ==
    ASSUME TypeOK, NEW t \in Types, NEW on \in BOOLEAN, ConnectSlot(t, on)
    PROVE  /\ ctype' \in Types /\ peers' = <<>>
           /\ connected' \in BOOLEAN /\ open' \in SUBSET Types
           /\ client' \in {"idle", "connecting", "closing", "up"}
           /\ pending' = <<>> /\ rx' = FALSE /\ lost' \in SUBSET AllChunks
           /\ status' \in [up : BOOLEAN, waiting : BOOLEAN] /\ buttons' \in BOOLEAN
  <1>1. ctype' = t /\ peers' = <<>> /\ pending' = <<>> /\ rx' = FALSE
    BY DEF ConnectSlot, CloseSerial
  <1>2. lost' \in SUBSET AllChunks
    BY InSeqType DEF ConnectSlot, CloseSerial, TypeOK, QueuesOK, HistoryOK
  <1>3. CASE Disconnected
    BY <1>1, <1>2, <1>3 DEF Disconnected, Status, Down, ClosedClient, TypeOK, MembersOK
  <1>4. CASE OpenDevice(t)
    BY <1>1, <1>2, <1>4 DEF OpenDevice, Status, ClosedClient, TypeOK, MembersOK
  <1>5. CASE OpenTcpClient
    BY <1>1, <1>2, <1>5 DEF OpenTcpClient, Status, Down, ClosedClient, TypeOK, MembersOK
  <1>6. CASE t = "tcpServer" /\ OpenTcpServer
    <2> PICK ok \in BOOLEAN : /\ open' = IF ok THEN {"tcpServer"} ELSE {}
                              /\ connected' = FALSE /\ status' = Status(FALSE, ok)
                              /\ client' = ClosedClient /\ UNCHANGED buttons
      BY <1>6 DEF OpenTcpServer
    <2>1. status' \in [up : BOOLEAN, waiting : BOOLEAN]
      BY DEF Status
    <2> QED
      BY <1>1, <1>2, <1>6, <2>1 DEF ClosedClient, TypeOK, MembersOK
  <1>7. CASE t = "udp" /\ OpenUdp
    BY <1>1, <1>2, <1>7 DEF OpenUdp, Status, ClosedClient, TypeOK, MembersOK
  <1> QED
    BY <1>3, <1>4, <1>5, <1>6, <1>7 DEF ConnectSlot
-----------------------------------------------------------------------------
(***************************************************************************)
(* Type correctness.                                                       *)
(***************************************************************************)

\* The order at the head of the inbox is one of the orders.
LEMMA InboxType ==
    ASSUME TypeOK, inbox # <<>>
    PROVE  Head(inbox) \in Orders /\ Tail(inbox) \in Seq(Orders)
  BY DEF TypeOK, QueuesOK

LEMMA StackType ==
    ASSUME TypeOK, stack # <<>>
    PROVE  /\ Top \in Frames /\ Top = stack[Len(stack)] /\ Len(stack) \in 1..Len(stack)
           /\ Below \in Seq(Frames) /\ Len(Below) = Len(stack) - 1
           /\ \A i \in 1..Len(Below) : Below[i] = stack[i]
  <1>1. stack \in Seq(Frames) /\ Len(stack) \in Nat \ {0}
    BY EmptySeq DEF TypeOK, QueuesOK
  <1>2. \A i \in 1..Len(stack) : stack[i] \in Frames
    BY <1>1, ElementOfSeq
  <1>3. /\ Below \in Seq(Frames)
        /\ Len(Below) = IF 1 <= Len(stack) - 1 THEN Len(stack) - 1 - 1 + 1 ELSE 0
        /\ \A i \in 1..(Len(stack) - 1 - 1 + 1) : Below[i] = stack[1 + i - 1]
    BY <1>1, <1>2, SubSeqProperties DEF Below
  <1>4. Len(Below) = Len(stack) - 1
    <2> DEFINE n == Len(stack)
    <2>1. n \in Nat /\ n # 0 /\ Len(Below) = IF 1 <= n - 1 THEN n - 1 - 1 + 1 ELSE 0
      BY <1>1, <1>3
    <2> HIDE DEF n
    <2>2. Len(Below) = n - 1
      BY <2>1
    <2> QED
      BY <2>2 DEF n
  <1>5. Below \in Seq(Frames) /\ \A i \in 1..Len(Below) : Below[i] = stack[i]
    BY <1>1, <1>3, <1>4
  <1> QED
    BY <1>1, <1>2, <1>4, <1>5 DEF Top

LEMMA WithTopType ==
    ASSUME TypeOK, stack # <<>>, NEW f \in Frames
    PROVE  /\ WithTop(f) \in Seq(Frames) /\ Len(WithTop(f)) = Len(stack)
           /\ \A i \in 1..Len(stack) :
                 WithTop(f)[i] = IF i = Len(stack) THEN f ELSE stack[i]
  BY DEF TypeOK, QueuesOK, WithTop

LEMMA TypeInit == Init => TypeInv
  <1> SUFFICES ASSUME Init PROVE TypeInv
    OBVIOUS
  <1>1. MembersOK
    BY DEF Init, Down, Status, MembersOK
  <1>2. QueuesOK /\ FramesInRange
    BY EmptySeq DEF Init, QueuesOK, FramesInRange
  <1>3. HistoryOK
    BY EmptySeq DEF Init, HistoryOK
  <1> QED
    BY <1>1, <1>2, <1>3 DEF TypeInv, TypeOK

LEMMA TypeStep == TypeInv /\ [Next]_vars => TypeInv'
  <1> SUFFICES ASSUME TypeInv, [Next]_vars PROVE TypeInv'
    OBVIOUS
  <1>0. MembersOK /\ QueuesOK /\ HistoryOK /\ FramesInRange /\ TypeOK
    BY DEF TypeInv, TypeOK
  <1>1. ASSUME NEW r \in Requests, PostSend(r) PROVE TypeInv'
    <2>1. SendOrder(r) \in Orders
      BY DEF Orders
    <2>2. MembersOK'
      BY <1>0, <1>1 DEF PostSend, MembersOK, handles, serialPort, told
    <2>3. QueuesOK' /\ FramesInRange'
      BY <1>0, <1>1, <2>1 DEF PostSend, Post, QueuesOK, FramesInRange, handles, serialPort
    <2>4. HistoryOK'
      BY <1>0, <1>1 DEF PostSend, HistoryOK
    <2> QED
      BY <2>2, <2>3, <2>4 DEF TypeInv, TypeOK
  <1>2. ASSUME NEW r \in Requests, RejectSend(r) PROVE TypeInv'
    <2>1. MembersOK'
      BY <1>0, <1>2 DEF RejectSend, MembersOK, handles, serialPort, told
    <2>2. QueuesOK' /\ FramesInRange'
      BY <1>0, <1>2, InboxType DEF RejectSend, SendAtHead, QueuesOK, FramesInRange, handles,
                                   serialPort
    <2>3. HistoryOK'
      BY <1>0, <1>2 DEF RejectSend, Answer, HistoryOK, posted
    <2> QED
      BY <2>1, <2>2, <2>3 DEF TypeInv, TypeOK
  <1>3. ASSUME NEW r \in Requests, StartSerialSend(r) PROVE TypeInv'
    <2>1. NewFrame(r) \in Frames
      BY DEF NewFrame, Frames
    <2>2. NewFrame(r).req = r /\ NewFrame(r).nr \in 1..Chunks[r]
      BY <1>3, MainAssumption DEF NewFrame, StartSerialSend
    <2>3. stack' = Append(stack, NewFrame(r)) /\ stack' \in Seq(Frames)
      BY <1>0, <1>3, <2>1 DEF StartSerialSend, QueuesOK
    <2>4. FramesInRange'
      BY <1>0, <2>1, <2>2, <2>3 DEF FramesInRange, QueuesOK
    <2>5. MembersOK'
      BY <1>0, <1>3 DEF StartSerialSend, MembersOK, handles, serialPort, told
    <2>6. QueuesOK'
      BY <1>0, <1>3, <2>3, InboxType DEF StartSerialSend, SendAtHead, QueuesOK, handles, serialPort
    <2>7. HistoryOK'
      BY <1>0, <1>3 DEF StartSerialSend, HistoryOK, posted
    <2> QED
      BY <2>4, <2>5, <2>6, <2>7 DEF TypeInv, TypeOK
  <1>4. ASSUME NEW r \in Requests, DirectSend(r) PROVE TypeInv'
    <2>1. outcome' \in [Requests -> {"none", "ok", "failed"}]
      BY <1>0, <1>4 DEF DirectSend, Answer, HistoryOK
    <2>2. line' \in Seq(AllChunks)
      <3>1. CASE line' = line \o ChunksOf(r)
        BY <1>0, <3>1, ChunksOfType, ConcatProperties DEF HistoryOK
      <3>2. CASE line' = line
        BY <1>0, <3>2 DEF HistoryOK
      <3> QED
        BY <1>4, <3>1, <3>2 DEF DirectSend, Written
    <2>3. inbox' \in Seq(Orders) /\ UNCHANGED <<running, blocked, stack, posted>>
      BY <1>0, <1>4, InboxType DEF DirectSend, SendAtHead
    <2>4. CASE ConnectSlot(ctype, TRUE)
      <3>1. ctype \in Types
        BY <1>0 DEF MembersOK
      <3> QED
        BY <1>0, <2>1, <2>2, <2>3, <2>4, <3>1, ConnectSlotType, EmptySeq
           DEF TypeInv, TypeOK, MembersOK, QueuesOK, HistoryOK, FramesInRange, posted
    <2>5. CASE UNCHANGED <<ctype, connected, handles, pending, rx, lost, told>>
      BY <1>0, <2>1, <2>2, <2>3, <2>5
         DEF TypeInv, TypeOK, MembersOK, QueuesOK, HistoryOK, FramesInRange, posted, handles, told
    <2> QED
      BY <1>4, <2>4, <2>5 DEF DirectSend
  <1>5. ASSUME NEW t \in Types, NEW on \in BOOLEAN, PostConnect(t, on) PROVE TypeInv'
    <2>1. ConnectOrder(t, on) \in Orders
      BY DEF Orders
    <2>2. MembersOK'
      BY <1>0, <1>5 DEF PostConnect, MembersOK, handles, serialPort, told
    <2>3. QueuesOK' /\ FramesInRange'
      BY <1>0, <1>5, <2>1 DEF PostConnect, Post, QueuesOK, FramesInRange, handles, serialPort
    <2>4. HistoryOK'
      BY <1>0, <1>5 DEF PostConnect, HistoryOK
    <2> QED
      BY <2>2, <2>3, <2>4 DEF TypeInv, TypeOK
  <1>6. CASE PostExit
    <2>1. ExitOrder \in Orders
      BY DEF Orders
    <2>2. MembersOK'
      BY <1>0, <1>6 DEF PostExit, MembersOK, handles, serialPort, told
    <2>3. QueuesOK' /\ FramesInRange'
      BY <1>0, <1>6, <2>1 DEF PostExit, Post, QueuesOK, FramesInRange, handles, serialPort
    <2>4. HistoryOK'
      BY <1>0, <1>6 DEF PostExit, HistoryOK, posted
    <2> QED
      BY <2>2, <2>3, <2>4 DEF TypeInv, TypeOK
  <1>7. CASE HandleConnect
    <2>1. Head(inbox).type \in Types /\ Head(inbox).on \in BOOLEAN
      BY <1>0, <1>7, InboxType DEF HandleConnect, Orders, SendOrder, ConnectOrder, ExitOrder
    <2>2. ConnectSlot(Head(inbox).type, Head(inbox).on)
      BY <1>7 DEF HandleConnect
    <2>3. inbox' \in Seq(Orders) /\ UNCHANGED <<running, blocked, stack, outcome, posted, line>>
      BY <1>0, <1>7, InboxType DEF HandleConnect
    <2> DEFINE t == Head(inbox).type
               on == Head(inbox).on
    <2>4. t \in Types /\ on \in BOOLEAN /\ ConnectSlot(t, on)
      BY <2>1, <2>2
    <2> HIDE DEF t, on
    <2> QED
      BY <1>0, <2>3, <2>4, ConnectSlotType, EmptySeq
         DEF TypeInv, TypeOK, MembersOK, QueuesOK, HistoryOK, FramesInRange, posted
  <1>8. CASE HandleExit
    <2>1. HistoryOK'
      BY <1>0, <1>8, InSeqType DEF HandleExit, CloseSerial, QueuesOK, HistoryOK, posted
    <2>2. MembersOK'
      BY <1>0, <1>8 DEF HandleExit, CloseSerial, ClosedClient, Down, Status, MembersOK
    <2>3. QueuesOK' /\ FramesInRange'
      BY <1>0, <1>8, InboxType, EmptySeq DEF HandleExit, CloseSerial, QueuesOK, FramesInRange
    <2> QED
      BY <2>1, <2>2, <2>3 DEF TypeInv, TypeOK
  <1>9. CASE WriteChunk
    <2>1. Top \in Frames /\ Top.nr \in 1..Chunks[Top.req]
      BY <1>0, <1>9, StackType DEF WriteChunk, FramesInRange
    <2>2. UNCHANGED <<ctype, connected, running, handles, inbox, told, posted, line, lost>>
      BY <1>9 DEF WriteChunk
    <2>3. ASSUME pending' = Append(pending, Chunk(Top.req, Top.nr)), blocked' = TRUE,
                 stack' = WithTop([Top EXCEPT !.waiting = TRUE, !.waited = TRUE]),
                 UNCHANGED <<outcome, rx>>
          PROVE  TypeInv'
      <3>1. Chunk(Top.req, Top.nr) \in AllChunks
        BY <2>1, ChunkType DEF Frames
      <3> DEFINE f == [Top EXCEPT !.waiting = TRUE, !.waited = TRUE]
      <3>2. f \in Frames /\ f.nr = Top.nr /\ f.req = Top.req
        BY <2>1 DEF Frames
      <3>3. stack' = WithTop(f)
        BY <2>3
      <3> HIDE DEF f
      <3>4. stack' \in Seq(Frames) /\ FramesInRange'
        BY <1>0, <1>9, <2>1, <3>2, <3>3, WithTopType DEF FramesInRange, WriteChunk
      <3>5. MembersOK' /\ HistoryOK'
        BY <1>0, <2>2, <2>3 DEF MembersOK, HistoryOK, handles, told, posted
      <3>6. QueuesOK'
        BY <1>0, <2>2, <2>3, <3>1, <3>4 DEF QueuesOK, handles
      <3> QED
        BY <3>4, <3>5, <3>6 DEF TypeInv, TypeOK
    <2>4. ASSUME Return("failed"), UNCHANGED <<pending, blocked>> PROVE TypeInv'
      <3>1. stack' \in Seq(Frames) /\ FramesInRange'
        BY <1>0, <1>9, <2>4, StackType DEF WriteChunk, Return, FramesInRange
      <3>2. HistoryOK'
        BY <1>0, <2>1, <2>2, <2>4 DEF Return, Answer, Frames, HistoryOK, posted
      <3>3. MembersOK' /\ QueuesOK'
        BY <1>0, <2>2, <2>4, <3>1 DEF Return, MembersOK, QueuesOK, handles, told
      <3> QED
        BY <3>1, <3>2, <3>3 DEF TypeInv, TypeOK
    <2> QED
      BY <1>9, <2>3, <2>4 DEF WriteChunk
  <1>10. CASE EndWait
    <2>1. Top \in Frames /\ Top.nr \in 1..Chunks[Top.req]
      BY <1>0, <1>10, StackType DEF EndWait, FramesInRange
    <2>2. /\ blocked' = FALSE
          /\ UNCHANGED <<ctype, connected, running, handles, pending, inbox, told, posted, line,
                         lost>>
      BY <1>10 DEF EndWait, Unblock
    <2>3. ASSUME NEW o \in {"ok", "failed"}, Return(o) PROVE TypeInv'
      <3>1. stack' \in Seq(Frames) /\ FramesInRange'
        BY <1>0, <1>10, <2>3, StackType DEF EndWait, Return, FramesInRange
      <3>2. HistoryOK'
        BY <1>0, <2>1, <2>2, <2>3 DEF Return, Answer, Frames, HistoryOK, posted
      <3>3. MembersOK' /\ QueuesOK'
        BY <1>0, <2>2, <2>3, <3>1 DEF Return, MembersOK, QueuesOK, handles, told
      <3> QED
        BY <3>1, <3>2, <3>3 DEF TypeInv, TypeOK
    <2>4. ASSUME Top.nr # Chunks[Top.req],
                 stack' = WithTop([Top EXCEPT !.nr = @ + 1, !.waiting = FALSE]),
                 UNCHANGED <<outcome, rx>>
          PROVE  TypeInv'
      <3> DEFINE f == [Top EXCEPT !.nr = @ + 1, !.waiting = FALSE]
      <3>1. f.req = Top.req /\ f.nr = Top.nr + 1 /\ f.waiting = FALSE /\ f.waited = Top.waited
        BY <2>1 DEF Frames
      <3>2. Top.req \in Requests /\ Chunks[Top.req] \in Nat /\ Top.nr + 1 \in 1..Chunks[Top.req]
        BY <2>1, <2>4, MainAssumption DEF Frames
      <3>3. f \in Frames
        <4>1. Top.nr + 1 \in Nat
          BY <2>1 DEF Frames
        <4> QED
          BY <2>1, <4>1 DEF Frames
      <3>4. stack' = WithTop(f)
        BY <2>4
      <3> HIDE DEF f
      <3>5. stack' \in Seq(Frames) /\ FramesInRange'
        <4>1. stack # <<>> /\ Len(stack) \in Nat
          BY <1>0, <1>10, LenProperties DEF EndWait, QueuesOK
        <4>2. /\ stack' \in Seq(Frames) /\ Len(stack') = Len(stack)
              /\ \A i \in 1..Len(stack) : stack'[i] = IF i = Len(stack) THEN f ELSE stack[i]
          BY <1>0, <3>3, <3>4, <4>1, WithTopType
        <4>3. f.nr \in 1..Chunks[f.req]
          BY <3>1, <3>2
        <4> QED
          BY <1>0, <4>1, <4>2, <4>3 DEF FramesInRange
      <3>6. MembersOK' /\ HistoryOK'
        BY <1>0, <2>2, <2>4 DEF MembersOK, HistoryOK, handles, told, posted
      <3>7. QueuesOK'
        BY <1>0, <2>2, <3>5 DEF QueuesOK, handles
      <3> QED
        BY <3>5, <3>6, <3>7 DEF TypeInv, TypeOK
    <2> QED
      BY <1>10, <2>3, <2>4 DEF EndWait
  <1>11. CASE SerialDrains
    <2>1. Head(pending) \in AllChunks /\ Tail(pending) \in Seq(AllChunks)
      BY <1>0, <1>11 DEF SerialDrains, QueuesOK
    <2>2. MembersOK'
      BY <1>0, <1>11 DEF SerialDrains, MembersOK, handles, told
    <2>3. QueuesOK' /\ FramesInRange'
      BY <1>0, <1>11, <2>1 DEF SerialDrains, QueuesOK, FramesInRange, handles
    <2>4. HistoryOK'
      BY <1>0, <1>11, <2>1 DEF SerialDrains, HistoryOK, posted
    <2> QED
      BY <2>2, <2>3, <2>4 DEF TypeInv, TypeOK
  <1>12. CASE SerialReceives
    <2>1. MembersOK' /\ HistoryOK'
      BY <1>0, <1>12 DEF SerialReceives, MembersOK, HistoryOK, handles, told, posted
    <2>2. QueuesOK' /\ FramesInRange'
      BY <1>0, <1>12 DEF SerialReceives, QueuesOK, FramesInRange, handles
    <2> QED
      BY <2>1, <2>2 DEF TypeInv, TypeOK
  <1>13. CASE ClientConnected
    <2>1. MembersOK'
      BY <1>0, <1>13 DEF ClientConnected, EnableButtons, Status, MembersOK, serialPort
    <2>2. QueuesOK' /\ FramesInRange' /\ HistoryOK'
      BY <1>0, <1>13 DEF ClientConnected, QueuesOK, FramesInRange, HistoryOK, serialPort, posted
    <2> QED
      BY <2>1, <2>2 DEF TypeInv, TypeOK
  <1>14. CASE ClientError
    <2>1. HistoryOK'
      BY <1>0, <1>14, InSeqType DEF ClientError, CloseSerial, QueuesOK, HistoryOK, posted
    <2>2. MembersOK'
      BY <1>0, <1>14 DEF ClientError, CloseSerial, EnableButtons, Down, Status, MembersOK
    <2>3. QueuesOK' /\ FramesInRange'
      BY <1>0, <1>14, EmptySeq DEF ClientError, CloseSerial, QueuesOK, FramesInRange
    <2> QED
      BY <2>1, <2>2, <2>3 DEF TypeInv, TypeOK
  <1>15. ASSUME NEW p \in Peers, PeerConnects(p) PROVE TypeInv'
    <2>1. MembersOK'
      BY <1>0, <1>15 DEF PeerConnects, Status, MembersOK, serialPort
    <2>2. QueuesOK' /\ FramesInRange'
      BY <1>0, <1>15 DEF PeerConnects, QueuesOK, FramesInRange, serialPort
    <2>3. HistoryOK'
      BY <1>0, <1>15 DEF PeerConnects, HistoryOK, posted
    <2> QED
      BY <2>1, <2>2, <2>3 DEF TypeInv, TypeOK
  <1>16. ASSUME NEW i \in 1..Len(peers), PeerDisconnects(i) PROVE TypeInv'
    <2>1. UNCHANGED <<running, blocked, inbox, stack, outcome, posted, line>>
      BY <1>16 DEF PeerDisconnects
    <2>2. CASE ConnectSlot(ctype, TRUE)
      <3>1. ctype \in Types
        BY <1>0 DEF MembersOK
      <3> QED
        BY <1>0, <2>1, <2>2, <3>1, ConnectSlotType, EmptySeq
           DEF TypeInv, TypeOK, MembersOK, QueuesOK, HistoryOK, FramesInRange, posted
    <2>3. ASSUME peers' = PeersWithout(i), connected' = FALSE, status' = Status(TRUE, FALSE),
                 UNCHANGED <<ctype, open, client, pending, rx, lost, buttons>>
          PROVE  TypeInv'
      <3>1. peers' \in Seq(Peers)
        <4>1. peers \in Seq(Peers) /\ Len(peers) \in Nat
          BY <1>0, LenProperties DEF QueuesOK
        <4>2. \A k \in 1..Len(peers) : peers[k] \in Peers
          BY <4>1, ElementOfSeq
        <4>3. SubSeq(peers, 1, i - 1) \in Seq(Peers)
          BY <4>1, <4>2, SubSeqProperties
        <4>4. SubSeq(peers, i + 1, Len(peers)) \in Seq(Peers)
          BY <4>1, <4>2, SubSeqProperties
        <4> QED
          BY <2>3, <4>3, <4>4, ConcatProperties DEF PeersWithout
      <3>2. MembersOK' /\ HistoryOK'
        BY <1>0, <2>1, <2>3 DEF Status, MembersOK, HistoryOK, posted
      <3>3. QueuesOK' /\ FramesInRange'
        BY <1>0, <2>1, <2>3, <3>1 DEF QueuesOK, FramesInRange
      <3> QED
        BY <3>2, <3>3 DEF TypeInv, TypeOK
    <2> QED
      BY <1>16, <2>2, <2>3 DEF PeerDisconnects
  <1>17. CASE UNCHANGED vars
    BY <1>0, <1>17 DEF vars, TypeInv, TypeOK, MembersOK, QueuesOK, HistoryOK, FramesInRange
  <1> QED
    BY <1>1, <1>2, <1>3, <1>4, <1>5, <1>6, <1>7, <1>8, <1>9, <1>10, <1>11, <1>12, <1>13,
       <1>14, <1>15, <1>16, <1>17 DEF Next, HandleSend, Finished

(***************************************************************************)
(* Every variable keeps its type: the program never writes a chunk a       *)
(* request does not have, however sends nest and connections change.       *)
(***************************************************************************)
THEOREM TypeCorrect == SafeSpec => []TypeOK
  <1>1. TypeInv => TypeOK
    BY DEF TypeInv
  <1> QED
    BY <1>1, TypeInit, TypeStep, PTL DEF SafeSpec
-----------------------------------------------------------------------------
(***************************************************************************)
(* What is open, and what was announced about it.                          *)
(***************************************************************************)
ConnectionInv == OnlyConfiguredOpen /\ AnnouncedIsTrue

\* All that ConnectionInv is about.
connection == <<ctype, connected, running, handles, status>>

LEMMA ConnectSlotConnection ==
    ASSUME TypeOK, NEW t, NEW on, ConnectSlot(t, on)
    PROVE  /\ OnlyConfiguredOpen'
           /\ ctype' \notin {"udp", "tcpServer"} => status'.up = connected'
  <1>1. ctype' = t /\ peers' = <<>>
    BY DEF ConnectSlot
  <1>2. CASE Disconnected
    BY <1>1, <1>2 DEF Disconnected, Status, Down, ClosedClient, OnlyConfiguredOpen
  <1>3. CASE OpenDevice(t)
    BY <1>1, <1>3 DEF OpenDevice, Status, ClosedClient, OnlyConfiguredOpen
  <1>4. CASE t = "tcpClient" /\ OpenTcpClient
    BY <1>1, <1>4 DEF OpenTcpClient, Status, Down, ClosedClient, OnlyConfiguredOpen
  <1>5. CASE t = "tcpServer" /\ OpenTcpServer
    BY <1>1, <1>5 DEF OpenTcpServer, ClosedClient, OnlyConfiguredOpen
  <1>6. CASE t = "udp" /\ OpenUdp
    BY <1>1, <1>6 DEF OpenUdp, ClosedClient, OnlyConfiguredOpen
  <1> QED
    BY <1>2, <1>3, <1>4, <1>5, <1>6 DEF ConnectSlot

LEMMA ConnectionInit == Init => ConnectionInv
  <1>1. Init => OnlyConfiguredOpen
    BY DEF Init, OnlyConfiguredOpen
  <1>2. Init => status.up = FALSE /\ connected = FALSE
    BY DEF Init, Down, Status
  <1> QED
    BY <1>1, <1>2 DEF ConnectionInv, AnnouncedIsTrue

LEMMA ConnectionStep == TypeOK /\ ConnectionInv /\ [Next]_vars => ConnectionInv'
  <1> SUFFICES ASSUME TypeOK, ConnectionInv, [Next]_vars PROVE ConnectionInv'
    OBVIOUS
  <1> USE DEF ConnectionInv
  <1>1. ASSUME UNCHANGED connection PROVE ConnectionInv'
    BY <1>1 DEF connection, handles, OnlyConfiguredOpen, AnnouncedIsTrue
  <1>2. ASSUME NEW t, NEW on, ConnectSlot(t, on) PROVE ConnectionInv'
    BY <1>2, ConnectSlotConnection DEF AnnouncedIsTrue
  <1>3. ASSUME NEW r \in Requests, PostSend(r) \/ HandleSend(r) PROVE ConnectionInv'
    <2>1. CASE DirectSend(r)
      BY <1>1, <1>2, <2>1 DEF DirectSend, connection, told
    <2> QED
      BY <1>1, <1>3, <2>1 DEF PostSend, HandleSend, RejectSend, StartSerialSend, connection, told
  <1>4. ASSUME NEW t \in Types, NEW on \in BOOLEAN, PostConnect(t, on) PROVE ConnectionInv'
    BY <1>1, <1>4 DEF PostConnect, connection, told
  <1>5. CASE PostExit \/ WriteChunk \/ EndWait \/ SerialDrains \/ SerialReceives
    BY <1>1, <1>5 DEF PostExit, WriteChunk, EndWait, SerialDrains, SerialReceives, connection, told
  <1>6. CASE HandleConnect
    BY <1>2, <1>6 DEF HandleConnect
  <1>7. CASE HandleExit
    BY <1>7 DEF HandleExit, ClosedClient, OnlyConfiguredOpen, AnnouncedIsTrue
  <1>8. CASE ClientConnected
    <2>1. OnlyConfiguredOpen'
      BY <1>8 DEF ClientConnected, OnlyConfiguredOpen
    <2>2. status'.up = connected'
      BY <1>8 DEF ClientConnected, Status
    <2> QED
      BY <2>1, <2>2 DEF AnnouncedIsTrue
  <1>9. CASE ClientError
    BY <1>9 DEF ClientError, Down, Status, OnlyConfiguredOpen, AnnouncedIsTrue
  <1>10. ASSUME NEW p \in Peers, PeerConnects(p) PROVE ConnectionInv'
    BY <1>10 DEF PeerConnects, OnlyConfiguredOpen, AnnouncedIsTrue
  <1>11. ASSUME NEW i \in 1..Len(peers), PeerDisconnects(i) PROVE ConnectionInv'
    <2>1. peers # <<>>
      BY <1>11, EmptySeq
    <2> QED
      BY <1>2, <1>11, <2>1 DEF PeerDisconnects, OnlyConfiguredOpen, AnnouncedIsTrue
  <1>12. CASE UNCHANGED vars
    BY <1>1, <1>12 DEF vars, connection, handles
  <1> QED
    BY <1>3, <1>4, <1>5, <1>6, <1>7, <1>8, <1>9, <1>10, <1>11, <1>12 DEF Next, Finished

(***************************************************************************)
(* Whatever orders, lost connections and failed opens come in whatever     *)
(* order, only what the current settings name is open.                     *)
(***************************************************************************)
THEOREM ConfiguredOnly == SafeSpec => []OnlyConfiguredOpen
  <1>1. TypeInv => TypeOK
    BY DEF TypeInv
  <1>2. ConnectionInv => OnlyConfiguredOpen
    BY DEF ConnectionInv
  <1> QED
    BY <1>1, <1>2, TypeInit, TypeStep, ConnectionInit, ConnectionStep, PTL DEF SafeSpec

(***************************************************************************)
(* For the point-to-point interfaces the last announcement is true.        *)
(***************************************************************************)
THEOREM Announced == SafeSpec => []AnnouncedIsTrue
  <1>1. TypeInv => TypeOK
    BY DEF TypeInv
  <1>2. ConnectionInv => AnnouncedIsTrue
    BY DEF ConnectionInv
  <1> QED
    BY <1>1, <1>2, TypeInit, TypeStep, ConnectionInit, ConnectionStep, PTL DEF SafeSpec
-----------------------------------------------------------------------------
(***************************************************************************)
(* The muted serial port.                                                  *)
(***************************************************************************)
LEMMA BlockedStep == TypeOK /\ BlockedOnlyInSend /\ [Next]_vars => BlockedOnlyInSend'
  <1> SUFFICES ASSUME TypeOK, BlockedOnlyInSend, [Next]_vars PROVE BlockedOnlyInSend'
    OBVIOUS
  <1>1. ASSUME UNCHANGED <<blocked, stack>> PROVE BlockedOnlyInSend'
    BY <1>1 DEF BlockedOnlyInSend
  <1>2. ASSUME NEW r \in Requests, StartSerialSend(r) PROVE BlockedOnlyInSend'
    <2>1. blocked' = blocked /\ stack' = Append(stack, NewFrame(r)) /\ NewFrame(r) \in Frames
      BY <1>2 DEF StartSerialSend, serialPort, NewFrame, Frames
    <2>2. stack \in Seq(Frames)
      BY DEF TypeOK, QueuesOK
    <2>3. Len(stack') = Len(stack) + 1 /\ \A i \in 1..Len(stack) : stack'[i] = stack[i]
      BY <2>1, <2>2, AppendProperties
    <2> QED
      BY <2>1, <2>2, <2>3, LenProperties DEF BlockedOnlyInSend
  <1>3. ASSUME NEW r \in Requests, PostSend(r) \/ HandleSend(r) PROVE BlockedOnlyInSend'
    BY <1>1, <1>2, <1>3 DEF PostSend, HandleSend, RejectSend, DirectSend, serialPort
  <1>4. ASSUME NEW t \in Types, NEW on \in BOOLEAN, PostConnect(t, on) PROVE BlockedOnlyInSend'
    BY <1>1, <1>4 DEF PostConnect, serialPort
  <1>5. CASE PostExit \/ HandleConnect \/ HandleExit \/ SerialDrains \/ SerialReceives
    BY <1>1, <1>5 DEF PostExit, HandleConnect, HandleExit, SerialDrains, SerialReceives, serialPort
  <1>6. CASE ClientConnected \/ ClientError
    BY <1>1, <1>6 DEF ClientConnected, ClientError, serialPort
  <1>7. ASSUME NEW p \in Peers, PeerConnects(p) PROVE BlockedOnlyInSend'
    BY <1>1, <1>7 DEF PeerConnects, serialPort
  <1>8. ASSUME NEW i \in 1..Len(peers), PeerDisconnects(i) PROVE BlockedOnlyInSend'
    BY <1>1, <1>8 DEF PeerDisconnects
  <1>9. CASE EndWait
    BY <1>9 DEF EndWait, Unblock, BlockedOnlyInSend
  <1>10. CASE WriteChunk
    <2>1. stack # <<>> /\ ~Top.waiting
      BY <1>10 DEF WriteChunk
    <2>2. CASE Return("failed") /\ UNCHANGED blocked
      BY <2>1, <2>2, StackType DEF Return, BlockedOnlyInSend
    <2>3. CASE stack' = WithTop([Top EXCEPT !.waiting = TRUE, !.waited = TRUE])
      <3> DEFINE f == [Top EXCEPT !.waiting = TRUE, !.waited = TRUE]
      <3>1. f \in Frames /\ f.waiting
        BY <2>1, StackType DEF Frames
      <3>2. stack' = WithTop(f)
        BY <2>3
      <3> HIDE DEF f
      <3>3. Len(stack) \in 1..Len(stack') /\ stack'[Len(stack)] = f
        BY <2>1, <3>1, <3>2, WithTopType, StackType
      <3> QED
        BY <3>1, <3>3 DEF BlockedOnlyInSend
    <2> QED
      BY <1>10, <2>2, <2>3 DEF WriteChunk
  <1>11. CASE UNCHANGED vars
    BY <1>1, <1>11 DEF vars
  <1> QED
    BY <1>3, <1>4, <1>5, <1>6, <1>7, <1>8, <1>9, <1>10, <1>11 DEF Next, Finished

(***************************************************************************)
(* An idle thread never sits on a muted port, for any number of nested     *)
(* sends, timeouts and lost ports.                                         *)
(***************************************************************************)
THEOREM MutedOnlyInSend == SafeSpec => []BlockedOnlyInSend
  <1>1. TypeInv => TypeOK
    BY DEF TypeInv
  <1>2. Init => BlockedOnlyInSend
    BY DEF Init, BlockedOnlyInSend
  <1> QED
    BY <1>1, <1>2, TypeInit, TypeStep, BlockedStep, PTL DEF SafeSpec
-----------------------------------------------------------------------------
(***************************************************************************)
(* After the exit order.                                                   *)
(***************************************************************************)

\* The exit order is the last one, and nothing is posted once it was handled.
ExitIsLast ==
    /\ ~running => inbox = <<>>
    /\ \A i \in 1..Len(inbox) : inbox[i] = ExitOrder => i = Len(inbox)

LEMMA ExitIsLastStep == TypeOK /\ ExitIsLast /\ [Next]_vars => ExitIsLast'
  <1> SUFFICES ASSUME TypeOK, ExitIsLast, [Next]_vars PROVE ExitIsLast'
    OBVIOUS
  <1>0. inbox \in Seq(Orders) /\ Len(inbox) \in Nat
    BY LenProperties DEF TypeOK, QueuesOK
  <1>1. ASSUME UNCHANGED <<running, inbox>> PROVE ExitIsLast'
    BY <1>1 DEF ExitIsLast
  <1>2. ASSUME NEW order \in Orders, Post(order), running, UNCHANGED running,
               ExitOrder \notin InSeq(inbox)
        PROVE  ExitIsLast'
    <2>1. /\ Len(inbox') = Len(inbox) + 1
          /\ \A i \in 1..Len(inbox) : inbox'[i] = inbox[i]
      BY <1>0, <1>2, AppendProperties DEF Post
    <2> QED
      BY <1>0, <1>2, <2>1 DEF ExitIsLast, InSeq
  <1>3. ASSUME inbox # <<>>, inbox' = Tail(inbox), UNCHANGED running PROVE ExitIsLast'
    <2>1. Len(inbox') = Len(inbox) - 1 /\ \A i \in 1..Len(inbox') : inbox'[i] = inbox[i + 1]
      BY <1>0, <1>3, HeadTailProperties
    <2>2. running'
      BY <1>3 DEF ExitIsLast
    <2>3. ASSUME NEW i \in 1..Len(inbox'), inbox'[i] = ExitOrder PROVE i = Len(inbox')
      <3>1. i + 1 \in 1..Len(inbox) /\ inbox[i + 1] = ExitOrder
        BY <1>0, <2>1, <2>3
      <3>2. i + 1 = Len(inbox)
        BY <3>1 DEF ExitIsLast
      <3> QED
        BY <1>0, <2>1, <3>2
    <2> QED
      BY <2>2, <2>3 DEF ExitIsLast
  <1>4. ASSUME NEW r \in Requests, PostSend(r) \/ HandleSend(r) PROVE ExitIsLast'
    <2>1. SendOrder(r) \in Orders
      BY DEF Orders
    <2> QED
      BY <1>2, <1>3, <1>4, <2>1
         DEF PostSend, HandleSend, RejectSend, StartSerialSend, DirectSend, SendAtHead
  <1>5. ASSUME NEW t \in Types, NEW on \in BOOLEAN, PostConnect(t, on) PROVE ExitIsLast'
    <2>1. ConnectOrder(t, on) \in Orders
      BY DEF Orders
    <2> QED
      BY <1>2, <1>5, <2>1 DEF PostConnect
  <1>6. CASE PostExit
    <2>1. ExitOrder \in Orders
      BY DEF Orders
    <2> QED
      BY <1>2, <1>6, <2>1 DEF PostExit
  <1>7. CASE HandleConnect
    BY <1>3, <1>7 DEF HandleConnect
  <1>8. CASE HandleExit
    <2>1. inbox # <<>> /\ inbox[1].kind = "exit" /\ inbox' = Tail(inbox)
      BY <1>8 DEF HandleExit
    <2>2. inbox[1] \in Orders /\ 1 \in 1..Len(inbox)
      BY <1>0, <2>1, EmptySeq
    <2>3. inbox[1] = ExitOrder
      BY <2>1, <2>2 DEF Orders, SendOrder, ConnectOrder, ExitOrder
    <2>4. Len(inbox) = 1
      BY <2>2, <2>3 DEF ExitIsLast
    <2>5. Tail(inbox) \in Seq(Orders) /\ Len(Tail(inbox)) = Len(inbox) - 1
      BY <1>0, <2>1, HeadTailProperties
    <2>6. inbox' = <<>>
      BY <2>1, <2>4, <2>5, EmptySeq
    <2> QED
      BY <2>6, EmptySeq DEF ExitIsLast
  <1>9. CASE WriteChunk \/ EndWait \/ SerialDrains \/ SerialReceives
    BY <1>1, <1>9 DEF WriteChunk, EndWait, SerialDrains, SerialReceives
  <1>10. CASE ClientConnected \/ ClientError
    BY <1>1, <1>10 DEF ClientConnected, ClientError
  <1>11. ASSUME NEW p \in Peers, PeerConnects(p) PROVE ExitIsLast'
    BY <1>1, <1>11 DEF PeerConnects
  <1>12. ASSUME NEW i \in 1..Len(peers), PeerDisconnects(i) PROVE ExitIsLast'
    BY <1>1, <1>12 DEF PeerDisconnects
  <1>13. CASE UNCHANGED vars
    BY <1>1, <1>13 DEF vars
  <1> QED
    BY <1>4, <1>5, <1>6, <1>7, <1>8, <1>9, <1>10, <1>11, <1>12, <1>13 DEF Next, Finished

LEMMA NothingReopensStep ==
    TypeOK /\ ExitIsLast /\ OnlyConfiguredOpen /\ [Next]_vars
        => [~running => open' \subseteq open]_vars
  <1> SUFFICES ASSUME TypeOK, ExitIsLast, [Next]_vars, ~running PROVE open' \subseteq open
    OBVIOUS
  <1>1. inbox = <<>>
    BY DEF ExitIsLast
  <1>2. ASSUME NEW r \in Requests, PostSend(r) \/ HandleSend(r) PROVE FALSE
    BY <1>1, <1>2 DEF PostSend, HandleSend, RejectSend, StartSerialSend, DirectSend, SendAtHead
  <1>3. ASSUME NEW i \in 1..Len(peers), PeerDisconnects(i) PROVE FALSE
    BY <1>3 DEF PeerDisconnects, PeersHeard
  <1>4. CASE HandleConnect \/ HandleExit
    BY <1>1, <1>4 DEF HandleConnect, HandleExit
  <1>5. ASSUME NEW p \in Peers, PeerConnects(p) PROVE open' = open
    BY <1>5 DEF PeerConnects
  <1>6. ASSUME NEW t \in Types, NEW on \in BOOLEAN, PostConnect(t, on) PROVE open' = open
    BY <1>6 DEF PostConnect, handles
  <1>7. CASE PostExit \/ WriteChunk \/ EndWait \/ SerialDrains \/ SerialReceives
    BY <1>7 DEF PostExit, WriteChunk, EndWait, SerialDrains, SerialReceives, handles
  <1>8. CASE ClientConnected \/ ClientError
    BY <1>8 DEF ClientConnected, ClientError
  <1>9. CASE UNCHANGED vars
    BY <1>9 DEF vars
  <1> QED
    BY <1>2, <1>3, <1>4, <1>5, <1>6, <1>7, <1>8, <1>9 DEF Next, Finished

(***************************************************************************)
(* After exitThreadSlot nothing is opened any more.                        *)
(***************************************************************************)
THEOREM ExitIsFinal == SafeSpec => NothingReopens
  <1>1. TypeInv => TypeOK
    BY DEF TypeInv
  <1>2. ConnectionInv => OnlyConfiguredOpen
    BY DEF ConnectionInv
  <1>3. Init => ExitIsLast
    BY EmptySeq DEF Init, ExitIsLast
  <1> QED
    BY <1>1, <1>2, <1>3, TypeInit, TypeStep, ConnectionInit, ConnectionStep, ExitIsLastStep,
       NothingReopensStep, PTL DEF SafeSpec, NothingReopens
-----------------------------------------------------------------------------
(***************************************************************************)
(* Where the chunks of a successful request are.                           *)
(***************************************************************************)

\* The elements of the sequences the actions build.
LEMMA InSeqEmpty == InSeq(<<>>) = {}
  BY DEF InSeq

LEMMA InSeqAppend ==
    ASSUME NEW S, NEW s \in Seq(S), NEW e \in S
    PROVE  InSeq(Append(s, e)) = InSeq(s) \cup {e}
  <1>1. /\ Len(s) \in Nat /\ Len(Append(s, e)) = Len(s) + 1
        /\ Append(s, e)[Len(s) + 1] = e
        /\ \A i \in 1..Len(s) : Append(s, e)[i] = s[i]
    BY AppendProperties, LenProperties
  <1>2. InSeq(Append(s, e)) \subseteq InSeq(s) \cup {e}
    BY <1>1 DEF InSeq
  <1>3. InSeq(s) \subseteq InSeq(Append(s, e))
    BY <1>1 DEF InSeq
  <1>4. e \in InSeq(Append(s, e))
    BY <1>1 DEF InSeq
  <1> QED
    BY <1>2, <1>3, <1>4

LEMMA InSeqTail ==
    ASSUME NEW S, NEW s \in Seq(S), s # <<>>
    PROVE  InSeq(s) = {Head(s)} \cup InSeq(Tail(s))
  <1>1. /\ Len(s) \in Nat /\ Len(s) # 0 /\ Head(s) = s[1]
        /\ Len(Tail(s)) = Len(s) - 1
        /\ \A i \in 1..(Len(s) - 1) : Tail(s)[i] = s[i + 1]
    BY HeadTailProperties, LenProperties, EmptySeq
  <1>2. ASSUME NEW i \in 1..Len(s) PROVE s[i] \in {Head(s)} \cup InSeq(Tail(s))
    <2>1. CASE i = 1
      BY <1>1, <2>1
    <2>2. CASE i # 1
      <3>1. i - 1 \in 1..Len(Tail(s)) /\ Tail(s)[i - 1] = s[i]
        BY <1>1, <2>2
      <3> QED
        BY <3>1 DEF InSeq
    <2> QED
      BY <2>1, <2>2
  <1>3. Head(s) \in InSeq(s)
    BY <1>1 DEF InSeq
  <1>4. InSeq(Tail(s)) \subseteq InSeq(s)
    BY <1>1 DEF InSeq
  <1> QED
    BY <1>2, <1>3, <1>4 DEF InSeq

LEMMA InSeqConcat ==
    ASSUME NEW S, NEW s \in Seq(S), NEW t \in Seq(S)
    PROVE  InSeq(s) \subseteq InSeq(s \o t) /\ InSeq(t) \subseteq InSeq(s \o t)
  <1>1. /\ Len(s) \in Nat /\ Len(t) \in Nat /\ Len(s \o t) = Len(s) + Len(t)
        /\ \A i \in 1..(Len(s) + Len(t)) :
              (s \o t)[i] = IF i <= Len(s) THEN s[i] ELSE t[i - Len(s)]
    BY ConcatProperties, LenProperties
  <1>2. InSeq(s) \subseteq InSeq(s \o t)
    BY <1>1 DEF InSeq
  <1>3. ASSUME NEW i \in 1..Len(t) PROVE t[i] \in InSeq(s \o t)
    <2>1. Len(s) + i \in 1..Len(s \o t) /\ (s \o t)[Len(s) + i] = t[i]
      BY <1>1
    <2> QED
      BY <2>1 DEF InSeq
  <1> QED
    BY <1>2, <1>3 DEF InSeq

Gone == InSeq(line) \cup lost
Accepted == Gone \cup InSeq(pending)

\* What a send has written so far is on the line, lost, or in the buffer.
WrittenIsAccepted ==
    \A i \in 1..Len(stack) : \A k \in 1..stack[i].nr :
        k < stack[i].nr \/ stack[i].waiting => Chunk(stack[i].req, k) \in Accepted

DeliveryInv == SuccessMeansGone /\ WrittenIsAccepted

\* Closing the port moves the buffer to the lost chunks.
LEMMA CloseSerialDelivery ==
    ASSUME TypeOK, CloseSerial, UNCHANGED line
    PROVE  Gone \subseteq Gone' /\ Accepted \subseteq Accepted'
  BY DEF CloseSerial, Gone, Accepted

\* The success part holds after a step that forgets no chunk and reports
\* success only for a request all of whose chunks are gone.
LEMMA SuccessKept ==
    ASSUME SuccessMeansGone, Gone \subseteq Gone',
           \A r \in Requests : outcome'[r] = "ok" =>
               outcome[r] = "ok" \/ \A i \in 1..Chunks[r] : Chunk(r, i) \in Gone'
    PROVE  SuccessMeansGone'
  BY DEF SuccessMeansGone, Gone

\* Both parts hold after a step that forgets no chunk and changes neither the
\* sends in progress nor, to success, an answer.
LEMMA DeliveryKept ==
    ASSUME DeliveryInv, Gone \subseteq Gone', Accepted \subseteq Accepted', UNCHANGED stack,
           \A r \in Requests : outcome'[r] = "ok" => outcome[r] = "ok"
    PROVE  DeliveryInv'
  <1>1. SuccessMeansGone'
    BY SuccessKept DEF DeliveryInv
  <1>2. WrittenIsAccepted'
    BY DEF DeliveryInv, WrittenIsAccepted
  <1> QED
    BY <1>1, <1>2 DEF DeliveryInv

LEMMA DeliveryStep == TypeInv /\ DeliveryInv /\ [Next]_vars => DeliveryInv'
  <1> SUFFICES ASSUME TypeInv, DeliveryInv, [Next]_vars PROVE DeliveryInv'
    OBVIOUS
  <1>0. /\ TypeOK /\ FramesInRange /\ SuccessMeansGone /\ WrittenIsAccepted
        /\ stack \in Seq(Frames) /\ Len(stack) \in Nat
        /\ pending \in Seq(AllChunks) /\ line \in Seq(AllChunks)
        /\ outcome \in [Requests -> {"none", "ok", "failed"}]
    BY LenProperties DEF TypeInv, TypeOK, QueuesOK, HistoryOK, DeliveryInv
  <1>1. ASSUME UNCHANGED <<stack, outcome, line, lost, pending>> PROVE DeliveryInv'
    BY <1>1, DeliveryKept DEF Gone, Accepted
  <1>2. ASSUME CloseSerial, UNCHANGED <<stack, outcome, line>> PROVE DeliveryInv'
    BY <1>0, <1>2, CloseSerialDelivery, DeliveryKept
  <1>3. ASSUME NEW r \in Requests, RejectSend(r) PROVE DeliveryInv'
    <2>1. outcome' = [outcome EXCEPT ![r] = "failed"]
          /\ UNCHANGED <<stack, line, lost, pending>>
      BY <1>3 DEF RejectSend, Answer, serialPort
    <2> QED
      BY <1>0, <2>1, DeliveryKept DEF Gone, Accepted
  <1>4. ASSUME NEW r \in Requests, StartSerialSend(r) PROVE DeliveryInv'
    <2>1. stack' = Append(stack, NewFrame(r)) /\ UNCHANGED <<outcome, line, lost, pending>>
      BY <1>4 DEF StartSerialSend, serialPort
    <2>2. NewFrame(r) \in Frames /\ NewFrame(r).nr = 1 /\ ~NewFrame(r).waiting
      BY DEF NewFrame, Frames
    <2>3. /\ Len(stack') = Len(stack) + 1 /\ stack'[Len(stack) + 1] = NewFrame(r)
          /\ \A i \in 1..Len(stack) : stack'[i] = stack[i]
      BY <1>0, <2>1, <2>2, AppendProperties
    <2>4. WrittenIsAccepted'
      BY <1>0, <2>1, <2>2, <2>3 DEF WrittenIsAccepted, Accepted, Gone
    <2> QED
      BY <1>0, <2>1, <2>4 DEF DeliveryInv, SuccessMeansGone
  <1>5. ASSUME NEW r \in Requests, DirectSend(r) PROVE DeliveryInv'
    <2>1. UNCHANGED stack
      BY <1>5 DEF DirectSend
    <2>2. CASE outcome' = [outcome EXCEPT ![r] = "ok"] /\ Written(r)
               /\ UNCHANGED <<lost, pending>>
      <3>1. line' = line \o ChunksOf(r) /\ ChunksOf(r) \in Seq(AllChunks)
        BY <2>2, ChunksOfType DEF Written
      <3>2. InSeq(line) \subseteq InSeq(line') /\ InSeq(ChunksOf(r)) \subseteq InSeq(line')
        BY <1>0, <3>1, InSeqConcat
      <3>3. ASSUME NEW i \in 1..Chunks[r] PROVE Chunk(r, i) \in InSeq(ChunksOf(r))
        <4>1. Len(ChunksOf(r)) = Chunks[r]
          BY MainAssumption DEF ChunksOf
        <4>2. ChunksOf(r)[i] = Chunk(r, i)
          BY DEF ChunksOf
        <4> QED
          BY <4>1, <4>2 DEF InSeq
      <3>4. Gone \subseteq Gone' /\ Accepted \subseteq Accepted'
        BY <2>2, <3>2 DEF Gone, Accepted
      <3>5. \A i \in 1..Chunks[r] : Chunk(r, i) \in Gone'
        BY <3>2, <3>3 DEF Gone
      <3>6. SuccessMeansGone'
        BY <1>0, <2>2, <3>4, <3>5, SuccessKept
      <3>7. WrittenIsAccepted'
        BY <1>0, <2>1, <3>4 DEF WrittenIsAccepted
      <3> QED
        BY <3>6, <3>7 DEF DeliveryInv
    <2>3. CASE outcome' = [outcome EXCEPT ![r] = "failed"] /\ UNCHANGED line
      <3>1. Gone \subseteq Gone' /\ Accepted \subseteq Accepted'
        <4>1. CASE CloseSerial
          BY <1>0, <2>3, <4>1, CloseSerialDelivery
        <4>2. CASE UNCHANGED <<lost, pending>>
          BY <2>3, <4>2 DEF Gone, Accepted
        <4> QED
          BY <1>5, <4>1, <4>2 DEF DirectSend, ConnectSlot
      <3> QED
        BY <1>0, <2>1, <2>3, <3>1, DeliveryKept
    <2> QED
      BY <1>5, <2>2, <2>3 DEF DirectSend, Answer
  <1>6. ASSUME NEW r \in Requests, PostSend(r) PROVE DeliveryInv'
    BY <1>1, <1>6 DEF PostSend, serialPort
  <1>7. ASSUME NEW t \in Types, NEW on \in BOOLEAN, PostConnect(t, on) PROVE DeliveryInv'
    BY <1>1, <1>7 DEF PostConnect, serialPort
  <1>8. CASE PostExit \/ SerialReceives \/ ClientConnected
    BY <1>1, <1>8 DEF PostExit, SerialReceives, ClientConnected, serialPort
  <1>9. CASE HandleConnect \/ HandleExit \/ ClientError
    BY <1>2, <1>9 DEF HandleConnect, ConnectSlot, HandleExit, ClientError
  <1>10. ASSUME NEW p \in Peers, PeerConnects(p) PROVE DeliveryInv'
    BY <1>1, <1>10 DEF PeerConnects, serialPort
  <1>11. ASSUME NEW i \in 1..Len(peers), PeerDisconnects(i) PROVE DeliveryInv'
    BY <1>1, <1>2, <1>11 DEF PeerDisconnects, ConnectSlot
  <1>12. CASE SerialDrains
    <2>1. /\ pending # <<>> /\ line' = Append(line, Head(pending)) /\ pending' = Tail(pending)
          /\ UNCHANGED <<stack, outcome, lost>>
      BY <1>12 DEF SerialDrains
    <2>2. Head(pending) \in AllChunks
      BY <1>0, <2>1, HeadTailProperties
    <2>3. InSeq(line') = InSeq(line) \cup {Head(pending)}
      BY <1>0, <2>1, <2>2, InSeqAppend
    <2>4. InSeq(pending) = {Head(pending)} \cup InSeq(pending')
      BY <1>0, <2>1, InSeqTail
    <2>5. Gone \subseteq Gone' /\ Accepted \subseteq Accepted'
      BY <2>1, <2>3, <2>4 DEF Gone, Accepted
    <2> QED
      BY <2>1, <2>5, DeliveryKept
  <1>13. CASE WriteChunk
    <2>1. stack # <<>> /\ ~Top.waiting /\ UNCHANGED <<line, lost>>
      BY <1>13 DEF WriteChunk
    <2>2. /\ Top \in Frames /\ Top = stack[Len(stack)] /\ Len(stack) \in 1..Len(stack)
          /\ Top.nr \in 1..Chunks[Top.req]
      BY <1>0, <2>1, StackType DEF FramesInRange
    <2>3. ASSUME pending' = Append(pending, Chunk(Top.req, Top.nr)), UNCHANGED outcome,
                 stack' = WithTop([Top EXCEPT !.waiting = TRUE, !.waited = TRUE])
          PROVE  DeliveryInv'
      <3> DEFINE f == [Top EXCEPT !.waiting = TRUE, !.waited = TRUE]
      <3>1. f \in Frames /\ f.nr = Top.nr /\ f.req = Top.req
        BY <2>2 DEF Frames
      <3>2. stack' = WithTop(f)
        BY <2>3
      <3> HIDE DEF f
      <3>3. /\ Len(stack') = Len(stack)
            /\ \A i \in 1..Len(stack) : stack'[i] = IF i = Len(stack) THEN f ELSE stack[i]
        BY <1>0, <2>1, <3>1, <3>2, WithTopType
      <3>4. Chunk(Top.req, Top.nr) \in AllChunks
        BY <2>2, ChunkType DEF Frames
      <3>5. InSeq(pending') = InSeq(pending) \cup {Chunk(Top.req, Top.nr)}
        BY <1>0, <2>3, <3>4, InSeqAppend
      <3>6. /\ Gone' = Gone /\ Accepted \subseteq Accepted'
            /\ Chunk(Top.req, Top.nr) \in Accepted'
        BY <2>1, <3>5 DEF Gone, Accepted
      <3>7. ASSUME NEW k \in 1..Top.nr PROVE Chunk(Top.req, k) \in Accepted'
        <4>1. CASE k = Top.nr
          BY <3>6, <4>1
        <4>2. CASE k < Top.nr
          BY <1>0, <2>2, <3>6, <4>2 DEF WrittenIsAccepted
        <4> QED
          BY <2>2, <4>1, <4>2 DEF Frames
      <3>8. WrittenIsAccepted'
        BY <1>0, <3>1, <3>3, <3>6, <3>7 DEF WrittenIsAccepted
      <3>9. SuccessMeansGone'
        BY <1>0, <2>3, <3>6, SuccessKept
      <3> QED
        BY <3>8, <3>9 DEF DeliveryInv
    <2>4. ASSUME Return("failed"), UNCHANGED pending PROVE DeliveryInv'
      <3>1. outcome' = [outcome EXCEPT ![Top.req] = "failed"] /\ stack' = Below
        BY <2>4 DEF Return, Answer
      <3>2. Gone' = Gone /\ Accepted' = Accepted
        BY <2>1, <2>4 DEF Gone, Accepted
      <3>3. SuccessMeansGone'
        BY <1>0, <3>1, <3>2, SuccessKept
      <3>4. WrittenIsAccepted'
        <4>1. Len(stack') = Len(stack) - 1 /\ \A i \in 1..Len(stack') : stack'[i] = stack[i]
          BY <1>0, <2>1, <3>1, StackType
        <4> QED
          BY <1>0, <3>2, <4>1 DEF WrittenIsAccepted
      <3> QED
        BY <3>3, <3>4 DEF DeliveryInv
    <2> QED
      BY <1>13, <2>3, <2>4 DEF WriteChunk
  <1>14. CASE EndWait
    <2>1. stack # <<>> /\ Top.waiting /\ UNCHANGED <<pending, line, lost>>
      BY <1>14 DEF EndWait
    <2>2. /\ Top \in Frames /\ Top = stack[Len(stack)] /\ Len(stack) \in 1..Len(stack)
          /\ Top.nr \in 1..Chunks[Top.req] /\ Top.nr \in Nat
      BY <1>0, <2>1, StackType DEF FramesInRange, Frames
    <2>3. Gone' = Gone /\ Accepted' = Accepted
      BY <2>1 DEF Gone, Accepted
    <2>4. \A k \in 1..Top.nr : Chunk(Top.req, k) \in Accepted
      BY <1>0, <2>1, <2>2 DEF WrittenIsAccepted
    <2>5. ASSUME NEW o \in {"ok", "failed"}, Return(o),
                 o = "ok" => Drained /\ Top.nr = Chunks[Top.req]
          PROVE  DeliveryInv'
      <3>1. outcome' = [outcome EXCEPT ![Top.req] = o] /\ stack' = Below
        BY <2>5 DEF Return, Answer
      <3>2. o = "ok" => \A k \in 1..Chunks[Top.req] : Chunk(Top.req, k) \in Gone'
        <4>1. Drained => Accepted = Gone
          BY InSeqEmpty DEF Drained, Accepted
        <4> QED
          BY <2>3, <2>4, <2>5, <4>1
      <3>3. SuccessMeansGone'
        BY <1>0, <2>3, <3>1, <3>2, SuccessKept
      <3>4. WrittenIsAccepted'
        <4>1. Len(stack') = Len(stack) - 1 /\ \A i \in 1..Len(stack') : stack'[i] = stack[i]
          BY <1>0, <2>1, <3>1, StackType
        <4> QED
          BY <1>0, <2>3, <4>1 DEF WrittenIsAccepted
      <3> QED
        BY <3>3, <3>4 DEF DeliveryInv
    <2>6. ASSUME stack' = WithTop([Top EXCEPT !.nr = @ + 1, !.waiting = FALSE]),
                 UNCHANGED outcome
          PROVE  DeliveryInv'
      <3> DEFINE f == [Top EXCEPT !.nr = @ + 1, !.waiting = FALSE]
      <3>1. f.req = Top.req /\ f.nr = Top.nr + 1 /\ ~f.waiting
        BY <2>2 DEF Frames
      <3>2. f \in Frames
        <4>1. Top.nr + 1 \in Nat
          BY <2>2
        <4> QED
          BY <2>2, <4>1 DEF Frames
      <3>3. stack' = WithTop(f)
        BY <2>6
      <3> HIDE DEF f
      <3>4. /\ Len(stack') = Len(stack)
            /\ \A i \in 1..Len(stack) : stack'[i] = IF i = Len(stack) THEN f ELSE stack[i]
        BY <1>0, <2>1, <3>2, <3>3, WithTopType
      <3>5. ASSUME NEW i \in 1..Len(stack'), NEW k \in 1..stack'[i].nr,
                   k < stack'[i].nr \/ stack'[i].waiting
            PROVE  Chunk(stack'[i].req, k) \in Accepted'
        <4>1. CASE i = Len(stack)
          <5>1. stack'[i].req = Top.req /\ stack'[i].nr = Top.nr + 1 /\ ~stack'[i].waiting
            BY <2>2, <3>1, <3>4, <4>1
          <5>2. k \in 1..Top.nr
            BY <2>2, <3>5, <5>1
          <5> QED
            BY <2>3, <2>4, <5>1, <5>2
        <4>2. CASE i # Len(stack)
          <5>1. stack'[i] = stack[i] /\ i \in 1..Len(stack)
            BY <3>4, <3>5, <4>2
          <5> QED
            BY <1>0, <2>3, <3>5, <5>1 DEF WrittenIsAccepted
        <4> QED
          BY <4>1, <4>2
      <3>7. WrittenIsAccepted'
        BY <3>5 DEF WrittenIsAccepted
      <3>6. SuccessMeansGone'
        BY <1>0, <2>3, <2>6, SuccessKept
      <3> QED
        BY <3>6, <3>7 DEF DeliveryInv
    <2> QED
      BY <1>14, <2>5, <2>6 DEF EndWait
  <1>15. CASE UNCHANGED vars
    BY <1>1, <1>15 DEF vars
  <1> QED
    BY <1>3, <1>4, <1>5, <1>6, <1>7, <1>8, <1>9, <1>10, <1>11, <1>12, <1>13, <1>14, <1>15
       DEF Next, HandleSend, Finished

(***************************************************************************)
(* A successful request has left nothing in the shared write buffer.  The  *)
(* strengthening follows the chunks of the sends that are still waiting.   *)
(***************************************************************************)
THEOREM SuccessfulIsGone == SafeSpec => []SuccessMeansGone
  <1>1. Init => DeliveryInv
    BY EmptySeq DEF Init, DeliveryInv, SuccessMeansGone, WrittenIsAccepted
  <1>2. DeliveryInv => SuccessMeansGone
    BY DEF DeliveryInv
  <1> QED
    BY <1>1, <1>2, TypeInit, TypeStep, DeliveryStep, PTL DEF SafeSpec
-----------------------------------------------------------------------------
(***************************************************************************)
(* Every answer is the first one.                                          *)
(***************************************************************************)
Unanswered(r) == r \in submitted /\ outcome[r] = "none"

\* A request is at most once among the posted orders and the waiting sends,
\* and it is there only while it has no answer.
InboxUnanswered == \A i \in 1..Len(inbox) : inbox[i].kind = "send" => Unanswered(inbox[i].req)
StackUnanswered == \A i \in 1..Len(stack) : Unanswered(stack[i].req)
InboxOnce ==
    \A i, j \in 1..Len(inbox) :
        i # j /\ inbox[i].kind = "send" /\ inbox[j].kind = "send" => inbox[i].req # inbox[j].req
StackOnce == \A i, j \in 1..Len(stack) : i # j => stack[i].req # stack[j].req
InboxNotStack ==
    \A i \in 1..Len(inbox), j \in 1..Len(stack) :
        inbox[i].kind = "send" => inbox[i].req # stack[j].req

RequestsOnce ==
    InboxUnanswered /\ StackUnanswered /\ InboxOnce /\ StackOnce /\ InboxNotStack

\* An order that is not a send, or the send of a new request, is posted.
LEMMA OncePost ==
    ASSUME TypeOK, RequestsOnce, NEW order \in Orders, Post(order),
           UNCHANGED <<stack, outcome>>, submitted \subseteq submitted',
           order.kind = "send" =>
               /\ order.req \notin submitted /\ order.req \in submitted'
               /\ outcome[order.req] = "none"
    PROVE  RequestsOnce'
  <1>1. inbox \in Seq(Orders) /\ Len(inbox) \in Nat
    BY LenProperties DEF TypeOK, QueuesOK
  <1>2. /\ Len(inbox') = Len(inbox) + 1 /\ inbox'[Len(inbox) + 1] = order
        /\ \A i \in 1..Len(inbox) : inbox'[i] = inbox[i]
    BY <1>1, AppendProperties DEF Post
  <1>3. \A i \in 1..Len(inbox') : i \in 1..Len(inbox) \/ i = Len(inbox) + 1
    BY <1>1, <1>2
  <1>4. InboxUnanswered'
    BY <1>2, <1>3 DEF RequestsOnce, InboxUnanswered, Unanswered
  <1>5. StackUnanswered' /\ StackOnce'
    BY DEF RequestsOnce, StackUnanswered, StackOnce, Unanswered
  <1>6. InboxOnce'
    BY <1>2, <1>3 DEF RequestsOnce, InboxUnanswered, InboxOnce, Unanswered
  <1>7. InboxNotStack'
    BY <1>2, <1>3 DEF RequestsOnce, StackUnanswered, InboxNotStack, Unanswered
  <1> QED
    BY <1>4, <1>5, <1>6, <1>7 DEF RequestsOnce

\* What is left of the inbox when its head is handled.
LEMMA InboxTail ==
    ASSUME TypeOK, inbox # <<>>, inbox' = Tail(inbox)
    PROVE  /\ 1 \in 1..Len(inbox) /\ Head(inbox) = inbox[1]
           /\ \A i \in 1..Len(inbox') :
                 i + 1 \in 1..Len(inbox) /\ i + 1 # 1 /\ inbox'[i] = inbox[i + 1]
           /\ \A i, j \in 1..Len(inbox') : i # j => i + 1 # j + 1
  <1>1. /\ inbox \in Seq(Orders) /\ Len(inbox) \in Nat
        /\ Len(inbox') = Len(inbox) - 1 /\ \A i \in 1..Len(inbox') : inbox'[i] = inbox[i + 1]
        /\ Head(inbox) = inbox[1] /\ Len(inbox) # 0
    BY LenProperties, HeadTailProperties, EmptySeq DEF TypeOK, QueuesOK
  <1> QED
    BY <1>1

\* An answer changes nothing for the other requests.
LEMMA OtherAnswers ==
    ASSUME TypeOK, NEW r, NEW o, outcome' = [outcome EXCEPT ![r] = o], UNCHANGED submitted,
           NEW q, q # r, Unanswered(q)
    PROVE  q \in submitted' /\ outcome'[q] = "none"
  BY DEF TypeOK, HistoryOK, Unanswered

\* The head of the inbox is handled; if it is a send, its request is answered.
LEMMA OnceTail ==
    ASSUME TypeOK, RequestsOnce, inbox # <<>>, inbox' = Tail(inbox), UNCHANGED <<stack, submitted>>,
           \/ UNCHANGED outcome
           \/ Head(inbox).kind = "send"
              /\ \E o : outcome' = [outcome EXCEPT ![Head(inbox).req] = o]
    PROVE  RequestsOnce'
  <1> DEFINE r == Head(inbox).req
  <1>1. ASSUME NEW q, Unanswered(q), Head(inbox).kind = "send" => q # r
        PROVE  q \in submitted' /\ outcome'[q] = "none"
    <2>1. CASE UNCHANGED outcome
      BY <1>1, <2>1 DEF Unanswered
    <2>2. ASSUME NEW o, Head(inbox).kind = "send", outcome' = [outcome EXCEPT ![r] = o]
          PROVE  q \in submitted' /\ outcome'[q] = "none"
      BY <1>1, <2>2, OtherAnswers
    <2> QED
      BY <2>1, <2>2
  <1>2. InboxUnanswered'
    <2> SUFFICES ASSUME NEW i \in 1..Len(inbox'), inbox'[i].kind = "send"
                 PROVE  inbox'[i].req \in submitted' /\ outcome'[inbox'[i].req] = "none"
      BY DEF InboxUnanswered, Unanswered
    <2>1. /\ i + 1 \in 1..Len(inbox) /\ i + 1 # 1 /\ inbox'[i] = inbox[i + 1]
          /\ 1 \in 1..Len(inbox) /\ Head(inbox) = inbox[1]
      BY InboxTail
    <2>2. Unanswered(inbox[i + 1].req) /\ (Head(inbox).kind = "send" => inbox[i + 1].req # r)
      BY <2>1 DEF RequestsOnce, InboxUnanswered, InboxOnce
    <2> QED
      BY <1>1, <2>1, <2>2
  <1>3. StackUnanswered'
    <2> SUFFICES ASSUME NEW i \in 1..Len(stack)
                 PROVE  stack[i].req \in submitted' /\ outcome'[stack[i].req] = "none"
      BY DEF StackUnanswered, Unanswered
    <2>1. Unanswered(stack[i].req) /\ (Head(inbox).kind = "send" => stack[i].req # r)
      BY InboxTail DEF RequestsOnce, StackUnanswered, InboxNotStack
    <2> QED
      BY <1>1, <2>1
  <1> HIDE DEF r
  <1>4. InboxOnce'
    BY InboxTail DEF RequestsOnce, InboxOnce
  <1>5. StackOnce' /\ InboxNotStack'
    BY InboxTail DEF RequestsOnce, StackOnce, InboxNotStack
  <1> QED
    BY <1>2, <1>3, <1>4, <1>5 DEF RequestsOnce

\* The head of the inbox becomes the innermost send.
LEMMA OncePush ==
    ASSUME TypeOK, RequestsOnce, NEW r \in Requests, SendAtHead(r),
           stack' = Append(stack, NewFrame(r)), UNCHANGED <<submitted, outcome>>
    PROVE  RequestsOnce'
  <1>1. inbox # <<>> /\ inbox' = Tail(inbox) /\ Head(inbox) = SendOrder(r)
    BY DEF SendAtHead
  <1>2. /\ 1 \in 1..Len(inbox) /\ inbox[1].kind = "send" /\ inbox[1].req = r
        /\ \A i \in 1..Len(inbox') :
              i + 1 \in 1..Len(inbox) /\ i + 1 # 1 /\ inbox'[i] = inbox[i + 1]
        /\ \A i, j \in 1..Len(inbox') : i # j => i + 1 # j + 1
    BY <1>1, InboxTail DEF SendOrder
  <1>3. NewFrame(r) \in Frames /\ NewFrame(r).req = r
    BY DEF NewFrame, Frames
  <1>4. stack \in Seq(Frames) /\ Len(stack) \in Nat
    BY LenProperties DEF TypeOK, QueuesOK
  <1>5. /\ stack'[Len(stack) + 1].req = r /\ Len(stack') = Len(stack) + 1
        /\ \A i \in 1..Len(stack) : stack'[i] = stack[i]
    BY <1>3, <1>4, AppendProperties
  <1>6. \A i \in 1..Len(stack') : i \in 1..Len(stack) \/ i = Len(stack) + 1
    BY <1>4, <1>5
  <1>7. InboxUnanswered' /\ InboxOnce'
    <2>1. InboxUnanswered'
      BY <1>2 DEF RequestsOnce, InboxUnanswered, Unanswered
    <2>2. InboxOnce'
      BY <1>1, InboxTail DEF RequestsOnce, InboxOnce
    <2> QED
      BY <2>1, <2>2
  <1>8. StackUnanswered'
    BY <1>2, <1>5, <1>6 DEF RequestsOnce, InboxUnanswered, StackUnanswered, Unanswered
  <1>9. StackOnce'
    BY <1>2, <1>5, <1>6 DEF RequestsOnce, InboxNotStack, StackOnce
  <1>10. InboxNotStack'
    <2> SUFFICES ASSUME NEW i \in 1..Len(inbox'), NEW j \in 1..Len(stack'),
                        inbox'[i].kind = "send"
                 PROVE  inbox'[i].req # stack'[j].req
      BY DEF InboxNotStack
    <2>1. CASE j = Len(stack) + 1
      <3>1. inbox[i + 1].req # r
        BY <1>2 DEF RequestsOnce, InboxOnce
      <3> QED
        BY <1>2, <1>5, <2>1, <3>1
    <2>2. CASE j \in 1..Len(stack)
      BY <1>2, <1>5, <2>2 DEF RequestsOnce, InboxNotStack
    <2> QED
      BY <1>6, <2>1, <2>2
  <1> QED
    BY <1>7, <1>8, <1>9, <1>10 DEF RequestsOnce

\* The innermost send returns with its answer.
LEMMA OnceReturn ==
    ASSUME TypeOK, RequestsOnce, stack # <<>>, NEW o, Return(o), UNCHANGED <<inbox, submitted>>
    PROVE  RequestsOnce' /\ Unanswered(Top.req)
  <1>1. /\ Top = stack[Len(stack)] /\ Len(stack) \in 1..Len(stack) /\ Len(stack) \in Nat
        /\ Len(stack') = Len(stack) - 1 /\ \A i \in 1..Len(stack') : stack'[i] = stack[i]
    BY StackType, LenProperties DEF TypeOK, QueuesOK, Return
  <1>2. \A i \in 1..Len(stack') : i \in 1..Len(stack) /\ i # Len(stack)
    BY <1>1
  <1>3. outcome' = [outcome EXCEPT ![Top.req] = o]
    BY DEF Return, Answer
  <1>4. \A q : q # Top.req /\ Unanswered(q) => q \in submitted' /\ outcome'[q] = "none"
    BY <1>3, OtherAnswers
  <1>5. InboxUnanswered'
    BY <1>1, <1>4 DEF RequestsOnce, InboxUnanswered, InboxNotStack, Unanswered
  <1>6. StackUnanswered'
    <2> SUFFICES ASSUME NEW i \in 1..Len(stack')
                 PROVE  stack'[i].req \in submitted' /\ outcome'[stack'[i].req] = "none"
      BY DEF StackUnanswered, Unanswered
    <2>1. i \in 1..Len(stack) /\ i # Len(stack) /\ stack'[i] = stack[i]
      BY <1>1, <1>2
    <2>2. stack[i].req # Top.req /\ Unanswered(stack[i].req)
      BY <1>1, <2>1 DEF RequestsOnce, StackUnanswered, StackOnce
    <2> QED
      BY <1>4, <2>1, <2>2
  <1>7. InboxOnce' /\ StackOnce' /\ InboxNotStack'
    <2>1. InboxOnce'
      BY DEF RequestsOnce, InboxOnce
    <2>2. StackOnce'
      <3> SUFFICES ASSUME NEW i \in 1..Len(stack'), NEW j \in 1..Len(stack'), i # j
                   PROVE  stack'[i].req # stack'[j].req
        BY DEF StackOnce
      <3>1. i \in 1..Len(stack) /\ j \in 1..Len(stack)
        BY <1>2
      <3>2. stack[i].req # stack[j].req
        BY <3>1 DEF RequestsOnce, StackOnce
      <3> QED
        BY <1>1, <3>2
    <2>3. InboxNotStack'
      <3> SUFFICES ASSUME NEW i \in 1..Len(inbox), NEW j \in 1..Len(stack'),
                          inbox[i].kind = "send"
                   PROVE  inbox[i].req # stack'[j].req
        BY DEF InboxNotStack
      <3>1. j \in 1..Len(stack) /\ stack'[j] = stack[j]
        BY <1>1, <1>2
      <3> QED
        BY <3>1 DEF RequestsOnce, InboxNotStack
    <2> QED
      BY <2>1, <2>2, <2>3
  <1>8. Unanswered(Top.req)
    BY <1>1 DEF RequestsOnce, StackUnanswered
  <1> QED
    BY <1>5, <1>6, <1>7, <1>8 DEF RequestsOnce

\* The innermost send goes on.
LEMMA OnceWithTop ==
    ASSUME TypeOK, RequestsOnce, stack # <<>>, NEW f \in Frames, f.req = Top.req,
           stack' = WithTop(f), UNCHANGED <<inbox, submitted, outcome>>
    PROVE  RequestsOnce'
  <1>1. Top = stack[Len(stack)]
    BY StackType
  <1>2. /\ Len(stack') = Len(stack)
        /\ \A i \in 1..Len(stack) : stack'[i] = IF i = Len(stack) THEN f ELSE stack[i]
    BY WithTopType
  <1>3. \A i \in 1..Len(stack) : stack'[i].req = stack[i].req
    BY <1>1, <1>2
  <1>4. InboxUnanswered' /\ StackUnanswered'
    BY <1>2, <1>3 DEF RequestsOnce, InboxUnanswered, StackUnanswered, Unanswered
  <1>5. InboxOnce' /\ StackOnce' /\ InboxNotStack'
    BY <1>2, <1>3 DEF RequestsOnce, InboxOnce, StackOnce, InboxNotStack
  <1> QED
    BY <1>4, <1>5 DEF RequestsOnce

\* A step of the thread posts a request, answers one, or does neither.
ServiceStep == [Service!Next]_(Service!vars)

LEMMA OnceStep ==
    TypeInv /\ RequestsOnce /\ (\A r \in Requests : r \notin submitted => outcome[r] = "none")
        /\ [Next]_vars
        => /\ RequestsOnce'
           /\ (\A r \in Requests : r \notin submitted => outcome[r] = "none")'
           /\ ServiceStep
  <1> DEFINE NotEarly == \A r \in Requests : r \notin submitted => outcome[r] = "none"
  <1> SUFFICES ASSUME TypeInv, RequestsOnce, NotEarly, [Next]_vars
               PROVE  RequestsOnce' /\ NotEarly' /\ ServiceStep
    OBVIOUS
  <1>0. /\ TypeOK
        /\ inbox \in Seq(Orders) /\ stack \in Seq(Frames) /\ submitted \in SUBSET Requests
        /\ outcome \in [Requests -> {"none", "ok", "failed"}]
    BY DEF TypeInv, TypeOK, QueuesOK, HistoryOK
  <1>1. ASSUME UNCHANGED <<submitted, outcome>> PROVE NotEarly' /\ ServiceStep
    BY <1>1 DEF ServiceStep, Service!vars
  <1>2. ASSUME NEW r \in Requests, Unanswered(r), NEW o \in {"ok", "failed"}, Answer(r, o),
               UNCHANGED submitted
        PROVE  NotEarly' /\ ServiceStep
    <2>1. outcome' = [outcome EXCEPT ![r] = o]
      BY <1>2 DEF Answer
    <2>2. Service!Answer(r)
      BY <1>2, <2>1 DEF Service!Answer, Unanswered
    <2>3. NotEarly'
      BY <1>0, <1>2, <2>1 DEF Unanswered
    <2> QED
      BY <2>2, <2>3 DEF ServiceStep, Service!Next
  <1>3. ASSUME UNCHANGED <<inbox, stack, outcome, submitted>> PROVE RequestsOnce'
    BY <1>3 DEF RequestsOnce, InboxUnanswered, StackUnanswered, InboxOnce, StackOnce,
                InboxNotStack, Unanswered
  <1>4. ASSUME NEW r \in Requests, SendAtHead(r)
        PROVE  /\ inbox # <<>> /\ Head(inbox).kind = "send" /\ Head(inbox).req = r
               /\ Unanswered(r) /\ inbox' = Tail(inbox)
    <2>1. Head(inbox) = SendOrder(r) /\ inbox # <<>> /\ inbox' = Tail(inbox)
      BY <1>4 DEF SendAtHead
    <2>2. 1 \in 1..Len(inbox) /\ Head(inbox) = inbox[1]
      BY <1>0, <2>1, EmptySeq
    <2> QED
      BY <2>1, <2>2 DEF SendOrder, RequestsOnce, InboxUnanswered
  <1>5. ASSUME NEW r \in Requests, PostSend(r) PROVE RequestsOnce' /\ NotEarly' /\ ServiceStep
    <2>1. /\ r \notin submitted /\ submitted' = submitted \cup {r}
          /\ Post(SendOrder(r)) /\ UNCHANGED <<stack, outcome>>
      BY <1>5 DEF PostSend
    <2>2. SendOrder(r) \in Orders /\ SendOrder(r).req = r /\ outcome[r] = "none"
      BY <2>1 DEF Orders, SendOrder
    <2>3. RequestsOnce'
      BY <1>0, <2>1, <2>2, OncePost
    <2>4. Service!Submit(r)
      BY <2>1 DEF Service!Submit
    <2> QED
      BY <2>1, <2>3, <2>4 DEF ServiceStep, Service!Next
  <1>6. ASSUME NEW r \in Requests, RejectSend(r) PROVE RequestsOnce' /\ NotEarly' /\ ServiceStep
    <2>1. SendAtHead(r) /\ Answer(r, "failed") /\ UNCHANGED <<stack, submitted>>
      BY <1>6 DEF RejectSend, posted
    <2>2. RequestsOnce'
      BY <1>0, <1>4, <2>1, OnceTail DEF Answer
    <2> QED
      BY <1>2, <1>4, <2>1, <2>2
  <1>7. ASSUME NEW r \in Requests, StartSerialSend(r)
        PROVE  RequestsOnce' /\ NotEarly' /\ ServiceStep
    BY <1>0, <1>1, <1>7, OncePush DEF StartSerialSend, posted
  <1>8. ASSUME NEW r \in Requests, DirectSend(r) PROVE RequestsOnce' /\ NotEarly' /\ ServiceStep
    <2>1. PICK o \in {"ok", "failed"} : Answer(r, o)
      BY <1>8 DEF DirectSend
    <2>2. SendAtHead(r) /\ UNCHANGED <<stack, submitted>>
      BY <1>8 DEF DirectSend, posted
    <2>3. RequestsOnce'
      BY <1>0, <1>4, <2>1, <2>2, OnceTail DEF Answer
    <2> QED
      BY <1>2, <1>4, <2>1, <2>2, <2>3
  <1>9. ASSUME NEW t \in Types, NEW on \in BOOLEAN, PostConnect(t, on)
        PROVE  RequestsOnce' /\ NotEarly' /\ ServiceStep
    <2>1. ConnectOrder(t, on) \in Orders /\ ConnectOrder(t, on).kind # "send"
      BY DEF Orders, ConnectOrder
    <2>2. Post(ConnectOrder(t, on)) /\ UNCHANGED <<stack, outcome, submitted>>
      BY <1>9 DEF PostConnect
    <2> QED
      BY <1>0, <1>1, <2>1, <2>2, OncePost
  <1>10. CASE PostExit
    <2>1. ExitOrder \in Orders /\ ExitOrder.kind # "send"
      BY DEF Orders, ExitOrder
    <2>2. Post(ExitOrder) /\ UNCHANGED <<stack, outcome, submitted>>
      BY <1>10 DEF PostExit, posted
    <2> QED
      BY <1>0, <1>1, <2>1, <2>2, OncePost
  <1>11. CASE HandleConnect \/ HandleExit
    <2>1. inbox # <<>> /\ inbox' = Tail(inbox) /\ UNCHANGED <<stack, outcome, submitted>>
      BY <1>11 DEF HandleConnect, HandleExit, posted
    <2> QED
      BY <1>0, <1>1, <2>1, OnceTail
  <1>12. ASSUME NEW o \in {"ok", "failed"}, Return(o), stack # <<>>, UNCHANGED <<inbox, submitted>>
         PROVE  RequestsOnce' /\ NotEarly' /\ ServiceStep
    <2>1. RequestsOnce' /\ Unanswered(Top.req)
      BY <1>0, <1>12, OnceReturn
    <2>2. Top.req \in Requests /\ Answer(Top.req, o)
      BY <1>0, <1>12, StackType DEF Frames, Return
    <2> QED
      BY <1>2, <1>12, <2>1, <2>2
  <1>13. ASSUME NEW f \in Frames, f.req = Top.req, stack # <<>>, stack' = WithTop(f),
                UNCHANGED <<inbox, submitted, outcome>>
         PROVE  RequestsOnce' /\ NotEarly' /\ ServiceStep
    BY <1>0, <1>1, <1>13, OnceWithTop
  <1>14. CASE WriteChunk
    <2>1. stack # <<>> /\ Top \in Frames /\ UNCHANGED <<inbox, submitted>>
      BY <1>0, <1>14, StackType DEF WriteChunk, posted
    <2>2. CASE Return("failed")
      BY <1>12, <2>1, <2>2
    <2>3. CASE stack' = WithTop([Top EXCEPT !.waiting = TRUE, !.waited = TRUE])
               /\ UNCHANGED outcome
      <3> DEFINE f == [Top EXCEPT !.waiting = TRUE, !.waited = TRUE]
      <3>1. f \in Frames /\ f.req = Top.req
        BY <2>1 DEF Frames
      <3>2. stack' = WithTop(f)
        BY <2>3
      <3> HIDE DEF f
      <3> QED
        BY <1>13, <2>1, <2>3, <3>1, <3>2
    <2> QED
      BY <1>14, <2>2, <2>3 DEF WriteChunk
  <1>15. CASE EndWait
    <2>1. stack # <<>> /\ Top \in Frames /\ UNCHANGED <<inbox, submitted>>
      BY <1>0, <1>15, StackType DEF EndWait, posted
    <2>2. ASSUME NEW o \in {"ok", "failed"}, Return(o)
          PROVE  RequestsOnce' /\ NotEarly' /\ ServiceStep
      BY <1>12, <2>1, <2>2
    <2>3. CASE stack' = WithTop([Top EXCEPT !.nr = @ + 1, !.waiting = FALSE])
               /\ UNCHANGED outcome
      <3> DEFINE f == [Top EXCEPT !.nr = @ + 1, !.waiting = FALSE]
      <3>1. Top.nr + 1 \in Nat
        BY <2>1 DEF Frames
      <3>2. f \in Frames /\ f.req = Top.req
        BY <2>1, <3>1 DEF Frames
      <3>3. stack' = WithTop(f)
        BY <2>3
      <3> HIDE DEF f
      <3> QED
        BY <1>13, <2>1, <2>3, <3>2, <3>3
    <2> QED
      BY <1>15, <2>2, <2>3 DEF EndWait
  <1>16. CASE SerialDrains \/ SerialReceives \/ ClientConnected \/ ClientError
    BY <1>1, <1>3, <1>16 DEF SerialDrains, SerialReceives, ClientConnected, ClientError, posted
  <1>17. ASSUME NEW p \in Peers, PeerConnects(p) PROVE RequestsOnce' /\ NotEarly' /\ ServiceStep
    BY <1>1, <1>3, <1>17 DEF PeerConnects, posted
  <1>18. ASSUME NEW i \in 1..Len(peers), PeerDisconnects(i)
         PROVE  RequestsOnce' /\ NotEarly' /\ ServiceStep
    BY <1>1, <1>3, <1>18 DEF PeerDisconnects, posted
  <1>19. CASE UNCHANGED vars
    BY <1>1, <1>3, <1>19 DEF vars
  <1> QED
    BY <1>5, <1>6, <1>7, <1>8, <1>9, <1>10, <1>11, <1>14, <1>15, <1>16, <1>17, <1>18, <1>19
       DEF Next, HandleSend, Finished

(***************************************************************************)
(* The thread implements SendService: however sends nest and whatever      *)
(* happens to the connections, an answer belongs to a request that was     *)
(* handed over and has no answer yet.                                      *)
(***************************************************************************)
THEOREM AnswersAtMostOnce == SafeSpec => AnswersOnce
  <1> DEFINE NotEarly == \A r \in Requests : r \notin submitted => outcome[r] = "none"
  <1>1. Init => RequestsOnce /\ NotEarly
    BY EmptySeq DEF Init, RequestsOnce, InboxUnanswered, StackUnanswered, InboxOnce, StackOnce,
                    InboxNotStack
  <1>2. Init => Service!Init
    BY DEF Init, Service!Init
  <1>3. TypeInv /\ RequestsOnce /\ NotEarly /\ [Next]_vars
            => RequestsOnce' /\ NotEarly' /\ ServiceStep
    BY OnceStep
  <1> HIDE DEF NotEarly
  <1> QED
    BY <1>1, <1>2, <1>3, TypeInit, TypeStep, PTL
       DEF SafeSpec, AnswersOnce, Service!SafeSpec, ServiceStep
-----------------------------------------------------------------------------
(***************************************************************************)
(* Received bytes.                                                         *)
(***************************************************************************)

\* A send that waits has muted the port, and will fetch what arrived.
WaitingWaited == \A i \in 1..Len(stack) : stack[i].waiting => stack[i].waited

SomeFailed == \E r \in Requests : outcome[r] = "failed"

LEMMA WaitedStep == TypeOK /\ WaitingWaited /\ [Next]_vars => WaitingWaited'
  <1> SUFFICES ASSUME TypeOK, WaitingWaited, [Next]_vars PROVE WaitingWaited'
    OBVIOUS
  <1>1. ASSUME UNCHANGED stack PROVE WaitingWaited'
    BY <1>1 DEF WaitingWaited
  <1>2. ASSUME NEW r \in Requests, StartSerialSend(r) PROVE WaitingWaited'
    <2>1. stack' = Append(stack, NewFrame(r)) /\ NewFrame(r) \in Frames /\ ~NewFrame(r).waiting
      BY <1>2 DEF StartSerialSend, NewFrame, Frames
    <2>2. stack \in Seq(Frames)
      BY DEF TypeOK, QueuesOK
    <2>3. /\ Len(stack') = Len(stack) + 1 /\ stack'[Len(stack) + 1] = NewFrame(r)
          /\ \A i \in 1..Len(stack) : stack'[i] = stack[i]
      BY <2>1, <2>2, AppendProperties
    <2> QED
      BY <2>1, <2>2, <2>3, LenProperties DEF WaitingWaited
  <1>3. ASSUME NEW f \in Frames, f.waiting => f.waited, stack # <<>>, stack' = WithTop(f)
        PROVE  WaitingWaited'
    BY <1>3, WithTopType DEF WaitingWaited
  <1>4. ASSUME NEW o, stack # <<>>, Return(o) PROVE WaitingWaited'
    BY <1>4, StackType DEF Return, WaitingWaited
  <1>5. ASSUME NEW r \in Requests, PostSend(r) \/ HandleSend(r) PROVE WaitingWaited'
    BY <1>1, <1>2, <1>5 DEF PostSend, HandleSend, RejectSend, DirectSend
  <1>6. ASSUME NEW t \in Types, NEW on \in BOOLEAN, PostConnect(t, on) PROVE WaitingWaited'
    BY <1>1, <1>6 DEF PostConnect
  <1>7. CASE PostExit \/ HandleConnect \/ HandleExit \/ SerialDrains \/ SerialReceives
    BY <1>1, <1>7 DEF PostExit, HandleConnect, HandleExit, SerialDrains, SerialReceives
  <1>8. CASE ClientConnected \/ ClientError
    BY <1>1, <1>8 DEF ClientConnected, ClientError
  <1>9. ASSUME NEW p \in Peers, PeerConnects(p) PROVE WaitingWaited'
    BY <1>1, <1>9 DEF PeerConnects
  <1>10. ASSUME NEW i \in 1..Len(peers), PeerDisconnects(i) PROVE WaitingWaited'
    BY <1>1, <1>10 DEF PeerDisconnects
  <1>11. CASE WriteChunk
    <2>1. stack # <<>>
      BY <1>11 DEF WriteChunk
    <2> DEFINE f == [Top EXCEPT !.waiting = TRUE, !.waited = TRUE]
    <2>2. f \in Frames /\ f.waited
      BY <2>1, StackType DEF Frames
    <2>3. Return("failed") \/ stack' = WithTop(f)
      BY <1>11 DEF WriteChunk
    <2> HIDE DEF f
    <2> QED
      BY <1>3, <1>4, <2>1, <2>2, <2>3
  <1>12. CASE EndWait
    <2>1. stack # <<>>
      BY <1>12 DEF EndWait
    <2> DEFINE f == [Top EXCEPT !.nr = @ + 1, !.waiting = FALSE]
    <2>0. Top \in Frames /\ Top.nr + 1 \in Nat
      BY <2>1, StackType DEF Frames
    <2>2. f \in Frames /\ ~f.waiting
      BY <2>0 DEF Frames
    <2>3. Return("failed") \/ Return("ok") \/ stack' = WithTop(f)
      BY <1>12 DEF EndWait
    <2> HIDE DEF f
    <2> QED
      BY <1>3, <1>4, <2>1, <2>2, <2>3
  <1>13. CASE UNCHANGED vars
    BY <1>1, <1>13 DEF vars
  <1> QED
    BY <1>5, <1>6, <1>7, <1>8, <1>9, <1>10, <1>11, <1>12, <1>13 DEF Next, Finished

\* A failure, once reported, is not taken back.
LEMMA FailedStays ==
    ASSUME TypeOK, ServiceStep, SomeFailed
    PROVE  SomeFailed'
  <1>1. PICK r \in Requests : outcome[r] = "failed"
    BY DEF SomeFailed
  <1>2. outcome \in [Requests -> {"none", "ok", "failed"}]
    BY DEF TypeOK, HistoryOK
  <1>3. CASE outcome' = outcome
    BY <1>1, <1>3 DEF SomeFailed
  <1>4. ASSUME NEW q \in Requests, Service!Answer(q) PROVE SomeFailed'
    BY <1>1, <1>2, <1>4 DEF Service!Answer, SomeFailed
  <1> QED
    BY <1>3, <1>4 DEF ServiceStep, Service!Next, Service!Submit, Service!vars

LEMMA ReadStep ==
    ASSUME TypeOK, BlockedOnlyInSend, WaitingWaited, ReadAfterSuccess, ServiceStep, [Next]_vars
    PROVE  ReadAfterSuccess'
  <1>1. CASE SomeFailed
    BY <1>1, FailedStays DEF SomeFailed, ReadAfterSuccess
  <1>2. CASE ~SomeFailed
    <2>0. stack = <<>> => ~rx
      BY <1>2 DEF SomeFailed, ReadAfterSuccess
    <2>1. ASSUME UNCHANGED <<rx, stack>> PROVE ReadAfterSuccess'
      BY <2>0, <2>1 DEF ReadAfterSuccess
    <2>2. ASSUME rx' = FALSE PROVE ReadAfterSuccess'
      BY <2>2 DEF ReadAfterSuccess
    <2>3. ASSUME NEW t, NEW on, ConnectSlot(t, on) PROVE rx' = FALSE
      BY <2>3 DEF ConnectSlot, CloseSerial
    <2>4. ASSUME stack # <<>>, Return("failed") PROVE ReadAfterSuccess'
      <3>1. Top.req \in Requests /\ outcome \in [Requests -> {"none", "ok", "failed"}]
        BY <2>4, StackType DEF Frames, TypeOK, HistoryOK
      <3>2. outcome' = [outcome EXCEPT ![Top.req] = "failed"]
        BY <2>4 DEF Return, Answer
      <3> QED
        BY <3>1, <3>2 DEF ReadAfterSuccess
    <2>5. ASSUME NEW f \in Frames, stack # <<>>, stack' = WithTop(f) PROVE ReadAfterSuccess'
      <3>1. Len(stack') \in Nat \ {0}
        BY <2>5, WithTopType, StackType
      <3> QED
        BY <3>1, EmptySeq DEF ReadAfterSuccess
    <2>6. ASSUME NEW r \in Requests, PostSend(r) \/ HandleSend(r) PROVE ReadAfterSuccess'
      <3>1. CASE StartSerialSend(r)
        <4>1. stack' = Append(stack, NewFrame(r)) /\ NewFrame(r) \in Frames
          BY <3>1 DEF StartSerialSend, NewFrame, Frames
        <4>2. stack' # <<>>
          BY <4>1, AppendProperties DEF TypeOK, QueuesOK
        <4> QED
          BY <4>2 DEF ReadAfterSuccess
      <3>2. CASE DirectSend(r)
        BY <3>2, <2>1, <2>2, <2>3 DEF DirectSend
      <3> QED
        BY <2>1, <2>6, <3>1, <3>2 DEF PostSend, HandleSend, RejectSend, serialPort
    <2>7. ASSUME NEW t \in Types, NEW on \in BOOLEAN, PostConnect(t, on) PROVE ReadAfterSuccess'
      BY <2>1, <2>7 DEF PostConnect, serialPort
    <2>8. CASE PostExit \/ SerialDrains \/ ClientConnected
      BY <2>1, <2>8 DEF PostExit, SerialDrains, ClientConnected, serialPort
    <2>9. CASE HandleConnect \/ HandleExit \/ ClientError
      BY <2>2, <2>3, <2>9 DEF HandleConnect, HandleExit, ClientError, CloseSerial
    <2>10. CASE SerialReceives
      <3>1. stack' = stack /\ rx' = blocked
        BY <2>10 DEF SerialReceives
      <3>2. CASE stack = <<>>
        BY <3>1, <3>2, EmptySeq DEF BlockedOnlyInSend, ReadAfterSuccess
      <3>3. CASE stack # <<>>
        BY <3>1, <3>3 DEF ReadAfterSuccess
      <3> QED
        BY <3>2, <3>3
    <2>11. ASSUME NEW p \in Peers, PeerConnects(p) PROVE ReadAfterSuccess'
      BY <2>1, <2>11 DEF PeerConnects, serialPort
    <2>12. ASSUME NEW i \in 1..Len(peers), PeerDisconnects(i) PROVE ReadAfterSuccess'
      BY <2>1, <2>2, <2>3, <2>12 DEF PeerDisconnects
    <2>13. CASE WriteChunk
      <3> DEFINE f == [Top EXCEPT !.waiting = TRUE, !.waited = TRUE]
      <3>1. stack # <<>> /\ (Return("failed") \/ stack' = WithTop(f))
        BY <2>13 DEF WriteChunk
      <3>2. f \in Frames
        BY <3>1, StackType DEF Frames
      <3> HIDE DEF f
      <3> QED
        BY <3>1, <3>2, <2>4, <2>5
    <2>14. CASE EndWait
      <3> DEFINE f == [Top EXCEPT !.nr = @ + 1, !.waiting = FALSE]
      <3>1. /\ stack # <<>> /\ Top.waiting
            /\ Return("failed") \/ Return("ok") \/ stack' = WithTop(f)
        BY <2>14 DEF EndWait
      <3>0. Top \in Frames /\ Top.nr + 1 \in Nat
        BY <3>1, StackType DEF Frames
      <3>2. f \in Frames
        BY <3>0 DEF Frames
      <3>3. Top.waited
        BY <3>1, StackType DEF WaitingWaited
      <3>4. CASE Return("ok")
        BY <3>3, <3>4, <2>2 DEF Return
      <3> HIDE DEF f
      <3> QED
        BY <3>1, <3>2, <3>4, <2>4, <2>5
    <2>15. CASE UNCHANGED vars
      BY <2>1, <2>15 DEF vars
    <2> QED
      BY <2>6, <2>7, <2>8, <2>9, <2>10, <2>11, <2>12, <2>13, <2>14, <2>15 DEF Next, Finished
  <1> QED
    BY <1>1, <1>2

(***************************************************************************)
(* When no send waits, bytes are unread only after some send failed: every *)
(* successful one fetches what its mute held back, also what arrived while *)
(* a nested send had unmuted and muted the port again.                     *)
(***************************************************************************)
THEOREM ReceivedIsRead == SafeSpec => []ReadAfterSuccess
  <1> DEFINE NotEarly == \A r \in Requests : r \notin submitted => outcome[r] = "none"
             Inv == /\ TypeInv /\ RequestsOnce /\ NotEarly
                    /\ BlockedOnlyInSend /\ WaitingWaited /\ ReadAfterSuccess
  <1>1. Init => Inv
    BY EmptySeq, TypeInit DEF Init, RequestsOnce, InboxUnanswered, StackUnanswered, InboxOnce,
       StackOnce, InboxNotStack, BlockedOnlyInSend, WaitingWaited, ReadAfterSuccess
  <1>2. Inv /\ [Next]_vars => Inv'
    <2> SUFFICES ASSUME Inv, [Next]_vars PROVE Inv'
      OBVIOUS
    <2>1. TypeInv' /\ TypeOK
      BY TypeStep DEF TypeInv
    <2>2. RequestsOnce' /\ NotEarly' /\ ServiceStep
      BY OnceStep
    <2>3. BlockedOnlyInSend' /\ WaitingWaited'
      BY <2>1, BlockedStep, WaitedStep
    <2>4. ReadAfterSuccess'
      BY <2>1, <2>2, ReadStep
    <2> QED
      BY <2>1, <2>2, <2>3, <2>4
  <1> HIDE DEF NotEarly
  <1>3. Inv => ReadAfterSuccess
    OBVIOUS
  <1> HIDE DEF Inv
  <1> QED
    BY <1>1, <1>2, <1>3, PTL DEF SafeSpec
-----------------------------------------------------------------------------
(***************************************************************************)
(* The order of the messages.                                              *)
(***************************************************************************)

\* What was handed to an interface and not dropped, in order.
Sent == line \o pending

\* Of the chunks s and the sends t: two messages do not alternate; nothing of
\* a waiting send lies between two chunks of another message; and a send has
\* sent nothing since the one above it began.
NeverAlternate(s) ==
    \A k, l, m, n \in 1..Len(s) :
        k < l /\ l < m /\ m < n /\ s[k].req = s[m].req /\ s[l].req = s[n].req
            => s[k].req = s[l].req
NotEnclosed(s, t) ==
    \A k, l, m \in 1..Len(s), i \in 1..Len(t) :
        k < l /\ l < m /\ s[k].req = s[m].req /\ s[l].req = t[i].req => s[k].req = s[l].req
InnerLater(s, t) ==
    \A k, l \in 1..Len(s), i, j \in 1..Len(t) :
        i < j /\ k < l => ~(s[k].req = t[j].req /\ s[l].req = t[i].req)

Shape(s, t) == NeverAlternate(s) /\ NotEnclosed(s, t) /\ InnerLater(s, t)

\* It holds for a part of the chunks, and without the innermost sends.
LEMMA ShapeLess ==
    ASSUME NEW s, NEW t, NEW u, NEW v, Shape(s, t),
           Len(s) \in Nat, Len(u) \in Nat, Len(u) <= Len(s), \A k \in 1..Len(u) : u[k] = s[k],
           Len(t) \in Nat, Len(v) \in Nat, Len(v) <= Len(t),
           \A i \in 1..Len(v) : v[i].req = t[i].req
    PROVE  Shape(u, v)
  <1>1. /\ \A k \in 1..Len(u) : k \in 1..Len(s) /\ u[k] = s[k]
        /\ \A i \in 1..Len(v) : i \in 1..Len(t) /\ v[i].req = t[i].req
    OBVIOUS
  <1>2. NeverAlternate(u)
    BY <1>1 DEF Shape, NeverAlternate
  <1>3. NotEnclosed(u, v)
    BY <1>1 DEF Shape, NotEnclosed
  <1>4. InnerLater(u, v)
    BY <1>1 DEF Shape, InnerLater
  <1> QED
    BY <1>2, <1>3, <1>4 DEF Shape

\* A send that has sent nothing starts on top.
LEMMA ShapePush ==
    ASSUME NEW s, NEW t, NEW v, Shape(s, t), Len(t) \in Nat, Len(v) = Len(t) + 1,
           \A i \in 1..Len(t) : v[i] = t[i],
           \A k \in 1..Len(s) : s[k].req # v[Len(v)].req
    PROVE  Shape(s, v)
  <1>1. \A i \in 1..Len(v) : (i \in 1..Len(t) /\ v[i] = t[i]) \/ i = Len(v)
    OBVIOUS
  <1>2. NotEnclosed(s, v)
    BY <1>1 DEF Shape, NotEnclosed
  <1>3. InnerLater(s, v)
    <2> SUFFICES ASSUME NEW k \in 1..Len(s), NEW l \in 1..Len(s),
                        NEW i \in 1..Len(v), NEW j \in 1..Len(v), i < j, k < l,
                        s[k].req = v[j].req, s[l].req = v[i].req
                 PROVE  FALSE
      BY DEF InnerLater
    <2>1. i # Len(v) /\ j # Len(v)
      OBVIOUS
    <2> QED
      BY <1>1, <2>1 DEF Shape, InnerLater
  <1> QED
    BY <1>2, <1>3 DEF Shape

\* The innermost send sends one more chunk.
LEMMA ShapeTop ==
    ASSUME NEW s, NEW t, NEW u, Shape(s, t), Len(s) \in Nat, Len(t) \in Nat \ {0},
           Len(u) = Len(s) + 1, \A k \in 1..Len(s) : u[k] = s[k],
           u[Len(u)].req = t[Len(t)].req,
           \A i, j \in 1..Len(t) : i # j => t[i].req # t[j].req
    PROVE  Shape(u, t)
  <1> DEFINE top == Len(t)
             new == Len(u)
  <1>0. top \in 1..Len(t) /\ \A i \in 1..Len(t) : i = top \/ i < top
    OBVIOUS
  <1>1. \A k \in 1..Len(u) : (k \in 1..Len(s) /\ u[k] = s[k]) \/ k = new
    OBVIOUS
  <1>2. \A k, l \in 1..Len(u) : k < l => k \in 1..Len(s) /\ u[k] = s[k]
    OBVIOUS
  <1>3. NeverAlternate(u)
    <2> SUFFICES ASSUME NEW k \in 1..Len(u), NEW l \in 1..Len(u), NEW m \in 1..Len(u),
                        NEW n \in 1..Len(u), k < l, l < m, m < n,
                        u[k].req = u[m].req, u[l].req = u[n].req
                 PROVE  u[k].req = u[l].req
      BY DEF NeverAlternate
    <2>1. /\ k \in 1..Len(s) /\ l \in 1..Len(s) /\ m \in 1..Len(s)
          /\ u[k] = s[k] /\ u[l] = s[l] /\ u[m] = s[m]
      BY <1>2
    <2>2. CASE n = new
      BY <1>0, <2>1, <2>2 DEF Shape, NotEnclosed
    <2>3. CASE n \in 1..Len(s) /\ u[n] = s[n]
      BY <2>1, <2>3 DEF Shape, NeverAlternate
    <2> QED
      BY <1>1, <2>2, <2>3
  <1>4. NotEnclosed(u, t)
    <2> SUFFICES ASSUME NEW k \in 1..Len(u), NEW l \in 1..Len(u), NEW m \in 1..Len(u),
                        NEW i \in 1..Len(t), k < l, l < m,
                        u[k].req = u[m].req, u[l].req = t[i].req
                 PROVE  u[k].req = u[l].req
      BY DEF NotEnclosed
    <2>1. k \in 1..Len(s) /\ l \in 1..Len(s) /\ u[k] = s[k] /\ u[l] = s[l]
      BY <1>2
    <2>2. CASE m = new
      <3>1. s[k].req = t[top].req /\ s[l].req = t[i].req
        BY <2>1, <2>2
      <3>2. i = top
        BY <1>0, <2>1, <3>1 DEF Shape, InnerLater
      <3> QED
        BY <2>1, <3>1, <3>2
    <2>3. CASE m \in 1..Len(s) /\ u[m] = s[m]
      BY <2>1, <2>3 DEF Shape, NotEnclosed
    <2> QED
      BY <1>1, <2>2, <2>3
  <1>5. InnerLater(u, t)
    <2> SUFFICES ASSUME NEW k \in 1..Len(u), NEW l \in 1..Len(u),
                        NEW i \in 1..Len(t), NEW j \in 1..Len(t), i < j, k < l,
                        u[k].req = t[j].req, u[l].req = t[i].req
                 PROVE  FALSE
      BY DEF InnerLater
    <2>1. k \in 1..Len(s) /\ u[k] = s[k]
      BY <1>2
    <2>2. CASE l = new
      <3>1. i # top
        OBVIOUS
      <3> QED
        BY <1>0, <2>2, <3>1
    <2>3. CASE l \in 1..Len(s) /\ u[l] = s[l]
      BY <2>1, <2>3 DEF Shape, InnerLater
    <2> QED
      BY <1>1, <2>2, <2>3
  <1> QED
    BY <1>3, <1>4, <1>5 DEF Shape

\* A message of its own is sent at once.
LEMMA ShapeWhole ==
    ASSUME NEW s, NEW t, NEW u, NEW r, Shape(s, t), Len(s) \in Nat, Len(u) \in Nat,
           Len(s) <= Len(u), \A k \in 1..Len(s) : u[k] = s[k],
           \A k \in 1..Len(u) : k > Len(s) => u[k].req = r,
           \A k \in 1..Len(s) : s[k].req # r, \A i \in 1..Len(t) : t[i].req # r
    PROVE  Shape(u, t)
  <1>1. \A k \in 1..Len(u) : \/ k \in 1..Len(s) /\ u[k] = s[k] /\ u[k].req # r
                             \/ k > Len(s) /\ u[k].req = r
    OBVIOUS
  <1>3. NeverAlternate(u)
    <2> SUFFICES ASSUME NEW k \in 1..Len(u), NEW l \in 1..Len(u), NEW m \in 1..Len(u),
                        NEW n \in 1..Len(u), k < l, l < m, m < n,
                        u[k].req = u[m].req, u[l].req = u[n].req
                 PROVE  u[k].req = u[l].req
      BY DEF NeverAlternate
    <2>1. CASE u[n].req = r
      <3>1. l > Len(s) /\ m > Len(s)
        BY <1>1, <2>1
      <3> QED
        BY <1>1, <2>1, <3>1
    <2>2. CASE u[n].req # r
      <3>1. /\ n \in 1..Len(s) /\ u[n] = s[n]
            /\ k \in 1..Len(s) /\ l \in 1..Len(s) /\ m \in 1..Len(s)
        BY <1>1, <2>2
      <3> QED
        BY <3>1 DEF Shape, NeverAlternate
    <2> QED
      BY <2>1, <2>2
  <1>4. NotEnclosed(u, t)
    <2> SUFFICES ASSUME NEW k \in 1..Len(u), NEW l \in 1..Len(u), NEW m \in 1..Len(u),
                        NEW i \in 1..Len(t), k < l, l < m,
                        u[k].req = u[m].req, u[l].req = t[i].req
                 PROVE  u[k].req = u[l].req
      BY DEF NotEnclosed
    <2>1. l \in 1..Len(s) /\ k \in 1..Len(s) /\ u[l] = s[l] /\ u[k] = s[k]
      BY <1>1
    <2>2. m \in 1..Len(s) /\ u[m] = s[m]
      BY <1>1, <2>1
    <2> QED
      BY <2>1, <2>2 DEF Shape, NotEnclosed
  <1>5. InnerLater(u, t)
    <2> SUFFICES ASSUME NEW k \in 1..Len(u), NEW l \in 1..Len(u),
                        NEW i \in 1..Len(t), NEW j \in 1..Len(t), i < j, k < l,
                        u[k].req = t[j].req, u[l].req = t[i].req
                 PROVE  FALSE
      BY DEF InnerLater
    <2>1. l \in 1..Len(s) /\ k \in 1..Len(s) /\ u[l] = s[l] /\ u[k] = s[k]
      BY <1>1
    <2> QED
      BY <2>1 DEF Shape, InnerLater
  <1> QED
    BY <1>3, <1>4, <1>5 DEF Shape

\* The chunks of a sequence after another.
LEMMA Joined ==
    ASSUME NEW s \in Seq(AllChunks), NEW u \in Seq(AllChunks)
    PROVE  /\ s \o u \in Seq(AllChunks)
           /\ Len(s) \in Nat /\ Len(u) \in Nat /\ Len(s \o u) = Len(s) + Len(u)
           /\ \A k \in 1..(Len(s) + Len(u)) :
                 (s \o u)[k] = IF k <= Len(s) THEN s[k] ELSE u[k - Len(s)]
  BY ConcatProperties, LenProperties

\* What was sent belongs to a request that is answered or on the stack, and
\* only an open port has a write buffer.
Begun(r) == outcome[r] # "none" \/ \E i \in 1..Len(stack) : stack[i].req = r
SentIsBegun == \A k \in 1..Len(Sent) : Begun(Sent[k].req)
BufferIsOpen == pending # <<>> => "serial" \in open

OrderInv == Shape(Sent, stack) /\ SentIsBegun /\ BufferIsOpen

\* A step that sends nothing, and ends sends only with an answer.
LEMMA OrderKept ==
    ASSUME TypeOK, OrderInv, TypeOK', BufferIsOpen',
           Len(Sent') <= Len(Sent), \A k \in 1..Len(Sent') : Sent'[k] = Sent[k],
           Len(stack') <= Len(stack), \A i \in 1..Len(stack') : stack'[i].req = stack[i].req,
           \A r \in Requests : Begun(r) => Begun(r)'
    PROVE  OrderInv'
  <1>1. /\ line \in Seq(AllChunks) /\ pending \in Seq(AllChunks)
        /\ line' \in Seq(AllChunks) /\ pending' \in Seq(AllChunks)
        /\ stack \in Seq(Frames) /\ stack' \in Seq(Frames)
    BY DEF TypeOK, QueuesOK, HistoryOK
  <1>2. Len(Sent) \in Nat /\ Len(Sent') \in Nat /\ Len(stack) \in Nat /\ Len(stack') \in Nat
    BY <1>1, Joined, LenProperties DEF Sent
  <1>3. Shape(Sent', stack')
    BY <1>2, ShapeLess DEF OrderInv
  <1>4. \A k \in 1..Len(Sent') : k \in 1..Len(Sent) /\ Sent'[k] = Sent[k]
    BY <1>2
  <1>5. \A k \in 1..Len(Sent) : Sent[k].req \in Requests
    <2>1. Sent \in Seq(AllChunks)
      BY <1>1, Joined DEF Sent
    <2>2. \A c \in AllChunks : c.req \in Requests
      BY DEF AllChunks, Chunk
    <2> QED
      BY <2>1, <2>2, ElementOfSeq
  <1>6. SentIsBegun'
    BY <1>4, <1>5 DEF OrderInv, SentIsBegun
  <1> QED
    BY <1>3, <1>6 DEF OrderInv, Shape, NeverAlternate, NotEnclosed, InnerLater

\* An answer is not taken back.
LEMMA AnsweredStays ==
    ASSUME TypeOK, ServiceStep
    PROVE  \A r \in Requests : outcome[r] # "none" => outcome'[r] # "none"
  <1>1. outcome \in [Requests -> {"none", "ok", "failed"}]
    BY DEF TypeOK, HistoryOK
  <1>2. ASSUME NEW q \in Requests, Service!Answer(q)
        PROVE  \A r \in Requests : outcome[r] # "none" => outcome'[r] # "none"
    BY <1>1, <1>2 DEF Service!Answer
  <1> QED
    BY <1>2 DEF ServiceStep, Service!Next, Service!Submit, Service!vars

\* The write buffer is discarded when the port is closed.
LEMMA ConnectSlotCloses ==
    ASSUME NEW t, NEW on, ConnectSlot(t, on)
    PROVE  pending' = <<>>
  BY DEF ConnectSlot, CloseSerial

LEMMA OrderInit == Init => OrderInv
  <1> SUFFICES ASSUME Init PROVE OrderInv
    OBVIOUS
  <1>1. Sent = <<>> /\ Len(Sent) = 0
    BY EmptySeq, ConcatEmptySeq DEF Init, Sent
  <1> QED
    BY <1>1 DEF Init, OrderInv, Shape, NeverAlternate, NotEnclosed, InnerLater, SentIsBegun,
                BufferIsOpen

LEMMA OrderStep ==
    ASSUME TypeInv, TypeOK', RequestsOnce, OnlyConfiguredOpen, ServiceStep, OrderInv, [Next]_vars
    PROVE  OrderInv'
  <1>0. /\ TypeOK /\ line \in Seq(AllChunks) /\ pending \in Seq(AllChunks)
        /\ line' \in Seq(AllChunks) /\ pending' \in Seq(AllChunks) /\ stack' \in Seq(Frames)
        /\ stack \in Seq(Frames) /\ Len(stack) \in Nat /\ FramesInRange
        /\ outcome \in [Requests -> {"none", "ok", "failed"}]
    BY LenProperties DEF TypeInv, TypeOK, QueuesOK, HistoryOK
  <1>a. /\ \A r \in Requests : outcome[r] # "none" => outcome'[r] # "none"
        /\ BufferIsOpen /\ SentIsBegun /\ Shape(Sent, stack)
    BY <1>0, AnsweredStays DEF OrderInv
  <1>s. /\ Sent \in Seq(AllChunks) /\ Sent' \in Seq(AllChunks)
        /\ Len(Sent) \in Nat /\ Len(Sent') \in Nat
        /\ Len(Sent) = Len(line) + Len(pending) /\ Len(line) \in Nat /\ Len(pending) \in Nat
        /\ \A k \in 1..Len(Sent) :
              Sent[k] = IF k <= Len(line) THEN line[k] ELSE pending[k - Len(line)]
        /\ Len(Sent') = Len(line') + Len(pending') /\ Len(line') \in Nat /\ Len(pending') \in Nat
        /\ \A k \in 1..Len(Sent') :
              Sent'[k] = IF k <= Len(line') THEN line'[k] ELSE pending'[k - Len(line')]
    BY <1>0, Joined, LenProperties DEF Sent
  <1>b. ASSUME UNCHANGED stack PROVE \A r \in Requests : Begun(r) => Begun(r)'
    BY <1>a, <1>b DEF Begun
  <1>1. ASSUME UNCHANGED <<stack, line, pending>>, BufferIsOpen' PROVE OrderInv'
    <2>1. Sent' = Sent
      BY <1>1 DEF Sent
    <2> QED
      BY <1>0, <1>1, <1>s, <2>1, <1>b, OrderKept
  <1>2. ASSUME pending' = <<>>, UNCHANGED <<stack, line>> PROVE OrderInv'
    <2>1. Len(pending') = 0
      BY <1>2, EmptySeq
    <2>2. Len(Sent') <= Len(Sent) /\ \A k \in 1..Len(Sent') : Sent'[k] = Sent[k]
      BY <1>2, <1>s, <2>1
    <2>3. BufferIsOpen'
      BY <1>2 DEF BufferIsOpen
    <2> QED
      BY <1>0, <1>2, <2>2, <2>3, <1>b, OrderKept
  <1>h. ASSUME NEW r \in Requests, SendAtHead(r)
        PROVE  /\ outcome[r] = "none" /\ \A i \in 1..Len(stack) : stack[i].req # r
               /\ \A k \in 1..Len(Sent) : Sent[k].req # r
    <2>1. inbox # <<>> /\ inbox' = Tail(inbox) /\ Head(inbox) = SendOrder(r)
      BY <1>h DEF SendAtHead
    <2>2. 1 \in 1..Len(inbox) /\ inbox[1].kind = "send" /\ inbox[1].req = r
      BY <1>0, <2>1, InboxTail DEF SendOrder
    <2>3. outcome[r] = "none" /\ \A i \in 1..Len(stack) : stack[i].req # r
      BY <2>2 DEF RequestsOnce, InboxUnanswered, InboxNotStack, Unanswered
    <2> QED
      BY <2>3, <1>a DEF SentIsBegun, Begun
  <1>3. ASSUME NEW r \in Requests, RejectSend(r) PROVE OrderInv'
    BY <1>1, <1>3, <1>a DEF RejectSend, serialPort, handles, BufferIsOpen
  <1>4. ASSUME NEW r \in Requests, StartSerialSend(r) PROVE OrderInv'
    <2>1. /\ SendAtHead(r) /\ stack' = Append(stack, NewFrame(r))
          /\ UNCHANGED <<line, pending, open, outcome>>
      BY <1>4 DEF StartSerialSend, serialPort, handles
    <2>2. NewFrame(r) \in Frames /\ NewFrame(r).req = r
      BY DEF NewFrame, Frames
    <2>3. /\ Len(stack') = Len(stack) + 1 /\ stack'[Len(stack) + 1] = NewFrame(r)
          /\ \A i \in 1..Len(stack) : stack'[i] = stack[i]
      BY <1>0, <2>1, <2>2, AppendProperties
    <2>4. Sent' = Sent
      BY <2>1 DEF Sent
    <2>5. Shape(Sent', stack')
      <3>1. stack'[Len(stack')].req = r
        BY <2>2, <2>3
      <3>2. \A k \in 1..Len(Sent) : Sent[k].req # stack'[Len(stack')].req
        BY <1>h, <2>1, <3>1
      <3>3. Shape(Sent, stack')
        BY <1>0, <1>a, <2>3, <3>2, ShapePush
      <3> QED
        BY <2>4, <3>3
    <2>6. SentIsBegun'
      BY <1>0, <1>a, <2>1, <2>3, <2>4 DEF SentIsBegun, Begun
    <2>7. BufferIsOpen'
      BY <1>a, <2>1 DEF BufferIsOpen
    <2> QED
      BY <2>5, <2>6, <2>7 DEF OrderInv
  <1>5. ASSUME NEW r \in Requests, DirectSend(r) PROVE OrderInv'
    <2>1. UNCHANGED stack /\ SendAtHead(r) /\ ctype # "serial"
      BY <1>5 DEF DirectSend
    <2>2. pending = <<>>
      BY <1>a, <2>1 DEF BufferIsOpen, OnlyConfiguredOpen
    <2>3. CASE outcome' = [outcome EXCEPT ![r] = "ok"] /\ Written(r)
               /\ UNCHANGED <<pending, open>>
      <3>1. line' = line \o ChunksOf(r) /\ ChunksOf(r) \in Seq(AllChunks)
        BY <2>3, ChunksOfType DEF Written
      <3>2. \A i \in 1..Len(ChunksOf(r)) : ChunksOf(r)[i].req = r
        <4>1. Len(ChunksOf(r)) = Chunks[r]
          BY MainAssumption DEF ChunksOf
        <4> QED
          BY <4>1 DEF ChunksOf, Chunk
      <3>3. Len(pending) = 0 /\ Len(pending') = 0
        BY <2>2, <2>3, EmptySeq
      <3>4. /\ Len(Sent) <= Len(Sent') /\ \A k \in 1..Len(Sent) : Sent'[k] = Sent[k]
            /\ \A k \in 1..Len(Sent') : k > Len(Sent) => Sent'[k].req = r
        <4>1. /\ Len(line') = Len(line) + Len(ChunksOf(r)) /\ Len(ChunksOf(r)) \in Nat
              /\ \A k \in 1..Len(line') :
                    line'[k] = IF k <= Len(line) THEN line[k] ELSE ChunksOf(r)[k - Len(line)]
          BY <1>0, <3>1, Joined
        <4>2. /\ Len(Sent) = Len(line) /\ Len(Sent') = Len(line')
              /\ \A k \in 1..Len(Sent) : Sent[k] = line[k]
              /\ \A k \in 1..Len(Sent') : Sent'[k] = line'[k]
          BY <1>s, <3>3
        <4>3. Len(line) \in Nat
          BY <1>s
        <4>4. Len(Sent) <= Len(Sent')
          BY <4>1, <4>2, <4>3
        <4>5. ASSUME NEW k \in 1..Len(Sent) PROVE Sent'[k] = Sent[k]
          <5>1. k \in 1..Len(line') /\ k <= Len(line) /\ k \in 1..Len(Sent')
            BY <4>1, <4>2, <4>3
          <5> QED
            BY <4>1, <4>2, <5>1
        <4>6. ASSUME NEW k \in 1..Len(Sent'), k > Len(Sent) PROVE Sent'[k].req = r
          <5>1. k - Len(line) \in 1..Len(ChunksOf(r)) /\ ~(k <= Len(line)) /\ k \in 1..Len(line')
            BY <4>1, <4>2, <4>3, <4>6
          <5>2. Sent'[k] = ChunksOf(r)[k - Len(line)]
            BY <4>1, <4>2, <5>1
          <5> QED
            BY <3>2, <5>1, <5>2
        <4> QED
          BY <4>4, <4>5, <4>6
      <3>5. Shape(Sent', stack)
        BY <1>s, <1>a, <1>h, <2>1, <3>4, ShapeWhole
      <3>6. SentIsBegun'
        <4>1. outcome'[r] = "ok"
          BY <1>0, <2>3
        <4>2. \A k \in 1..Len(Sent) : Sent[k].req \in Requests
          <5>1. \A c \in AllChunks : c.req \in Requests
            BY DEF AllChunks, Chunk
          <5> QED
            BY <1>s, <5>1, ElementOfSeq
        <4>3. \A k \in 1..Len(Sent') : k \in 1..Len(Sent) \/ k > Len(Sent)
          BY <1>s
        <4> QED
          BY <1>a, <1>b, <2>1, <3>4, <4>1, <4>2, <4>3 DEF SentIsBegun, Begun
      <3>7. BufferIsOpen'
        BY <2>2, <2>3 DEF BufferIsOpen
      <3> QED
        BY <2>1, <3>5, <3>6, <3>7 DEF OrderInv
    <2>4. CASE UNCHANGED line
      <3>1. pending' = <<>>
        BY <1>5, <2>2, ConnectSlotCloses DEF DirectSend
      <3> QED
        BY <1>2, <2>1, <2>4, <3>1
    <2> QED
      BY <1>5, <2>3, <2>4 DEF DirectSend, Answer, handles
  <1>6. ASSUME NEW r \in Requests, PostSend(r) PROVE OrderInv'
    BY <1>1, <1>6, <1>a DEF PostSend, serialPort, handles, BufferIsOpen
  <1>7. ASSUME NEW t \in Types, NEW on \in BOOLEAN, PostConnect(t, on) PROVE OrderInv'
    BY <1>1, <1>7, <1>a DEF PostConnect, serialPort, handles, BufferIsOpen
  <1>8. CASE PostExit \/ SerialReceives \/ ClientConnected
    BY <1>1, <1>8, <1>a
    DEF PostExit, SerialReceives, ClientConnected, serialPort, handles, BufferIsOpen
  <1>9. CASE HandleConnect \/ HandleExit \/ ClientError
    BY <1>2, <1>9 DEF HandleConnect, ConnectSlot, HandleExit, ClientError, CloseSerial
  <1>10. ASSUME NEW p \in Peers, PeerConnects(p) PROVE OrderInv'
    BY <1>1, <1>10, <1>a DEF PeerConnects, serialPort, BufferIsOpen
  <1>11. ASSUME NEW i \in 1..Len(peers), PeerDisconnects(i) PROVE OrderInv'
    <2>1. CASE ConnectSlot(ctype, TRUE)
      BY <1>2, <1>11, <2>1, ConnectSlotCloses DEF PeerDisconnects
    <2>2. CASE UNCHANGED <<pending, open>>
      BY <1>1, <1>11, <2>2, <1>a DEF PeerDisconnects, BufferIsOpen
    <2> QED
      BY <1>11, <2>1, <2>2 DEF PeerDisconnects
  <1>12. CASE SerialDrains
    <2>1. /\ pending # <<>> /\ line' = Append(line, Head(pending)) /\ pending' = Tail(pending)
          /\ UNCHANGED <<stack, open>>
      BY <1>12 DEF SerialDrains, handles
    <2>2. /\ Head(pending) \in AllChunks /\ Head(pending) = pending[1] /\ Len(pending) # 0
          /\ Len(pending') = Len(pending) - 1
          /\ \A k \in 1..Len(pending') : pending'[k] = pending[k + 1]
      BY <1>0, <1>s, <2>1, HeadTailProperties, EmptySeq
    <2>3. /\ Len(line') = Len(line) + 1 /\ line'[Len(line) + 1] = pending[1]
          /\ \A k \in 1..Len(line) : line'[k] = line[k]
      BY <1>0, <2>1, <2>2, AppendProperties
    <2>4. Len(Sent') = Len(Sent)
      BY <1>s, <2>2, <2>3
    <2>5. ASSUME NEW k \in 1..Len(Sent') PROVE Sent'[k] = Sent[k]
      <3>1. CASE k <= Len(line)
        BY <1>s, <2>3, <2>4, <3>1
      <3>2. CASE k = Len(line) + 1
        BY <1>s, <2>2, <2>3, <2>4, <3>2
      <3>3. CASE k > Len(line) + 1
        <4>1. k - Len(line') \in 1..Len(pending') /\ k - Len(line') + 1 = k - Len(line)
          BY <1>s, <2>2, <2>3, <2>4, <3>3
        <4>2. Sent'[k] = pending'[k - Len(line')] /\ Sent[k] = pending[k - Len(line)]
          BY <1>s, <2>3, <2>4, <3>3
        <4> QED
          BY <2>2, <4>1, <4>2
      <3> QED
        BY <1>s, <3>1, <3>2, <3>3
    <2>6. BufferIsOpen'
      BY <1>a, <2>1 DEF BufferIsOpen
    <2> QED
      BY <1>0, <1>s, <2>1, <2>4, <2>5, <2>6, <1>b, OrderKept
  <1>r. ASSUME stack # <<>>, NEW o \in {"ok", "failed"}, Return(o), UNCHANGED <<line, pending, open>>
        PROVE  OrderInv'
    <2>1. outcome' = [outcome EXCEPT ![Top.req] = o] /\ stack' = Below
      BY <1>r DEF Return, Answer
    <2>2. /\ Top \in Frames /\ Top = stack[Len(stack)] /\ Len(stack) \in 1..Len(stack)
          /\ Len(stack') = Len(stack) - 1 /\ \A i \in 1..Len(stack') : stack'[i] = stack[i]
      BY <1>0, <1>r, <2>1, StackType
    <2>3. outcome'[Top.req] # "none"
      BY <1>0, <2>1, <2>2 DEF Frames
    <2>4. \A r \in Requests : Begun(r) => Begun(r)'
      <3>1. \A i \in 1..Len(stack) : i \in 1..Len(stack') \/ stack[i] = Top
        BY <1>0, <2>2
      <3> QED
        BY <1>a, <2>2, <2>3, <3>1 DEF Begun
    <2>5. Sent' = Sent /\ BufferIsOpen'
      BY <1>r, <1>a DEF Sent, BufferIsOpen
    <2> QED
      BY <1>0, <1>s, <2>2, <2>4, <2>5, OrderKept
  <1>13. CASE WriteChunk
    <2>1. stack # <<>> /\ UNCHANGED <<line, open>>
      BY <1>13 DEF WriteChunk, handles
    <2>2. /\ Top \in Frames /\ Top = stack[Len(stack)] /\ Len(stack) \in 1..Len(stack)
          /\ Top.nr \in 1..Chunks[Top.req]
      BY <1>0, <2>1, StackType DEF FramesInRange
    <2>3. ASSUME pending' = Append(pending, Chunk(Top.req, Top.nr)), "serial" \in open,
                 stack' = WithTop([Top EXCEPT !.waiting = TRUE, !.waited = TRUE])
          PROVE  OrderInv'
      <3> DEFINE f == [Top EXCEPT !.waiting = TRUE, !.waited = TRUE]
                 c == Chunk(Top.req, Top.nr)
      <3>1. f \in Frames /\ f.req = Top.req
        BY <2>2 DEF Frames
      <3>2. stack' = WithTop(f) /\ pending' = Append(pending, c)
        BY <2>3
      <3> HIDE DEF f
      <3>3. /\ Len(stack') = Len(stack)
            /\ \A i \in 1..Len(stack) : stack'[i] = IF i = Len(stack) THEN f ELSE stack[i]
        BY <1>0, <2>1, <3>1, <3>2, WithTopType
      <3>4. \A i \in 1..Len(stack) : stack'[i].req = stack[i].req
        BY <2>2, <3>1, <3>3
      <3>5. c \in AllChunks /\ c.req = Top.req
        BY <2>2, ChunkType DEF Frames, Chunk
      <3> HIDE DEF c
      <3>6. /\ Len(pending') = Len(pending) + 1 /\ pending'[Len(pending) + 1] = c
            /\ \A k \in 1..Len(pending) : pending'[k] = pending[k]
        BY <1>0, <3>2, <3>5, AppendProperties
      <3>7. /\ Len(Sent') = Len(Sent) + 1 /\ Sent'[Len(Sent')] = c
            /\ \A k \in 1..Len(Sent) : Sent'[k] = Sent[k]
        <4> DEFINE p == Len(pending)
                   n == Len(line)
        <4>1. /\ p \in Nat /\ n \in Nat /\ Len(Sent) = n + p /\ Len(line') = n
              /\ Len(pending') = p + 1 /\ line' = line
          BY <1>s, <2>1, <3>6
        <4>2. Len(Sent') = n + (p + 1)
          BY <1>s, <4>1
        <4>3. Sent'[n + (p + 1)] = c
          <5>1. n + (p + 1) \in 1..Len(Sent') /\ ~(n + (p + 1) <= n) /\ n + (p + 1) - n = p + 1
            BY <4>1, <4>2
          <5>2. Sent'[n + (p + 1)] = pending'[n + (p + 1) - n]
            BY <1>s, <4>1, <5>1
          <5> QED
            BY <3>6, <5>1, <5>2
        <4>4. ASSUME NEW k \in 1..Len(Sent) PROVE Sent'[k] = Sent[k]
          <5>1. k \in 1..Len(Sent')
            BY <4>1, <4>2
          <5>2. CASE k <= n
            BY <1>s, <4>1, <5>1, <5>2
          <5>3. CASE ~(k <= n)
            <6>1. k - n \in 1..p
              BY <4>1, <5>3
            <6>2. Sent[k] = pending[k - n] /\ Sent'[k] = pending'[k - n]
              BY <1>s, <4>1, <5>1, <5>3
            <6> QED
              BY <3>6, <6>1, <6>2
          <5> QED
            BY <5>2, <5>3
        <4> QED
          BY <4>1, <4>2, <4>3, <4>4
      <3>8. Shape(Sent', stack)
        <4>1. Sent'[Len(Sent')].req = stack[Len(stack)].req /\ Len(stack) \in Nat \ {0}
          BY <2>2, <3>5, <3>7, <1>0
        <4>2. \A i, j \in 1..Len(stack) : i # j => stack[i].req # stack[j].req
          BY DEF RequestsOnce, StackOnce
        <4> QED
          BY <1>s, <1>a, <3>7, <4>1, <4>2, ShapeTop
      <3>9. Shape(Sent', stack')
        <4>1. Len(stack') \in Nat /\ Len(stack') <= Len(stack)
          BY <1>0, <3>3
        <4>2. /\ Len(Sent') \in Nat /\ Len(Sent') <= Len(Sent')
              /\ \A k \in 1..Len(Sent') : Sent'[k] = Sent'[k]
          BY <1>s
        <4>3. \A i \in 1..Len(stack') : stack'[i].req = stack[i].req
          BY <3>3, <3>4
        <4> HIDE DEF Shape
        <4> QED
          BY <1>0, <3>8, <4>1, <4>2, <4>3, ShapeLess
      <3>10. SentIsBegun'
        <4>1. \A k \in 1..Len(Sent) : Sent[k].req \in Requests
          <5>1. \A d \in AllChunks : d.req \in Requests
            BY DEF AllChunks, Chunk
          <5> QED
            BY <1>s, <5>1, ElementOfSeq
        <4>2. \A q \in Requests : Begun(q) => Begun(q)'
          BY <1>a, <3>3, <3>4 DEF Begun
        <4>3. stack'[Len(stack)].req = Top.req /\ Len(stack) \in 1..Len(stack')
          BY <2>2, <3>3, <3>4
        <4>4. \A k \in 1..Len(Sent') : k \in 1..Len(Sent) \/ k = Len(Sent')
          <5>1. Len(Sent) \in Nat /\ Len(Sent') = Len(Sent) + 1
            BY <1>s, <3>7
          <5> QED
            BY <5>1
        <4>5. ASSUME NEW k \in 1..Len(Sent'), k = Len(Sent') PROVE Begun(Sent[k].req)'
          <5>1. Sent'[k].req = Top.req
            BY <3>5, <3>7, <4>5
          <5> QED
            BY <4>3, <5>1 DEF Begun
        <4>6. ASSUME NEW k \in 1..Len(Sent) PROVE Begun(Sent[k].req)'
          <5>1. Begun(Sent[k].req) /\ Sent[k].req \in Requests /\ Sent'[k] = Sent[k]
            BY <1>a, <3>7, <4>1 DEF SentIsBegun
          <5>2. Begun(Sent[k].req)' <=> \/ outcome'[Sent'[k].req] # "none"
                                        \/ \E i \in 1..Len(stack') : stack'[i].req = Sent'[k].req
            BY DEF Begun
          <5>3. \A q \in Requests :
                   Begun(q) => \/ outcome'[q] # "none"
                               \/ \E i \in 1..Len(stack') : stack'[i].req = q
            BY <4>2 DEF Begun
          <5> QED
            BY <5>1, <5>2, <5>3
        <4> QED
          BY <4>4, <4>5, <4>6 DEF SentIsBegun
      <3>11. BufferIsOpen'
        BY <2>1, <2>3 DEF BufferIsOpen
      <3> QED
        BY <3>9, <3>10, <3>11 DEF OrderInv
    <2>4. ASSUME Return("failed"), UNCHANGED pending PROVE OrderInv'
      BY <2>1, <2>4, <1>r
    <2> QED
      BY <1>13, <2>3, <2>4 DEF WriteChunk
  <1>14. CASE EndWait
    <2>1. stack # <<>> /\ UNCHANGED <<line, pending, open>>
      BY <1>14 DEF EndWait, handles
    <2>2. /\ Top \in Frames /\ Top = stack[Len(stack)] /\ Len(stack) \in 1..Len(stack)
      BY <1>0, <2>1, StackType
    <2>3. ASSUME NEW o \in {"ok", "failed"}, Return(o) PROVE OrderInv'
      BY <2>1, <2>3, <1>r
    <2>4. ASSUME stack' = WithTop([Top EXCEPT !.nr = @ + 1, !.waiting = FALSE]),
                 UNCHANGED outcome
          PROVE  OrderInv'
      <3> DEFINE f == [Top EXCEPT !.nr = @ + 1, !.waiting = FALSE]
      <3>1. f.req = Top.req
        BY <2>2 DEF Frames
      <3>2. f \in Frames
        <4>1. Top.nr + 1 \in Nat
          BY <2>2 DEF Frames
        <4> QED
          BY <2>2, <4>1 DEF Frames
      <3>3. stack' = WithTop(f)
        BY <2>4
      <3> HIDE DEF f
      <3>4. /\ Len(stack') = Len(stack)
            /\ \A i \in 1..Len(stack) : stack'[i] = IF i = Len(stack) THEN f ELSE stack[i]
        BY <1>0, <2>1, <3>2, <3>3, WithTopType
      <3>5. \A i \in 1..Len(stack) : stack'[i].req = stack[i].req
        BY <2>2, <3>1, <3>4
      <3>6. \A q \in Requests : Begun(q) => Begun(q)'
        BY <1>a, <3>4, <3>5 DEF Begun
      <3>7. Sent' = Sent /\ BufferIsOpen'
        BY <2>1, <1>a DEF Sent, BufferIsOpen
      <3> QED
        BY <1>0, <1>s, <3>4, <3>5, <3>6, <3>7, OrderKept
    <2> QED
      BY <1>14, <2>3, <2>4 DEF EndWait
  <1>15. CASE UNCHANGED vars
    BY <1>1, <1>15, <1>a DEF vars, BufferIsOpen, handles
  <1> QED
    BY <1>3, <1>4, <1>5, <1>6, <1>7, <1>8, <1>9, <1>10, <1>11, <1>12, <1>13, <1>14, <1>15
       DEF Next, HandleSend, Finished

(***************************************************************************)
(* Two messages never alternate on the line, at any depth of nesting, with *)
(* timeouts, lost connections and changes of the interface between them.   *)
(***************************************************************************)
THEOREM MessagesNest == SafeSpec => []WellNested
  <1> DEFINE NotEarly == \A r \in Requests : r \notin submitted => outcome[r] = "none"
             Inv == /\ TypeInv /\ RequestsOnce /\ NotEarly /\ ConnectionInv /\ OrderInv
  <1>1. Init => Inv
    BY EmptySeq, TypeInit, ConnectionInit, OrderInit DEF Init, RequestsOnce, InboxUnanswered,
       StackUnanswered, InboxOnce, StackOnce, InboxNotStack
  <1>2. Inv /\ [Next]_vars => Inv'
    <2> SUFFICES ASSUME Inv, [Next]_vars PROVE Inv'
      OBVIOUS
    <2>1. TypeInv' /\ TypeOK /\ TypeOK'
      BY TypeStep DEF TypeInv
    <2>2. RequestsOnce' /\ NotEarly' /\ ServiceStep
      BY OnceStep
    <2>3. ConnectionInv'
      BY <2>1, ConnectionStep
    <2>4. OrderInv'
      BY <2>1, <2>2, OrderStep DEF ConnectionInv
    <2> QED
      BY <2>1, <2>2, <2>3, <2>4
  <1>3. Inv => WellNested
    <2> SUFFICES ASSUME TypeOK, NeverAlternate(Sent) PROVE WellNested
      BY DEF OrderInv, Shape, TypeInv
    <2>1. line \in Seq(AllChunks) /\ pending \in Seq(AllChunks)
      BY DEF TypeOK, QueuesOK, HistoryOK
    <2>2. /\ Len(line) \in Nat /\ \A k \in 1..Len(line) : k \in 1..Len(Sent) /\ Sent[k] = line[k]
      BY <2>1, Joined DEF Sent
    <2> SUFFICES ASSUME NEW i \in 1..Len(line), NEW j \in i..Len(line),
                        line[i].req # line[j].req,
                        NEW k \in j..Len(line), NEW l \in k..Len(line),
                        line[k].req = line[i].req, line[l].req = line[j].req
                 PROVE  FALSE
      BY DEF WellNested
    <2>3. /\ j \in 1..Len(line) /\ k \in 1..Len(line) /\ l \in 1..Len(line)
          /\ i <= j /\ j <= k /\ k <= l
      BY <2>2
    <2>4. i < j /\ j < k /\ k < l
      <3>1. i # j /\ j # k /\ k # l
        OBVIOUS
      <3> QED
        BY <2>2, <2>3, <3>1
    <2> QED
      BY <2>2, <2>3, <2>4 DEF NeverAlternate
  <1> HIDE DEF NotEarly, Inv
  <1> QED
    BY <1>1, <1>2, <1>3, PTL DEF SafeSpec
-----------------------------------------------------------------------------
(***************************************************************************)
(* No request is forgotten.                                                *)
(***************************************************************************)

\* The thread still has a request that waits for its answer: it is posted, or a
\* send of the stack works on it.
Requested == {stack[i].req : i \in 1..Len(stack)}
Held(r) == SendOrder(r) \in InSeq(inbox) \/ r \in Requested
AllHeld == \A r \in Requests : Unanswered(r) => Held(r)

\* What the actions do to the sends in progress
LEMMA RequestedPush ==
    ASSUME TypeOK, NEW r \in Requests, stack' = Append(stack, NewFrame(r))
    PROVE  Requested \cup {r} \subseteq Requested'
  <1>1. NewFrame(r) \in Frames /\ NewFrame(r).req = r
    BY DEF NewFrame, Frames
  <1>2. stack \in Seq(Frames) /\ Len(stack) \in Nat
    BY LenProperties DEF TypeOK, QueuesOK
  <1>3. /\ stack'[Len(stack) + 1].req = r /\ Len(stack') = Len(stack) + 1
        /\ \A i \in 1..Len(stack) : stack'[i] = stack[i]
    BY <1>1, <1>2, AppendProperties
  <1>4. ASSUME NEW i \in 1..Len(stack) PROVE stack[i].req \in Requested'
    BY <1>2, <1>3 DEF Requested
  <1>5. r \in Requested'
    BY <1>2, <1>3 DEF Requested
  <1> QED
    BY <1>4, <1>5 DEF Requested

LEMMA RequestedPop ==
    ASSUME TypeOK, stack # <<>>, stack' = Below
    PROVE  Requested \subseteq Requested' \cup {Top.req}
  <1>1. /\ Top = stack[Len(stack)] /\ Len(stack) \in Nat
        /\ Len(stack') = Len(stack) - 1 /\ \A i \in 1..Len(stack') : stack'[i] = stack[i]
    BY StackType, LenProperties DEF TypeOK, QueuesOK
  <1>2. ASSUME NEW i \in 1..Len(stack), i # Len(stack) PROVE stack[i].req \in Requested'
    <2>1. i \in 1..Len(stack')
      BY <1>1, <1>2
    <2> QED
      BY <1>1, <2>1 DEF Requested
  <1> QED
    BY <1>1, <1>2 DEF Requested

LEMMA RequestedTop ==
    ASSUME TypeOK, stack # <<>>, NEW f \in Frames, f.req = Top.req, stack' = WithTop(f)
    PROVE  Requested' = Requested
  <1>1. Top = stack[Len(stack)]
    BY StackType
  <1>2. /\ Len(stack') = Len(stack)
        /\ \A i \in 1..Len(stack) : stack'[i].req = stack[i].req
    BY <1>1, WithTopType
  <1> QED
    BY <1>2 DEF Requested

\* An order is posted, or taken.
LEMMA PostedMore ==
    ASSUME TypeOK, NEW order \in Orders, Post(order)
    PROVE  InSeq(inbox)' = InSeq(inbox) \cup {order}
  <1>1. inbox \in Seq(Orders) /\ inbox' = Append(inbox, order)
    BY DEF Post, TypeOK, QueuesOK
  <1> QED
    BY <1>1, InSeqAppend

LEMMA PostedLess ==
    ASSUME TypeOK, inbox # <<>>, inbox' = Tail(inbox)
    PROVE  InSeq(inbox) = {Head(inbox)} \cup InSeq(inbox)'
  <1>1. inbox \in Seq(Orders)
    BY DEF TypeOK, QueuesOK
  <1> QED
    BY <1>1, InSeqTail

LEMMA HeldStep == TypeOK /\ AllHeld /\ [Next]_vars => AllHeld'
  <1> SUFFICES ASSUME TypeOK, AllHeld, [Next]_vars PROVE AllHeld'
    OBVIOUS
  <1>0. outcome \in [Requests -> {"none", "ok", "failed"}] /\ submitted \subseteq Requests
    BY DEF TypeOK, HistoryOK
  <1>1. ASSUME InSeq(inbox) \subseteq InSeq(inbox)', Requested \subseteq Requested',
               UNCHANGED <<outcome, submitted>>
        PROVE  AllHeld'
    BY <1>1 DEF AllHeld, Held, Unanswered
  \* r is answered.
  <1>2. ASSUME NEW r \in Requests, NEW o \in {"ok", "failed"}, Answer(r, o), UNCHANGED submitted,
               InSeq(inbox) \subseteq InSeq(inbox)' \cup {SendOrder(r)},
               Requested \subseteq Requested' \cup {r}
        PROVE  AllHeld'
    <2> SUFFICES ASSUME NEW q \in Requests, Unanswered(q)' PROVE Held(q)'
      BY DEF AllHeld
    <2>1. q # r /\ Unanswered(q)
      BY <1>0, <1>2 DEF Answer, Unanswered
    <2>2. SendOrder(q) # SendOrder(r)
      <3>1. SendOrder(q).req = q /\ SendOrder(r).req = r
        BY DEF SendOrder
      <3> QED
        BY <2>1, <3>1
    <2> QED
      BY <1>2, <2>1, <2>2 DEF AllHeld, Held
  <1>3. ASSUME NEW r \in Requests, PostSend(r) PROVE AllHeld'
    <2>1. SendOrder(r) \in Orders
      BY DEF Orders
    <2>2. /\ InSeq(inbox)' = InSeq(inbox) \cup {SendOrder(r)} /\ Requested' = Requested
          /\ submitted' = submitted \cup {r} /\ outcome' = outcome
      BY <1>3, <2>1, PostedMore DEF PostSend, Requested
    <2> QED
      BY <2>2 DEF AllHeld, Held, Unanswered
  <1>4. ASSUME NEW t \in Types, NEW on \in BOOLEAN, PostConnect(t, on) PROVE AllHeld'
    <2>1. ConnectOrder(t, on) \in Orders
      BY DEF Orders
    <2> QED
      BY <1>1, <1>4, <2>1, PostedMore DEF PostConnect, Requested
  <1>5. CASE PostExit
    <2>1. ExitOrder \in Orders
      BY DEF Orders
    <2> QED
      BY <1>1, <1>5, <2>1, PostedMore DEF PostExit, Requested, posted
  <1>6. CASE HandleConnect \/ HandleExit
    <2>1. /\ inbox # <<>> /\ inbox' = Tail(inbox) /\ Head(inbox).kind # "send"
          /\ UNCHANGED <<stack, outcome, submitted>>
      BY <1>6 DEF HandleConnect, HandleExit, posted
    <2>2. InSeq(inbox) = {Head(inbox)} \cup InSeq(inbox)' /\ Requested' = Requested
      BY <2>1, PostedLess DEF Requested
    <2>3. \A q \in Requests : SendOrder(q) # Head(inbox)
      BY <2>1 DEF SendOrder
    <2> QED
      BY <2>1, <2>2, <2>3 DEF AllHeld, Held, Unanswered
  <1>7. ASSUME NEW r \in Requests, SendAtHead(r)
        PROVE  InSeq(inbox) = InSeq(inbox)' \cup {SendOrder(r)}
    BY <1>7, PostedLess DEF SendAtHead
  <1>8. ASSUME NEW r \in Requests, RejectSend(r) \/ DirectSend(r) PROVE AllHeld'
    <2>1. SendAtHead(r) /\ UNCHANGED <<stack, submitted>>
      BY <1>8 DEF RejectSend, DirectSend, posted
    <2>2. PICK o \in {"ok", "failed"} : Answer(r, o)
      BY <1>8 DEF RejectSend, DirectSend
    <2>3. Requested' = Requested
      BY <2>1 DEF Requested
    <2> QED
      BY <1>2, <1>7, <2>1, <2>2, <2>3
  <1>9. ASSUME NEW r \in Requests, StartSerialSend(r) PROVE AllHeld'
    \* The order becomes a send of the stack.
    <2>1. SendAtHead(r) /\ stack' = Append(stack, NewFrame(r)) /\ UNCHANGED <<outcome, submitted>>
      BY <1>9 DEF StartSerialSend, posted
    <2>2. Requested \cup {r} \subseteq Requested'
      BY <2>1, RequestedPush
    <2>3. \A q \in Requests : SendOrder(q) = SendOrder(r) => q = r
      BY DEF SendOrder
    <2> QED
      BY <1>7, <2>1, <2>2, <2>3 DEF AllHeld, Held, Unanswered
  <1>10. ASSUME NEW o \in {"ok", "failed"}, Return(o), stack # <<>>, UNCHANGED <<inbox, submitted>>
         PROVE  AllHeld'
    <2>1. Top.req \in Requests /\ Answer(Top.req, o) /\ stack' = Below
      BY <1>10, StackType DEF Frames, Return
    <2>2. InSeq(inbox)' = InSeq(inbox)
      BY <1>10 DEF InSeq
    <2> QED
      BY <1>2, <1>10, <2>1, <2>2, RequestedPop
  <1>11. ASSUME NEW f \in Frames, f.req = Top.req, stack # <<>>, stack' = WithTop(f),
                UNCHANGED <<inbox, submitted, outcome>>
         PROVE  AllHeld'
    <2>1. InSeq(inbox)' = InSeq(inbox) /\ Requested' = Requested
      BY <1>11, RequestedTop DEF InSeq
    <2> QED
      BY <1>1, <1>11, <2>1
  <1>12. CASE WriteChunk
    <2>1. stack # <<>> /\ Top \in Frames /\ UNCHANGED <<inbox, submitted>>
      BY <1>12, StackType DEF WriteChunk, posted
    <2>2. CASE Return("failed")
      BY <1>10, <2>1, <2>2
    <2>3. CASE stack' = WithTop([Top EXCEPT !.waiting = TRUE, !.waited = TRUE])
               /\ UNCHANGED outcome
      <3> DEFINE f == [Top EXCEPT !.waiting = TRUE, !.waited = TRUE]
      <3>1. f \in Frames /\ f.req = Top.req
        BY <2>1 DEF Frames
      <3>2. stack' = WithTop(f)
        BY <2>3
      <3> HIDE DEF f
      <3> QED
        BY <1>11, <2>1, <2>3, <3>1, <3>2
    <2> QED
      BY <1>12, <2>2, <2>3 DEF WriteChunk
  <1>13. CASE EndWait
    <2>1. stack # <<>> /\ Top \in Frames /\ UNCHANGED <<inbox, submitted>>
      BY <1>13, StackType DEF EndWait, posted
    <2>2. ASSUME NEW o \in {"ok", "failed"}, Return(o) PROVE AllHeld'
      BY <1>10, <2>1, <2>2
    <2>3. CASE stack' = WithTop([Top EXCEPT !.nr = @ + 1, !.waiting = FALSE])
               /\ UNCHANGED outcome
      <3> DEFINE f == [Top EXCEPT !.nr = @ + 1, !.waiting = FALSE]
      <3>1. Top.nr + 1 \in Nat
        BY <2>1 DEF Frames
      <3>2. f \in Frames /\ f.req = Top.req
        BY <2>1, <3>1 DEF Frames
      <3>3. stack' = WithTop(f)
        BY <2>3
      <3> HIDE DEF f
      <3> QED
        BY <1>11, <2>1, <2>3, <3>2, <3>3
    <2> QED
      BY <1>13, <2>2, <2>3 DEF EndWait
  <1>14. ASSUME UNCHANGED <<inbox, stack, outcome, submitted>> PROVE AllHeld'
    BY <1>14, <1>1 DEF InSeq, Requested
  <1>15. CASE SerialDrains \/ SerialReceives \/ ClientConnected \/ ClientError
    BY <1>14, <1>15 DEF SerialDrains, SerialReceives, ClientConnected, ClientError, posted
  <1>16. ASSUME NEW p \in Peers, PeerConnects(p) PROVE AllHeld'
    BY <1>14, <1>16 DEF PeerConnects, posted
  <1>17. ASSUME NEW i \in 1..Len(peers), PeerDisconnects(i) PROVE AllHeld'
    BY <1>14, <1>17 DEF PeerDisconnects, posted
  <1>18. CASE UNCHANGED vars
    BY <1>14, <1>18 DEF vars
  <1> QED
    BY <1>3, <1>4, <1>5, <1>6, <1>8, <1>9, <1>12, <1>13, <1>15, <1>16, <1>17, <1>18
       DEF Next, HandleSend, Finished

\* An unanswered request is posted or being sent, and when the thread has ended
\* there is none.
NoneForgotten ==
    /\ AllHeld
    /\ ~running /\ stack = <<>> => \A r \in submitted : outcome[r] # "none"

(***************************************************************************)
(* The thread keeps every request until it answers it, in the inbox or in  *)
(* a send that works on it, and it does not end, after the exit order that *)
(* a waiting send may handle, before it has answered them all.             *)
(***************************************************************************)
THEOREM NoRequestForgotten == SafeSpec => []NoneForgotten
  <1>1. Init => AllHeld /\ ExitIsLast
    BY EmptySeq DEF Init, AllHeld, Unanswered, ExitIsLast
  <1>2. ASSUME TypeOK, AllHeld, ExitIsLast PROVE NoneForgotten
    <2> SUFFICES ASSUME ~running, stack = <<>>, NEW r \in submitted, outcome[r] = "none"
                 PROVE  FALSE
      BY <1>2 DEF NoneForgotten
    <2>1. r \in Requests /\ Held(r)
      BY <1>2 DEF AllHeld, Unanswered, TypeOK, HistoryOK
    <2>2. inbox = <<>> /\ Len(stack) = 0
      BY <1>2, EmptySeq DEF ExitIsLast
    <2> QED
      BY <2>1, <2>2, InSeqEmpty DEF Held, Requested
  <1>3. TypeInv => TypeOK
    BY DEF TypeInv
  <1> QED
    BY <1>1, <1>2, <1>3, TypeInit, TypeStep, HeldStep, ExitIsLastStep, PTL DEF SafeSpec
-----------------------------------------------------------------------------
(***************************************************************************)
(* The connect button.                                                     *)
(***************************************************************************)
OffWhileConnecting == ~buttons => client \in {"connecting", "closing"}

\* An attempt that was given up stays one that Qt will report on.
LEMMA ConnectSlotButtons ==
    ASSUME TypeOK, OffWhileConnecting, NEW t, NEW on, ConnectSlot(t, on)
    PROVE  OffWhileConnecting'
  <1>1. ASSUME client' = ClosedClient, UNCHANGED buttons PROVE OffWhileConnecting'
    BY <1>1 DEF ClosedClient, OffWhileConnecting
  <1>2. CASE OpenTcpClient
    BY <1>2 DEF OpenTcpClient, OffWhileConnecting
  <1> QED
    BY <1>1, <1>2 DEF ConnectSlot, Disconnected, OpenDevice, OpenTcpServer, OpenUdp

LEMMA ButtonsStep == TypeOK /\ OffWhileConnecting /\ [Next]_vars => OffWhileConnecting'
  <1> SUFFICES ASSUME TypeOK, OffWhileConnecting, [Next]_vars PROVE OffWhileConnecting'
    OBVIOUS
  <1>1. ASSUME UNCHANGED <<client, buttons>> PROVE OffWhileConnecting'
    BY <1>1 DEF OffWhileConnecting
  <1>2. CASE HandleConnect
    BY <1>2, ConnectSlotButtons DEF HandleConnect
  <1>3. CASE HandleExit
    BY <1>3 DEF HandleExit, ClosedClient, OffWhileConnecting
  <1>4. ASSUME NEW r \in Requests, DirectSend(r) PROVE OffWhileConnecting'
    BY <1>1, <1>4, ConnectSlotButtons DEF DirectSend, handles, told
  <1>5. ASSUME NEW r \in Requests, PostSend(r) \/ RejectSend(r) \/ StartSerialSend(r)
        PROVE  OffWhileConnecting'
    BY <1>1, <1>5 DEF PostSend, RejectSend, StartSerialSend, handles, told
  <1>6. ASSUME NEW t \in Types, NEW on \in BOOLEAN, PostConnect(t, on) PROVE OffWhileConnecting'
    BY <1>1, <1>6 DEF PostConnect, handles, told
  <1>7. CASE PostExit \/ WriteChunk \/ EndWait \/ SerialDrains \/ SerialReceives
    BY <1>1, <1>7 DEF PostExit, WriteChunk, EndWait, SerialDrains, SerialReceives, handles, told
  <1>8. CASE ClientConnected \/ ClientError
    BY <1>8 DEF ClientConnected, ClientError, EnableButtons, OffWhileConnecting
  <1>9. ASSUME NEW p \in Peers, PeerConnects(p) PROVE OffWhileConnecting'
    BY <1>1, <1>9 DEF PeerConnects
  <1>10. ASSUME NEW i \in 1..Len(peers), PeerDisconnects(i) PROVE OffWhileConnecting'
    BY <1>1, <1>10, ConnectSlotButtons DEF PeerDisconnects
  <1>11. CASE UNCHANGED vars
    BY <1>1, <1>11 DEF vars
  <1> QED
    BY <1>2, <1>3, <1>4, <1>5, <1>6, <1>7, <1>8, <1>9, <1>10, <1>11
       DEF Next, HandleSend, Finished

(***************************************************************************)
(* The connect button is disabled only while an attempt of the TCP client  *)
(* is on which will still report its end, also when it was given up and    *)
(* another interface opened: that report enables the button again.         *)
(***************************************************************************)
THEOREM ButtonsOffOnlyConnecting == SafeSpec => []OffWhileConnecting
  <1>1. Init => OffWhileConnecting
    BY DEF Init, OffWhileConnecting
  <1>2. TypeInv => TypeOK
    BY DEF TypeInv
  <1> QED
    BY <1>1, <1>2, TypeInit, TypeStep, ButtonsStep, PTL DEF SafeSpec
=============================================================================

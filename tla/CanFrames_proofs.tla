-------------------------- MODULE CanFrames_proofs --------------------------
(***************************************************************************)
(* Proofs about CanFrames, for messages of any length, any number of       *)
(* retries and any number of received messages.                            *)
(*                                                                         *)
(* NextLength yields only lengths a DLC can express (FrameSize).  While a  *)
(* message is sent the frames end where the send stands (SendInv).  What   *)
(* has been read is 1, 2, 3, ... in the order delivered, being delivered,  *)
(* read ahead, and the queue holds the rest in order (ReadInv).            *)
(***************************************************************************)
EXTENDS CanFrames, SequenceTheorems, TLAPS

\* The lengths a DLC can express
Expressible == 0..8 \cup {12, 16, 20, 24, 32, 48, 64}

LEMMA FdLengthsAre ==
    /\ FdLengths[1] = 8 /\ FdLengths[2] = 12 /\ FdLengths[3] = 16 /\ FdLengths[4] = 20
    /\ FdLengths[5] = 24 /\ FdLengths[6] = 32 /\ FdLengths[7] = 48 /\ FdLengths[8] = 64
  BY DEF FdLengths

LEMMA MinIs ==
    ASSUME NEW S \in SUBSET Int, NEW m \in S, \A k \in S : m <= k
    PROVE  Min(S) = m
  <1>1. \E x \in S : \A y \in S : x <= y
    OBVIOUS
  <1>2. Min(S) = CHOOSE x \in S : \A y \in S : x <= y
    BY DEF Min
  <1>3. Min(S) \in S /\ \A y \in S : Min(S) <= y
    BY <1>1, <1>2, Zenon
  <1>4. Min(S) \in Int /\ m \in Int /\ Min(S) <= m /\ m <= Min(S)
    BY <1>3
  <1> QED
    BY <1>4

LEMMA AdjustedIs ==
    ASSUME NEW n \in 0..64
    PROVE  Adjusted(n) \in Expressible /\ Adjusted(n) <= n /\ (n > 0 => Adjusted(n) > 0)
  <1>1. CASE Between(n) = {}
    <2>1. \A k \in 1..7 : ~(FdLengths[k] < n /\ n < FdLengths[k + 1])
      BY <1>1 DEF Between
    <2>2. /\ ~(FdLengths[1] < n /\ n < FdLengths[1 + 1]) /\ ~(FdLengths[2] < n /\ n < FdLengths[2 + 1])
          /\ ~(FdLengths[3] < n /\ n < FdLengths[3 + 1]) /\ ~(FdLengths[4] < n /\ n < FdLengths[4 + 1])
          /\ ~(FdLengths[5] < n /\ n < FdLengths[5 + 1]) /\ ~(FdLengths[6] < n /\ n < FdLengths[6 + 1])
          /\ ~(FdLengths[7] < n /\ n < FdLengths[7 + 1])
      BY <2>1
    <2>3. n \in Expressible
      BY <2>2, FdLengthsAre DEF Expressible
    <2> QED
      BY <1>1, <2>3 DEF Adjusted
  <1>2. CASE Between(n) # {}
    <2>1. PICK k \in Between(n) : Adjusted(n) = FdLengths[k]
      BY <1>2 DEF Adjusted
    <2>2. k \in 1..7 /\ FdLengths[k] < n
      BY <2>1 DEF Between
    <2>3. FdLengths[k] \in {8, 12, 16, 20, 24, 32, 48}
      BY <2>2, FdLengthsAre
    <2> QED
      BY <2>1, <2>2, <2>3 DEF Expressible
  <1> QED
    BY <1>1, <1>2

LEMMA DlcIs ==
    ASSUME NEW m \in 2..8, canFd PROVE Dlc(FdLengths[m]) = 7 + m
  <1> DEFINE S == {k \in 1..8 : FdLengths[m] <= FdLengths[k]}
  <1>1. S \in SUBSET Int /\ m \in S /\ \A k \in S : m <= k
    BY FdLengthsAre
  <1>2. Min(S) = m
    BY <1>1, MinIs
  <1>3. ~(FdLengths[m] <= 8)
    BY FdLengthsAre
  <1>4. Dlc(FdLengths[m]) = 7 + Min(S)
    BY <1>3 DEF Dlc
  <1> HIDE DEF S
  <1> QED
    BY <1>2, <1>4

\* The DLC of an expressible length says this length, on an interface for it.
LEMMA DlcSays ==
    ASSUME NEW n \in Expressible, canFd \in BOOLEAN
    PROVE  /\ Dlc(n) \in 0..15
           /\ n <= 8 \/ canFd => DataLength(Dlc(n)) = n
  <1>1. CASE n <= 8
    BY <1>1 DEF Dlc, DataLength, Expressible
  <1>2. CASE n > 8 /\ ~canFd
    BY <1>2 DEF Dlc, Expressible
  <1>3. CASE n > 8 /\ canFd
    <2>1. PICK m \in 2..8 : n = FdLengths[m]
      <3>1. n \in {12, 16, 20, 24, 32, 48, 64}
        BY <1>3 DEF Expressible
      <3>2. {2, 3, 4, 5, 6, 7, 8} \subseteq 2..8
        OBVIOUS
      <3> QED
        BY <3>1, <3>2, FdLengthsAre
    <2>2. Dlc(n) = 7 + m
      BY <1>3, <2>1, DlcIs
    <2>3. DataLength(7 + m) = FdLengths[m]
      BY <1>3 DEF DataLength
    <2> QED
      BY <2>1, <2>2, <2>3
  <1> QED
    BY <1>1, <1>2, <1>3 DEF Expressible

LEMMA FrameSize ==
    ASSUME NEW fd \in BOOLEAN, NEW left \in Nat, canFd \in BOOLEAN, NEW n, n = NextLength(fd, left)
    PROVE  /\ n \in Nat /\ n <= left /\ (left > 0 => n > 0)
           /\ Dlc(n) \in 0..15
           /\ (fd => canFd) => DataLength(Dlc(n)) = n
  <1> DEFINE m == Smaller(left, BytesPerFrame(fd))
  <1>1. /\ m \in 0..64 /\ m <= left /\ (left > 0 => m > 0)
        /\ ~fd => m <= 8
    BY DEF Smaller, BytesPerFrame
  <1>2. CASE fd
    <2>1. n = Adjusted(m)
      BY <1>2 DEF NextLength
    <2> HIDE DEF m
    <2>2. n \in Expressible /\ n <= m /\ (m > 0 => n > 0)
      BY <1>1, <2>1, AdjustedIs
    <2>3. n \in Nat /\ m \in Nat
      BY <1>1, <2>2 DEF Expressible
    <2>4. Dlc(n) \in 0..15 /\ (canFd => DataLength(Dlc(n)) = n)
      BY <2>2, DlcSays
    <2>5. n <= left /\ (left > 0 => n > 0)
      BY <1>1, <2>2, <2>3
    <2> QED
      BY <1>2, <2>3, <2>4, <2>5
  <1>3. CASE ~fd
    <2>1. n = m
      BY <1>3 DEF NextLength
    <2> HIDE DEF m
    <2>2. n \in Expressible
      BY <1>1, <1>3, <2>1 DEF Expressible
    <2> QED
      BY <1>1, <1>3, <2>1, <2>2, DlcSays
  <1> QED
    BY <1>2, <1>3
-----------------------------------------------------------------------------
(***************************************************************************)
(* Sending.                                                                *)
(***************************************************************************)
SendOK ==
    /\ handle \in BOOLEAN /\ canFd \in BOOLEAN
    /\ sendData \in {"idle", "writing", "restarting", "ok", "failed"}
    /\ send \in Sends /\ frames \in Seq(Frames)

\* Where the frames end, of which all but the last are behind each other
Contiguous ==
    \A i \in 1..Len(frames) :
        /\ frames[i].first = (IF i = 1 THEN 1 ELSE frames[i - 1].last + 1)
        /\ Fits => DataLength(frames[i].dlc) = frames[i].last - frames[i].first + 1

EndsAt == IF frames = <<>> THEN 0 ELSE frames[Len(frames)].last

SendInv ==
    /\ sendData = "idle" => frames = <<>>
    /\ Contiguous /\ EndsAt = send.at
    /\ sendData = "writing" => send.length \in Nat /\ send.at <= send.length
    /\ sendData = "ok" => frames # <<>> /\ send.at = send.length

LEMMA SendTypes ==
    ASSUME SendOK
    PROVE  /\ send.fd \in BOOLEAN /\ send.at \in Nat /\ send.length \in Lengths \cup {TooShort}
           /\ send.errors \in 0..MaxSendError
  BY DEF SendOK, Sends

LEMMA SendInit == ASSUME Init PROVE SendOK /\ SendInv
  <1>1. frames = <<>> /\ frames \in Seq(Frames) /\ Len(frames) = 0
    BY EmptySeq DEF Init
  <1>2. NoSend \in Sends /\ NoSend.at = 0
    BY CanAssumption DEF NoSend, Sends
  <1>3. send = NoSend /\ sendData = "idle" /\ handle = FALSE /\ canFd = FALSE
    BY DEF Init
  <1>4. SendOK
    BY <1>1, <1>2, <1>3 DEF SendOK
  <1>5. Contiguous /\ EndsAt = 0
    BY <1>1 DEF Contiguous, EndsAt
  <1> QED
    BY <1>1, <1>2, <1>3, <1>4, <1>5 DEF SendInv

\* No frame is added.
LEMMA FramesKept ==
    ASSUME SendInv, SendOK, frames' = frames, canFd' = canFd, send'.fd = send.fd, send'.at = send.at,
           send'.length = send.length,
           sendData = "writing", sendData' \in {"writing", "restarting"}
    PROVE  SendInv'
  BY DEF SendInv, Contiguous, EndsAt, Fits, DataLength

LEMMA WrittenKeeps ==
    ASSUME SendOK, SendInv, Written PROVE SendOK' /\ SendInv'
  <1>1. sendData = "writing" /\ send.length \in Nat /\ send.at <= send.length /\ Left \in Nat
    BY SendTypes DEF Written, SendInv, Left
  <1>2. PICK n : n = NextLength(send.fd, Left)
    OBVIOUS
  <1>3. /\ n \in Nat /\ n <= Left /\ Dlc(n) \in 0..15
        /\ Fits => DataLength(Dlc(n)) = n
    BY <1>1, <1>2, FrameSize, SendTypes DEF SendOK, Fits
  <1>4. PICK f : f = [first |-> send.at + 1, last |-> send.at + n, dlc |-> Dlc(n)]
    OBVIOUS
  <1>5. f \in Frames /\ f.first = send.at + 1 /\ f.last = send.at + n /\ f.dlc = Dlc(n)
    BY <1>3, <1>4, SendTypes DEF Frames
  <1>6. /\ frames' = Append(frames, f)
        /\ send' = [send EXCEPT !.at = send.at + n, !.errors = 0]
        /\ sendData' = IF send'.at = send.length THEN "ok" ELSE "writing"
        /\ handle' = handle /\ canFd' = canFd
    BY <1>2, <1>4 DEF Written, Advance
  <1>7. /\ send' \in Sends /\ send'.at = send.at + n /\ send'.length = send.length
        /\ send'.fd = send.fd
    <2>1. PICK m \in Nat : m = send.at + n
      BY <1>3, SendTypes
    <2>2. send' = [send EXCEPT !.at = m, !.errors = 0] /\ send \in Sends
      BY <1>6, <2>1 DEF SendOK
    <2>3. 0 \in 0..MaxSendError
      BY CanAssumption
    <2> QED
      BY <2>1, <2>2, <2>3 DEF Sends
  <1>8. /\ frames' \in Seq(Frames) /\ Len(frames) \in Nat /\ Len(frames') = Len(frames) + 1
        /\ \A i \in 1..Len(frames) : frames'[i] = frames[i]
        /\ frames'[Len(frames) + 1] = f /\ frames' # <<>>
    <2>1. /\ frames' \in Seq(Frames) /\ Len(frames) \in Nat /\ Len(frames') = Len(frames) + 1
          /\ \A i \in 1..Len(frames) : frames'[i] = frames[i]
          /\ frames'[Len(frames) + 1] = f
      BY <1>5, <1>6, AppendProperties, LenProperties DEF SendOK
    <2>2. frames' # <<>>
      BY <2>1, EmptySeq
    <2> QED
      BY <2>1, <2>2
  <1>9. send.at + n <= send.length
    BY <1>1, <1>3, SendTypes DEF Left
  <1>10. Contiguous'
    <2> SUFFICES ASSUME NEW i \in 1..(Len(frames) + 1)
                 PROVE  /\ frames'[i].first = (IF i = 1 THEN 1 ELSE frames'[i - 1].last + 1)
                        /\ Fits' => DataLength(frames[i].dlc)' = frames'[i].last - frames'[i].first + 1
      BY <1>8 DEF Contiguous
    <2>1. (Fits' <=> Fits) /\ DataLength(frames[i].dlc)' = DataLength(frames'[i].dlc)
      BY <1>6, <1>7 DEF Fits, DataLength
    <2>2. CASE i \in 1..Len(frames)
      <3>1. i = 1 \/ i - 1 \in 1..Len(frames)
        BY <1>8, <2>2
      <3>2. /\ frames[i].first = (IF i = 1 THEN 1 ELSE frames[i - 1].last + 1)
            /\ Fits => DataLength(frames[i].dlc) = frames[i].last - frames[i].first + 1
        BY <2>2 DEF SendInv, Contiguous
      <3> QED
        BY <1>8, <2>1, <2>2, <3>1, <3>2
    <2>3. CASE i = Len(frames) + 1
      <3>1. frames'[i] = f
        BY <1>8, <2>3
      <3>2. f.last - f.first + 1 = n
        BY <1>3, <1>5, SendTypes
      <3>3. Fits => DataLength(f.dlc) = n
        BY <1>3, <1>5
      <3>4. f.first = (IF i = 1 THEN 1 ELSE frames'[i - 1].last + 1)
        <4>1. CASE frames = <<>>
          BY <1>5, <2>3, <4>1, EmptySeq, SendTypes DEF SendInv, EndsAt
        <4>2. CASE frames # <<>>
          <5>1. i - 1 = Len(frames) /\ Len(frames) \in 1..Len(frames) /\ i # 1
            BY <1>8, <2>3, <4>2, EmptySeq, LenProperties DEF SendOK
          <5>2. frames'[i - 1].last = send.at
            BY <1>8, <4>2, <5>1 DEF SendInv, EndsAt
          <5> QED
            BY <1>5, <5>1, <5>2
        <4> QED
          BY <4>1, <4>2
      <3> QED
        BY <2>1, <3>1, <3>2, <3>3, <3>4
    <2> QED
      BY <1>8, <2>2, <2>3
  <1>11. EndsAt' = send'.at
    BY <1>5, <1>7, <1>8 DEF EndsAt
  <1>12. sendData' \in {"ok", "writing"} /\ (sendData' = "ok" => send'.at = send'.length)
    BY <1>6, <1>7
  <1>13. SendOK'
    BY <1>6, <1>7, <1>8, <1>12 DEF SendOK
  <1> QED
    BY <1>1, <1>7, <1>8, <1>9, <1>10, <1>11, <1>12, <1>13 DEF SendInv

LEMMA SendStep == ASSUME SendOK, SendInv, [Next]_vars PROVE SendOK' /\ SendInv'
  <1>1. ASSUME NEW fd \in BOOLEAN, NEW n \in Lengths, Send(fd, n) PROVE SendOK' /\ SendInv'
    <2>1. /\ sendData' = IF n = TooShort THEN "restarting" ELSE "writing"
          /\ send' = [fd |-> fd, length |-> n, at |-> 0, errors |-> 0]
          /\ frames' = <<>> /\ UNCHANGED <<handle, canFd>>
      BY <1>1 DEF Send
    <2>2. /\ send' \in Sends /\ send'.at = 0 /\ send'.length = n
      BY <2>1, CanAssumption DEF Sends
    <2>3. n = TooShort \/ (n \in Nat /\ 0 <= n)
      BY CanAssumption
    <2>4. frames' \in Seq(Frames) /\ Len(frames') = 0
      BY <2>1, EmptySeq
    <2> QED
      BY <2>1, <2>2, <2>3, <2>4 DEF SendOK, SendInv, Contiguous, EndsAt
  <1>2. CASE QueueIsFull
    <2>1. /\ sendData = "writing" /\ sendData' \in {"writing", "restarting"}
          /\ UNCHANGED <<handle, canFd, frames>>
          /\ send' = send \/ (Count < MaxSendError /\ send' = [send EXCEPT !.errors = Count])
      BY <1>2 DEF QueueIsFull
    <2>2. /\ send' \in Sends /\ send'.fd = send.fd /\ send'.at = send.at
          /\ send'.length = send.length
      BY <2>1, SendTypes, CanAssumption DEF Sends, Count, SendOK
    <2>3. SendOK'
      BY <2>1, <2>2 DEF SendOK
    <2> QED
      BY <2>1, <2>2, <2>3, FramesKept
  <1>3. CASE WriteFails
    <2>1. /\ sendData = "writing" /\ sendData' = "restarting"
          /\ UNCHANGED <<handle, canFd, frames, send>>
      BY <1>3 DEF WriteFails
    <2>2. SendOK'
      BY <2>1 DEF SendOK
    <2> QED
      BY <2>1, <2>2, FramesKept
  <1>4. CASE Restart
    BY <1>4 DEF Restart, SendOK, SendInv, Contiguous, EndsAt, Fits, DataLength
  <1>5. CASE Return
    <2>1. sendData' = "idle" /\ send' = NoSend /\ frames' = <<>> /\ UNCHANGED <<handle, canFd>>
      BY <1>5 DEF Return
    <2>2. NoSend \in Sends /\ NoSend.at = 0
      BY CanAssumption DEF NoSend, Sends
    <2>3. frames' \in Seq(Frames) /\ Len(frames') = 0
      BY <2>1, EmptySeq
    <2> QED
      BY <2>1, <2>2, <2>3 DEF SendOK, SendInv, Contiguous, EndsAt
  <1>6. CASE Open
    <2>1. /\ sendData = "idle" /\ UNCHANGED <<sendData, send, frames>>
          /\ canFd' \in BOOLEAN /\ handle' = TRUE
      BY <1>6 DEF Open, InEventLoop, sendVars
    <2>2. frames = <<>> /\ Len(frames') = 0
      BY <2>1, EmptySeq DEF SendInv
    <2> QED
      BY <2>1, <2>2 DEF SendOK, SendInv, Contiguous, EndsAt
  <1>7. ASSUME UNCHANGED <<sendData, send, frames, canFd>>, handle' \in BOOLEAN
        PROVE  SendOK' /\ SendInv'
    BY <1>7 DEF SendOK, SendInv, Contiguous, EndsAt, Fits, DataLength
  <1>8. CASE Close
    BY <1>7, <1>8 DEF Close, sendVars
  <1>9. CASE Arrive \/ ArriveStatus \/ ReceiveTimer \/ ReceiveFails \/ ReadLast \/ ReadNext \/ ReadNothing
    BY <1>7, <1>9 DEF Arrive, ArriveStatus, ReceiveTimer, ReceiveFails, ReadLast, ReadNext, ReadNothing, sendVars,
       SendOK
  <1>10. CASE UNCHANGED vars
    BY <1>7, <1>10 DEF vars, sendVars, SendOK
  <1> QED
    BY <1>1, <1>2, <1>3, <1>4, <1>5, <1>6, <1>8, <1>9, <1>10, WrittenKeeps DEF Next
-----------------------------------------------------------------------------
(***************************************************************************)
(* Reception.                                                              *)
(***************************************************************************)
\* A queue that holds, in order, the messages after the first n of a.
Holds(q, n, a) ==
    /\ \A m \in 1..a : m > n => \E i \in 1..Len(q) : q[i] = m
    /\ \A i, j \in 1..Len(q) : i < j /\ q[i] # Status /\ q[j] # Status => q[i] < q[j]
    /\ \A i \in 1..Len(q) : q[i] # Status => n < q[i] /\ q[i] <= a

Queues == Seq(0..MaxArrivals)

LEMMA HoldsNothing == Holds(<<>>, 0, 0)
  BY EmptySeq DEF Holds

LEMMA HoldsMore ==
    ASSUME NEW q \in Queues, NEW n \in Nat, NEW a \in 0..MaxArrivals, Holds(q, n, a), n <= a,
           a < MaxArrivals
    PROVE  Append(q, a + 1) \in Queues /\ Holds(Append(q, a + 1), n, a + 1)
  <1> DEFINE r == Append(q, a + 1)
             k == Len(q)
  <1>1. MaxArrivals \in Nat /\ a + 1 \in 0..MaxArrivals
    BY CanAssumption
  <1>2. /\ r \in Queues /\ k \in Nat /\ Len(r) = k + 1 /\ r[k + 1] = a + 1
        /\ \A i \in 1..k : r[i] = q[i] /\ q[i] \in 0..MaxArrivals
    BY <1>1, AppendProperties, LenProperties, ElementOfSeq DEF Queues
  <1> HIDE DEF r
  <1>3. \A i \in 1..(k + 1) : i \in 1..k \/ i = k + 1
    BY <1>2
  <1>4. \A i \in 1..k : i \in 1..(k + 1)
    BY <1>2
  <1>5. k + 1 \in 1..(k + 1)
    BY <1>2
  <1> HIDE DEF k
  <1>6. ASSUME NEW m \in 1..(a + 1), m > n PROVE \E i \in 1..(k + 1) : r[i] = m
    <2>1. CASE m = a + 1
      BY <1>2, <1>5, <2>1
    <2>2. CASE m # a + 1
      <3>1. m \in 1..a
        BY <2>2
      <3>2. PICK i \in 1..k : q[i] = m
        BY <1>6, <3>1 DEF Holds, k
      <3> QED
        BY <1>2, <1>4, <3>2
    <2> QED
      BY <2>1, <2>2
  <1>7. \A i \in 1..k : q[i] # Status => n < q[i] /\ q[i] <= a
    BY DEF Holds, k
  <1>8. ASSUME NEW i \in 1..(k + 1), r[i] # Status PROVE n < r[i] /\ r[i] <= a + 1
    <2>1. CASE i \in 1..k
      BY <1>2, <1>7, <1>8, <2>1
    <2>2. CASE i = k + 1
      BY <1>2, <2>2
    <2> QED
      BY <1>3, <2>1, <2>2
  <1>9. ASSUME NEW i \in 1..(k + 1), NEW j \in 1..(k + 1), i < j, r[i] # Status, r[j] # Status
        PROVE  r[i] < r[j]
    <2>1. i \in 1..k
      BY <1>2, <1>9
    <2>2. CASE j \in 1..k
      BY <1>2, <1>9, <2>1, <2>2 DEF Holds, k
    <2>3. CASE j = k + 1
      BY <1>2, <1>7, <1>9, <2>1, <2>3
    <2> QED
      BY <1>3, <2>2, <2>3
  <1> QED
    BY <1>2, <1>6, <1>8, <1>9 DEF Holds, r

LEMMA HoldsStatus ==
    ASSUME NEW q \in Queues, NEW n, NEW a, Holds(q, n, a)
    PROVE  Append(q, Status) \in Queues /\ Holds(Append(q, Status), n, a)
  <1> DEFINE r == Append(q, Status)
             k == Len(q)
  <1>1. Status \in 0..MaxArrivals
    BY CanAssumption DEF Status
  <1>2. /\ r \in Queues /\ k \in Nat /\ Len(r) = k + 1 /\ r[k + 1] = Status
        /\ \A i \in 1..k : r[i] = q[i]
    BY <1>1, AppendProperties, LenProperties DEF Queues
  <1> HIDE DEF r
  <1>3. /\ \A i \in 1..(k + 1) : i \in 1..k \/ i = k + 1
        /\ \A i \in 1..k : i \in 1..(k + 1)
    BY <1>2
  <1> HIDE DEF k
  <1>4. \A m \in 1..a : m > n => \E i \in 1..(k + 1) : r[i] = m
    BY <1>2, <1>3 DEF Holds, k
  <1>5. \A i \in 1..(k + 1) : r[i] # Status => i \in 1..k /\ r[i] = q[i]
    BY <1>2, <1>3
  <1>6. /\ \A i, j \in 1..(k + 1) : i < j /\ r[i] # Status /\ r[j] # Status => r[i] < r[j]
        /\ \A i \in 1..(k + 1) : r[i] # Status => n < r[i] /\ r[i] <= a
    BY <1>5 DEF Holds, k
  <1> QED
    BY <1>2, <1>4, <1>6 DEF Holds, r

\* The first entry is taken from the queue: a status message, or the next one.
LEMMA HoldsTail ==
    ASSUME NEW q \in Queues, NEW n \in Nat, NEW a \in Nat, Holds(q, n, a), q # <<>>
    PROVE  /\ Tail(q) \in Queues /\ Head(q) \in 0..MaxArrivals
           /\ Head(q) = Status => Holds(Tail(q), n, a)
           /\ Head(q) # Status => Head(q) = n + 1 /\ n + 1 <= a /\ Holds(Tail(q), n + 1, a)
  <1> DEFINE r == Tail(q)
             k == Len(q)
             h == Head(q)
  <1>1. /\ r \in Queues /\ k \in Nat \ {0} /\ Len(r) = k - 1 /\ h = q[1]
        /\ \A i \in 1..(k - 1) : r[i] = q[i + 1]
        /\ \A i \in 1..k : q[i] \in 0..MaxArrivals
    <2>1. q \in Seq(0..MaxArrivals)
      BY DEF Queues
    <2>2. k \in Nat \ {0} /\ \A i \in 1..k : q[i] \in 0..MaxArrivals
      BY <2>1, EmptySeq, LenProperties, ElementOfSeq
    <2>3. h = q[1] /\ r \in Seq(0..MaxArrivals) /\ Len(r) = k - 1
      BY <2>1, HeadTailProperties
    <2>4. \A i \in 1..(k - 1) : r[i] = q[i + 1]
      BY <2>1, <2>3, HeadTailProperties
    <2> QED
      BY <2>2, <2>3, <2>4 DEF Queues
  <1> HIDE DEF r, h
  <1>2. /\ \A i \in 1..(k - 1) : i + 1 \in 1..k /\ i + 1 # 1
        /\ 1 \in 1..k /\ \A i \in 1..k : i # 1 => i - 1 \in 1..(k - 1) /\ i - 1 + 1 = i
        /\ \A i, j \in 1..(k - 1) : i < j => i + 1 < j + 1
    BY <1>1
  <1> HIDE DEF k
  <1>3. \A i \in 1..(k - 1) : r[i] \in 0..MaxArrivals /\ r[i] = q[i + 1] /\ i + 1 \in 1..k
    BY <1>1, <1>2
  <1>4. \A i, j \in 1..(k - 1) : i < j /\ r[i] # Status /\ r[j] # Status => r[i] < r[j]
    BY <1>2, <1>3 DEF Holds, k
  <1>5. \A i \in 1..(k - 1) : r[i] # Status => n < r[i] /\ r[i] <= a
    BY <1>3 DEF Holds, k
  <1>6. ASSUME NEW m \in 1..a, m > n, m # h PROVE \E i \in 1..(k - 1) : r[i] = m
    <2>1. PICK i \in 1..k : q[i] = m
      BY <1>6 DEF Holds, k
    <2>2. i # 1
      BY <1>1, <1>6, <2>1
    <2> QED
      BY <1>2, <1>3, <2>1, <2>2
  <1>7. ASSUME h = Status PROVE Holds(r, n, a)
    <2>1. \A m \in 1..a : m # h
      BY <1>7 DEF Status
    <2> QED
      BY <1>1, <1>4, <1>5, <1>6, <2>1 DEF Holds
  <1>8. ASSUME h # Status PROVE h = n + 1 /\ n + 1 <= a /\ Holds(r, n + 1, a)
    <2>1. h \in Nat /\ n < h /\ h <= a
      BY <1>1, <1>2, <1>8 DEF Holds, k
    <2>2. \A i \in 1..(k - 1) : r[i] # Status => h < r[i]
      BY <1>1, <1>2, <1>3, <1>8 DEF Holds, k
    <2>3. h = n + 1
      <3>1. SUFFICES ASSUME h # n + 1 PROVE FALSE
        OBVIOUS
      <3>2. n + 1 \in 1..a /\ n + 1 > n /\ n + 1 # h /\ n + 1 # Status
        BY <2>1, <3>1 DEF Status
      <3>3. PICK i \in 1..(k - 1) : r[i] = n + 1
        BY <1>6, <3>2
      <3> QED
        BY <2>1, <2>2, <3>2, <3>3
    <2>4. \A m \in 1..a : m > n + 1 => \E i \in 1..(k - 1) : r[i] = m
      <3>1. \A m \in 1..a : m > n + 1 => m > n /\ m # h
        BY <2>3
      <3> QED
        BY <1>6, <3>1
    <2>5. \A i \in 1..(k - 1) : r[i] # Status => n + 1 < r[i] /\ r[i] <= a
      BY <1>5, <2>2, <2>3
    <2> QED
      BY <1>1, <1>4, <2>1, <2>3, <2>4, <2>5 DEF Holds
  <1> QED
    BY <1>1, <1>2, <1>7, <1>8 DEF r, h
ReadOK ==
    /\ queue \in Queues /\ last \in {None} \cup 1..MaxArrivals
    /\ ready \in BOOLEAN /\ reading \in BOOLEAN
    /\ messages \in Seq(1..MaxArrivals) /\ delivered \in Seq(1..MaxArrivals)
    /\ arrived \in 0..MaxArrivals

Ahead == IF last = None THEN 0 ELSE 1
NRead == Len(delivered) + Len(messages) + Ahead

ReadInv ==
    /\ \A i \in 1..Len(delivered) : delivered[i] = i
    /\ \A i \in 1..Len(messages) : messages[i] = Len(delivered) + i
    /\ last # None => last = NRead
    /\ Holds(queue, NRead, arrived) /\ NRead <= arrived
    /\ reading => sendData = "idle"
    /\ ~reading => last = None /\ messages = <<>>

LEMMA ReadTypes ==
    ASSUME ReadOK
    PROVE  /\ Len(delivered) \in Nat /\ Len(messages) \in Nat /\ Ahead \in {0, 1} /\ NRead \in Nat
           /\ arrived \in 0..MaxArrivals /\ arrived \in Nat
  <1>1. Len(delivered) \in Nat /\ Len(messages) \in Nat
    BY LenProperties DEF ReadOK
  <1> QED
    BY <1>1, CanAssumption DEF ReadOK, Ahead, NRead

\* Open, or a restart, discards what has been received.
LEMMA FreshReads ==
    ASSUME ReadOK, ReadInv, ~reading, Fresh PROVE ReadOK' /\ ReadInv'
  <1>1. /\ queue' = <<>> /\ ready' = FALSE /\ delivered' = <<>> /\ arrived' = 0
        /\ last' = None /\ reading' = reading /\ messages' = <<>>
    BY DEF Fresh, ReadInv
  <1>2. /\ <<>> \in Queues /\ <<>> \in Seq(1..MaxArrivals) /\ Len(<<>>) = 0
        /\ 0 \in 0..MaxArrivals
    BY EmptySeq, CanAssumption DEF Queues
  <1>3. NRead' = 0
    BY <1>1, <1>2 DEF NRead, Ahead
  <1>4. Holds(queue', NRead', arrived')
    BY <1>1, <1>3, HoldsNothing
  <1>5. ReadOK'
    BY <1>1, <1>2 DEF ReadOK
  <1> QED
    BY <1>1, <1>2, <1>3, <1>4, <1>5 DEF ReadInv

\* The driver's queue grows.
LEMMA ArriveReads ==
    ASSUME ReadOK, ReadInv, Arrive \/ ArriveStatus PROVE ReadOK' /\ ReadInv'
  <1>1. /\ UNCHANGED <<last, ready, reading, messages, delivered, sendData>>
        /\ NRead' = NRead
    BY DEF Arrive, ArriveStatus, sendVars, NRead, Ahead
  <1>2. /\ Holds(queue, NRead, arrived) /\ NRead <= arrived /\ queue \in Queues
    BY DEF ReadInv, ReadOK
  <1>3. CASE Arrive
    <2>1. arrived < MaxArrivals /\ arrived' = arrived + 1 /\ queue' = Append(queue, arrived + 1)
      BY <1>3 DEF Arrive
    <2>2. queue' \in Queues /\ Holds(queue', NRead, arrived')
      BY <1>2, <2>1, HoldsMore, ReadTypes
    <2>3. NRead <= arrived' /\ arrived' \in 0..MaxArrivals
      BY <1>2, <2>1, ReadTypes, CanAssumption
    <2>4. ReadOK'
      BY <1>1, <2>2, <2>3 DEF ReadOK
    <2> QED
      BY <1>1, <2>2, <2>3, <2>4 DEF ReadInv
  <1>4. CASE ArriveStatus
    <2>1. arrived' = arrived /\ queue' = Append(queue, Status)
      BY <1>4 DEF ArriveStatus
    <2>2. queue' \in Queues /\ Holds(queue', NRead, arrived')
      BY <1>2, <2>1, HoldsStatus
    <2>3. ReadOK'
      BY <1>1, <2>1, <2>2 DEF ReadOK
    <2> QED
      BY <1>1, <1>2, <2>1, <2>2, <2>3 DEF ReadInv
  <1> QED
    BY <1>3, <1>4

\* One message is read, ahead or by the loop.
LEMMA TimerReads ==
    ASSUME ReadOK, ReadInv, ReceiveTimer PROVE ReadOK' /\ ReadInv'
  <1>1. /\ ~reading /\ sendData = "idle" /\ queue # <<>> /\ queue' = Tail(queue)
        /\ UNCHANGED <<messages, delivered, arrived, sendData>>
        /\ last = None /\ messages = <<>> /\ queue \in Queues
    BY DEF ReceiveTimer, InEventLoop, sendVars, ReadInv, ReadOK
  <1>2. /\ queue' \in Queues /\ Head(queue) \in 0..MaxArrivals
        /\ Head(queue) = Status => Holds(queue', NRead, arrived)
        /\ Head(queue) # Status =>
              Head(queue) = NRead + 1 /\ NRead + 1 <= arrived /\ Holds(queue', NRead + 1, arrived)
    BY <1>1, HoldsTail, ReadTypes DEF ReadInv
  <1>3. CASE Head(queue) = Status
    <2>1. last' = None /\ UNCHANGED <<ready, reading>>
      BY <1>3 DEF ReceiveTimer
    <2>2. NRead' = NRead
      BY <1>1, <2>1 DEF NRead, Ahead
    <2>3. ReadOK'
      BY <1>1, <1>2, <2>1 DEF ReadOK
    <2> QED
      BY <1>1, <1>2, <1>3, <2>1, <2>2, <2>3 DEF ReadInv
  <1>4. CASE Head(queue) # Status
    <2>1. last' = Head(queue) /\ ready' = TRUE /\ reading' = TRUE
      BY <1>4 DEF ReceiveTimer
    <2>2. last' \in 1..MaxArrivals /\ last' # None
      BY <1>2, <1>4, <2>1 DEF Status, None
    <2>3. NRead' = NRead + 1
      BY <1>1, <2>2, ReadTypes DEF NRead, Ahead
    <2>4. ReadOK'
      BY <1>1, <1>2, <2>1, <2>2 DEF ReadOK
    <2> QED
      BY <1>1, <1>2, <1>4, <2>1, <2>2, <2>3, <2>4 DEF ReadInv
  <1> QED
    BY <1>3, <1>4

LEMMA LoopAppends ==
    ASSUME ReadOK, ReadInv, NEW m \in 1..MaxArrivals, m = Len(delivered) + Len(messages) + 1,
           messages' = Append(messages, m), delivered' = delivered, last' = None
    PROVE  /\ messages' \in Seq(1..MaxArrivals) /\ NRead' = m
           /\ \A i \in 1..Len(messages') : messages'[i] = Len(delivered') + i
  <1>1. /\ messages' \in Seq(1..MaxArrivals) /\ Len(messages') = Len(messages) + 1
        /\ messages'[Len(messages) + 1] = m
        /\ \A i \in 1..Len(messages) : messages'[i] = messages[i]
        /\ Len(messages) \in Nat /\ Len(delivered) \in Nat
    BY AppendProperties, LenProperties DEF ReadOK
  <1>2. \A i \in 1..(Len(messages) + 1) : i \in 1..Len(messages) \/ i = Len(messages) + 1
    BY <1>1
  <1>3. \A i \in 1..(Len(messages) + 1) : messages'[i] = Len(delivered) + i
    <2>1. \A i \in 1..Len(messages) : messages'[i] = Len(delivered) + i
      BY <1>1 DEF ReadInv
    <2>2. messages'[Len(messages) + 1] = Len(delivered) + (Len(messages) + 1)
      BY <1>1
    <2> QED
      BY <1>2, <2>1, <2>2
  <1>4. NRead' = Len(delivered) + (Len(messages) + 1) + 0
    BY <1>1 DEF NRead, Ahead
  <1> QED
    BY <1>1, <1>3, <1>4

LEMMA LoopReads ==
    ASSUME ReadOK, ReadInv, ReadLast \/ ReadNext PROVE ReadOK' /\ ReadInv'
  <1>1. /\ reading /\ ready' = FALSE /\ UNCHANGED <<reading, delivered, arrived, sendData>>
        /\ sendData = "idle" /\ last' = None
    BY DEF ReadLast, ReadNext, MarkRead, ForgetLast, sendVars, ReadInv
  <1>2. CASE ReadLast
    <2>1. last # None /\ messages' = Append(messages, last) /\ queue' = queue
      BY <1>2 DEF ReadLast
    <2>2. last \in 1..MaxArrivals /\ last = NRead /\ last = Len(delivered) + Len(messages) + 1
      BY <2>1 DEF ReadOK, ReadInv, NRead, Ahead
    <2>3. /\ messages' \in Seq(1..MaxArrivals) /\ NRead' = last
          /\ \A i \in 1..Len(messages') : messages'[i] = Len(delivered') + i
      BY <1>1, <2>1, <2>2, LoopAppends
    <2>4. ReadOK'
      BY <1>1, <2>1, <2>3 DEF ReadOK
    <2> QED
      BY <1>1, <2>1, <2>2, <2>3, <2>4 DEF ReadInv
  <1>3. CASE ReadNext
    <2>1. /\ last = None /\ queue # <<>> /\ Head(queue) # Status
          /\ messages' = Append(messages, Head(queue)) /\ queue' = Tail(queue)
      BY <1>3 DEF ReadNext
    <2>2. /\ queue' \in Queues /\ Head(queue) \in 0..MaxArrivals
          /\ Head(queue) = NRead + 1 /\ NRead + 1 <= arrived
          /\ Holds(queue', NRead + 1, arrived)
      BY <2>1, HoldsTail, ReadTypes DEF ReadInv, ReadOK
    <2>3. Head(queue) \in 1..MaxArrivals /\ Head(queue) = Len(delivered) + Len(messages) + 1
      BY <2>1, <2>2, ReadTypes DEF NRead, Ahead
    <2>4. /\ messages' \in Seq(1..MaxArrivals) /\ NRead' = Head(queue)
          /\ \A i \in 1..Len(messages') : messages'[i] = Len(delivered') + i
      BY <1>1, <2>1, <2>3, LoopAppends
    <2>5. ReadOK'
      BY <1>1, <2>2, <2>4 DEF ReadOK
    <2> QED
      BY <1>1, <2>2, <2>4, <2>5 DEF ReadInv
  <1> QED
    BY <1>2, <1>3

LEMMA LoopEnds ==
    ASSUME ReadOK, ReadInv, ReadNothing PROVE ReadOK' /\ ReadInv'
  <1>1. /\ last = None /\ last' = None /\ ready' = FALSE /\ reading' = FALSE
        /\ delivered' = delivered \o messages /\ messages' = <<>>
        /\ arrived' = arrived
        /\ \/ queue # <<>> /\ Head(queue) = Status /\ queue' = Tail(queue)
           \/ queue' = queue
    BY DEF ReadNothing, MarkRead
  <1>2. /\ delivered \in Seq(1..MaxArrivals) /\ messages \in Seq(1..MaxArrivals)
        /\ Len(delivered) \in Nat /\ Len(messages) \in Nat
    BY ReadTypes DEF ReadOK
  <1>3. /\ delivered' \in Seq(1..MaxArrivals) /\ Len(delivered') = Len(delivered) + Len(messages)
        /\ \A i \in 1..Len(delivered') :
              delivered'[i] = IF i <= Len(delivered) THEN delivered[i] ELSE messages[i - Len(delivered)]
    BY <1>1, <1>2, ConcatProperties
  <1>4. \A i \in 1..Len(delivered') : delivered'[i] = i
    <2> SUFFICES ASSUME NEW i \in 1..(Len(delivered) + Len(messages)) PROVE delivered'[i] = i
      BY <1>3
    <2>1. CASE i <= Len(delivered)
      <3>1. i \in 1..Len(delivered)
        BY <1>2, <2>1
      <3> QED
        BY <1>3, <2>1, <3>1 DEF ReadInv
    <2>2. CASE ~(i <= Len(delivered))
      <3>1. i - Len(delivered) \in 1..Len(messages) /\ Len(delivered) + (i - Len(delivered)) = i
        BY <1>2, <2>2
      <3> QED
        BY <1>3, <2>2, <3>1 DEF ReadInv
    <2> QED
      BY <2>1, <2>2
  <1>5. <<>> \in Seq(1..MaxArrivals) /\ Len(<<>>) = 0
    BY EmptySeq
  <1>6. NRead' = NRead
    BY <1>1, <1>2, <1>3, <1>5 DEF NRead, Ahead
  <1>7. queue' \in Queues /\ Holds(queue', NRead, arrived)
    BY <1>1, HoldsTail, ReadTypes DEF ReadInv, ReadOK
  <1>8. ReadOK'
    BY <1>1, <1>3, <1>5, <1>7 DEF ReadOK
  <1> QED
    BY <1>1, <1>4, <1>5, <1>6, <1>7, <1>8 DEF ReadInv
LEMMA ReadInit == ASSUME Init PROVE ReadOK /\ ReadInv
  <1>1. /\ queue = <<>> /\ last = None /\ ready = FALSE /\ reading = FALSE
        /\ messages = <<>> /\ delivered = <<>> /\ arrived = 0
    BY DEF Init
  <1>2. /\ <<>> \in Queues /\ <<>> \in Seq(1..MaxArrivals) /\ Len(<<>>) = 0
        /\ 0 \in 0..MaxArrivals
    BY EmptySeq, CanAssumption DEF Queues
  <1>3. NRead = 0
    BY <1>1, <1>2 DEF NRead, Ahead
  <1>4. Holds(queue, NRead, arrived)
    BY <1>1, <1>3, HoldsNothing
  <1>5. ReadOK
    BY <1>1, <1>2 DEF ReadOK
  <1> QED
    BY <1>1, <1>2, <1>3, <1>4, <1>5 DEF ReadInv

LEMMA ReadStep == ASSUME ReadOK, ReadInv, [Next]_vars PROVE ReadOK' /\ ReadInv'
  <1>1. ASSUME UNCHANGED readVars, reading => sendData' = "idle" PROVE ReadOK' /\ ReadInv'
    BY <1>1 DEF readVars, ReadOK, ReadInv, NRead, Ahead
  <1>2. ASSUME NEW fd \in BOOLEAN, NEW n \in Lengths, Send(fd, n) PROVE ReadOK' /\ ReadInv'
    BY <1>1, <1>2 DEF Send, InEventLoop
  <1>3. CASE Written \/ QueueIsFull \/ WriteFails \/ Return
    BY <1>1, <1>3 DEF Written, QueueIsFull, WriteFails, Return, ReadInv
  <1>4. CASE Restart
    BY <1>1, <1>4, FreshReads DEF Restart, ReadInv
  <1>5. CASE Open
    BY <1>5, FreshReads DEF Open, InEventLoop
  <1>6. CASE Close
    BY <1>1, <1>6 DEF Close, InEventLoop
  <1>7. CASE UNCHANGED vars
    BY <1>1, <1>7 DEF vars, sendVars, ReadInv
  <1>8. CASE ReceiveFails
    BY <1>8 DEF ReceiveFails, InEventLoop, sendVars, ReadOK, ReadInv, NRead, Ahead
  <1> QED
    BY <1>2, <1>3, <1>4, <1>5, <1>6, <1>7, <1>8, ArriveReads, TimerReads, LoopReads, LoopEnds
       DEF Next

LEMMA ReceivedIs ==
    ASSUME ReadOK, ReadInv
    PROVE  Len(Received) = NRead /\ \A i \in 1..NRead : Received[i] = i
  <1>1. PICK tail \in Seq(1..MaxArrivals) :
            /\ tail = IF last = None THEN <<>> ELSE <<last>>
            /\ Len(tail) = Ahead /\ (Ahead = 1 => tail[1] = NRead)
    <2>1. PICK t : t = IF last = None THEN <<>> ELSE <<last>>
      OBVIOUS
    <2>2. CASE last = None
      <3>1. t = <<>> /\ Ahead = 0
        BY <2>1, <2>2 DEF Ahead
      <3>2. t \in Seq(1..MaxArrivals) /\ Len(t) = 0
        BY <3>1, EmptySeq
      <3> QED
        BY <2>1, <3>1, <3>2
    <2>3. CASE last # None
      <3>1. t = <<last>> /\ Ahead = 1
        BY <2>1, <2>3 DEF Ahead
      <3>2. last \in 1..MaxArrivals /\ last = NRead
        BY <2>3 DEF ReadOK, ReadInv
      <3>3. t \in Seq(1..MaxArrivals) /\ Len(t) = 1 /\ t[1] = last
        BY <3>1, <3>2
      <3> QED
        BY <2>1, <3>1, <3>2, <3>3
    <2> QED
      BY <2>2, <2>3
  <1>2. PICK both \in Seq(1..MaxArrivals) :
            /\ both = delivered \o messages /\ Len(both) = Len(delivered) + Len(messages)
            /\ \A i \in 1..Len(both) : both[i] = i
    <2>1. /\ delivered \in Seq(1..MaxArrivals) /\ messages \in Seq(1..MaxArrivals)
          /\ Len(delivered) \in Nat /\ Len(messages) \in Nat
      BY ReadTypes DEF ReadOK
    <2>2. PICK both : both = delivered \o messages
      OBVIOUS
    <2>3. /\ both \in Seq(1..MaxArrivals) /\ Len(both) = Len(delivered) + Len(messages)
          /\ \A i \in 1..Len(both) :
                both[i] = IF i <= Len(delivered) THEN delivered[i] ELSE messages[i - Len(delivered)]
      BY <2>1, <2>2, ConcatProperties
    <2>4. ASSUME NEW i \in 1..(Len(delivered) + Len(messages)) PROVE both[i] = i
      <3>1. CASE i <= Len(delivered)
        <4>1. i \in 1..Len(delivered)
          BY <2>1, <3>1
        <4> QED
          BY <2>3, <3>1, <4>1 DEF ReadInv
      <3>2. CASE ~(i <= Len(delivered))
        <4>1. i - Len(delivered) \in 1..Len(messages) /\ Len(delivered) + (i - Len(delivered)) = i
          BY <2>1, <3>2
        <4> QED
          BY <2>3, <3>2, <4>1 DEF ReadInv
      <3> QED
        BY <3>1, <3>2
    <2> QED
      BY <2>2, <2>3, <2>4
  <1>3. PICK all : all = both \o tail
    OBVIOUS
  <1>4. /\ Len(all) = Len(both) + Len(tail) /\ Len(both) \in Nat
        /\ \A i \in 1..Len(all) : all[i] = IF i <= Len(both) THEN both[i] ELSE tail[i - Len(both)]
    BY <1>3, ConcatProperties, LenProperties
  <1>5. Len(all) = NRead
    BY <1>1, <1>2, <1>4 DEF NRead
  <1>6. ASSUME NEW i \in 1..NRead PROVE all[i] = i
    <2>1. CASE i <= Len(both)
      <3>1. i \in 1..Len(both)
        BY <1>4, <2>1
      <3> QED
        BY <1>2, <1>4, <1>5, <2>1, <3>1
    <2>2. CASE ~(i <= Len(both))
      <3>1. Ahead = 1 /\ i = NRead /\ i - Len(both) = 1
        BY <1>2, <1>4, <2>2, ReadTypes DEF NRead
      <3> QED
        BY <1>1, <1>4, <1>5, <2>2, <3>1
    <2> QED
      BY <2>1, <2>2
  <1>7. all = Received
    BY <1>1, <1>2, <1>3 DEF Received
  <1> QED
    BY <1>5, <1>6, <1>7
-----------------------------------------------------------------------------
(***************************************************************************)
(* Why sendData and the reception do not get stuck.                        *)
(***************************************************************************)

\* While sendData goes on, each step takes bytes off what is left, or is one more
\* of a bounded number of tries.
Progress ==
    sendData = "writing" /\ sendData' = "writing" /\ send' # send =>
        /\ Left' \in Nat
        /\ \/ Left' < Left
           \/ Left' = Left /\ send.errors < send'.errors /\ send'.errors < MaxSendError

LEMMA SendProgresses == ASSUME SendOK, SendInv, [Next]_vars PROVE Progress
  <1> SUFFICES ASSUME sendData = "writing", sendData' = "writing", send' # send
               PROVE  /\ Left' \in Nat
                      /\ \/ Left' < Left
                         \/ /\ Left' = Left
                            /\ send.errors < send'.errors /\ send'.errors < MaxSendError
    BY DEF Progress
  <1>1. /\ send.length \in Nat /\ send.at \in Nat /\ send.at <= send.length /\ Left \in Nat
        /\ Left = send.length - send.at /\ send.errors \in 0..MaxSendError
    BY SendTypes DEF SendInv, Left
  <1>2. CASE Written
    <2>1. PICK n : n = NextLength(send.fd, Left)
      OBVIOUS
    <2>2. n \in Nat /\ n <= Left /\ (Left > 0 => n > 0)
      BY <1>1, <2>1, FrameSize, SendTypes DEF SendOK
    <2>3. send' = [send EXCEPT !.at = send.at + n, !.errors = 0]
      BY <1>2, <2>1 DEF Written, Advance
    <2>4. send'.at = send.at + n /\ send'.length = send.length
      BY <2>3 DEF SendOK, Sends
    <2>5. send'.at # send.length
      BY <1>2 DEF Written
    \* So something was left, and the frame is not an empty one.
    <2>6. Left' = Left - n /\ n > 0
      BY <1>1, <2>2, <2>4, <2>5 DEF Left
    <2> QED
      BY <1>1, <2>2, <2>6
  <1>3. CASE QueueIsFull
    <2>1. Count < MaxSendError /\ send' = [send EXCEPT !.errors = Count]
      BY <1>3 DEF QueueIsFull
    <2>2. send'.errors = send.errors + 1 /\ send'.at = send.at /\ send'.length = send.length
      BY <2>1 DEF SendOK, Sends, Count
    <2> QED
      BY <1>1, <2>1, <2>2, CanAssumption DEF Left, Count
  <1>4. CASE Open \/ Close \/ \E fd \in BOOLEAN, n \in Lengths : Send(fd, n)
    BY <1>4 DEF Open, Close, Send, InEventLoop
  <1>5. CASE WriteFails \/ Restart \/ Return
    BY <1>5 DEF WriteFails, Restart, Return
  <1>6. CASE Arrive \/ ArriveStatus \/ ReceiveTimer \/ ReceiveFails \/ ReadLast \/ ReadNext \/ ReadNothing
    BY <1>6 DEF Arrive, ArriveStatus, ReceiveTimer, ReceiveFails, ReadLast, ReadNext, ReadNothing, sendVars
  <1>7. CASE UNCHANGED vars
    BY <1>7 DEF vars, sendVars
  <1> QED
    BY <1>2, <1>3, <1>4, <1>5, <1>6, <1>7 DEF Next

\* The mark that a message is ready is there only until the loop reads it.
ReadyInv == ready => reading

LEMMA ReadyStep == ASSUME ReadOK, ReadInv, ReadyInv, [Next]_vars PROVE ReadyInv'
  <1>1. CASE Open
    BY <1>1 DEF Open, Fresh, ReadyInv
  <1>2. CASE Restart
    BY <1>2 DEF Restart, Fresh, readVars, ReadyInv
  <1>3. CASE Close \/ Written \/ QueueIsFull \/ WriteFails \/ Return
             \/ \E fd \in BOOLEAN, n \in Lengths : Send(fd, n)
    BY <1>3 DEF Close, Written, QueueIsFull, WriteFails, Return, Send, readVars, ReadyInv
  <1>4. CASE Arrive \/ ArriveStatus
    BY <1>4 DEF Arrive, ArriveStatus, ReadyInv
  <1>5. CASE ReceiveTimer
    BY <1>5 DEF ReceiveTimer, ReadyInv
  <1>6. CASE ReadLast \/ ReadNext \/ ReadNothing
    BY <1>6 DEF ReadLast, ReadNext, ReadNothing, MarkRead, ReadyInv
  <1>7. CASE UNCHANGED vars
    BY <1>7 DEF vars, readVars, ReadyInv
  <1>8. CASE ReceiveFails
    BY <1>8 DEF ReceiveFails, ReadyInv
  <1> QED
    BY <1>1, <1>2, <1>3, <1>4, <1>5, <1>6, <1>7, <1>8 DEF Next

\* In the event loop the timer finds no mark of an earlier message, and the loop's
\* bound on its messages is not reached.
ReadGoesOn ==
    /\ InEventLoop => ~ready
    /\ reading => Len(messages) <= MaxArrivals
-----------------------------------------------------------------------------
(***************************************************************************)
(* The theorems                                                            *)
(***************************************************************************)
LEMMA Always == Spec => [](SendOK /\ SendInv /\ ReadOK /\ ReadInv)
  <1> DEFINE I == SendOK /\ SendInv /\ ReadOK /\ ReadInv
  <1>1. Init => I
    BY SendInit, ReadInit
  <1>2. I /\ [Next]_vars => I'
    BY SendStep, ReadStep
  <1> QED
    BY <1>1, <1>2, PTL DEF Spec

\* Every variable keeps its type: a send stays within its message and its
\* retries, a frame has a DLC of the driver.
THEOREM TypeCorrect == Spec => []TypeOK
  <1>1. SendOK /\ ReadOK => TypeOK
    BY DEF SendOK, ReadOK, TypeOK, Queues
  <1> QED
    BY <1>1, Always, PTL

\* The frames of a message are its bytes, one after the other, in sizes their
\* DLCs say, and all of it when the send succeeds.
THEOREM WireMessage == Spec => []WireIsMessage
  <1>1. ASSUME SendOK, SendInv PROVE WireIsMessage
    <2>1. \A i \in 1..Len(frames) :
            Fits => /\ frames[i].first = (IF i = 1 THEN 1 ELSE frames[i - 1].last + 1)
                    /\ DataLength(frames[i].dlc) = frames[i].last - frames[i].first + 1
      BY <1>1 DEF SendInv, Contiguous
    <2>2. sendData = "ok" => frames # <<>> /\ Last(frames).last = send.length
      BY <1>1 DEF SendInv, EndsAt, Last
    <2> QED
      BY <2>1, <2>2 DEF WireIsMessage
  <1> QED
    BY <1>1, Always, PTL

\* What the timer and the loop have read is a prefix of what was received, and the
\* driver's queue holds the rest in order.
THEOREM NoMessageLost == Spec => []NothingLost
  <1>1. ASSUME ReadOK, ReadInv PROVE NothingLost
    <2>1. Holds(queue, NRead, arrived)
      BY <1>1 DEF ReadInv
    <2>2. Len(Received) = NRead /\ \A i \in 1..NRead : Received[i] = i
      BY <1>1, ReceivedIs
    <2> QED
      BY <2>1, <2>2 DEF NothingLost, Holds
  <1> QED
    BY <1>1, Always, PTL

(***************************************************************************)
(* sendData ends: the bytes that are left get fewer with every frame, also *)
(* where their number is adjusted to one a DLC can express, and between    *)
(* two frames there are fewer than MAX_SEND_ERROR tries.                   *)
(***************************************************************************)
THEOREM SendMakesProgress == Spec => [][Progress]_vars
  <1>1. SendOK /\ SendInv /\ [Next]_vars => [Progress]_vars
    BY SendProgresses
  <1> QED
    BY <1>1, Always, PTL DEF Spec

(***************************************************************************)
(* The mark m_dataReadyForRead, which keeps the timer from reading, is     *)
(* never left behind: not by a restart of the interface, nor by a loop     *)
(* that a status message ends.                                             *)
(***************************************************************************)
THEOREM ReceptionGoesOn == Spec => []ReadGoesOn
  <1>1. Init => ReadyInv
    BY DEF Init, ReadyInv
  <1>2. ReadOK /\ ReadInv /\ ReadyInv /\ [Next]_vars => ReadyInv'
    BY ReadyStep
  <1>3. ASSUME ReadOK, ReadInv, ReadyInv PROVE ReadGoesOn
    <2>1. Len(messages) <= NRead /\ NRead <= arrived /\ arrived <= MaxArrivals
      BY <1>3, ReadTypes, CanAssumption DEF ReadInv, NRead
    <2>2. Len(messages) <= MaxArrivals
      BY <1>3, <2>1, ReadTypes, CanAssumption
    <2> QED
      BY <1>3, <2>2 DEF ReadGoesOn, ReadyInv, InEventLoop
  <1> QED
    BY <1>1, <1>2, <1>3, Always, PTL DEF Spec
=============================================================================

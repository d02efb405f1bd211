--------------------------- MODULE ConsoleBuffer ---------------------------
(***************************************************************************)
(* From the data that are sent and received to the consoles and the log    *)
(* (mainwindowHandleData.cpp).  Data are collected (fresh, log) until a    *)
(* timer expires, then shown and stored; what is stored fills the consoles *)
(* again when their settings change.  Both buffers are limited by counters *)
(* of bytes.                                                               *)
(*                                                                         *)
(* A byte is its number in the order of arrival.  Time stamps and new      *)
(* lines stand among the bytes, and count as one byte.  How data are       *)
(* formatted, and the boundaries of the pieces they are stored in, are     *)
(* left out, as are the meta data of CAN and I2C messages.                 *)
(***************************************************************************)
EXTENDS Integers, Sequences, SequencesExt, FiniteSets

CONSTANTS
    Shown,         \* directions shown in the consoles (showReceivedDataInConsole ...)
    Logged,        \* directions written to the log (writeReceivedDataInToLog ...)
    MaxChars,      \* maxCharsInConsole
    LineBytes,     \* consoleNewLineAfterBytes
    BreakBytes,    \* bytes equal to consoleNewLineAt
    StampBytes,    \* bytes equal to consoleTimestampAt
    Sizes,         \* bound: sizes of messages
    MaxBytes       \* bound: bytes that arrive

Dirs == {"received", "sent"}

ASSUME ConsoleAssumption ==
    /\ Shown \subseteq Dirs /\ Logged \subseteq Dirs
    /\ MaxChars \in Nat \ {0} /\ LineBytes \in Nat \ {0} /\ MaxBytes \in Nat
    /\ BreakBytes \subseteq Nat \ {0} /\ StampBytes \subseteq Nat \ {0}
    /\ Sizes \subseteq Nat \ {0}

\* What stands among the bytes.  The time stamp of a user's message has the type
\* of the message, and is split into lines like one.
NewLine == 0
Stamp == -1
MessageStamp == -2
LineMarks == {NewLine, Stamp}
Marks == LineMarks \cup {MessageStamp}

VARIABLES
    splitLines,    \* the setting consoleNewLineAfterBytes is not 0
    \* MainWindowHandleData
    fresh,         \* m_unprocessedConsoleData
    clearFirst,    \* ... begins with STORED_DATA_CLEAR_ALL_STANDARD_CONSOLES
    freshBytes,    \* m_bytesInUnprocessedConsoleData
    stored,        \* m_storedConsoleData
    storedBytes,   \* m_bytesInStoredConsoleData
    sinceLine,     \* m_bytesSinceLastNewLineInConsole
    stampNext,     \* createTimeStampOnNextCall
    log,           \* m_unprocessedLogData
    timer,         \* m_updateConsoleAndLogTimer is active
    noConsoleVisible, \* m_noConsoleVisible
    refillDue,     \* inititializeTab sets up the consoles and will fill them
    \* what the user sees
    console,       \* shown since the console was last emptied
    \* what happened
    arrived,       \* bytes that arrived
    taken,         \* those for the consoles since clear()
    messages,      \* bytes consoleTimestampAt in the user's own messages
    refilled       \* the consoles were set up or filled again

vars == <<splitLines, fresh, clearFirst, freshBytes, stored, storedBytes, sinceLine,
          stampNext, log, timer, noConsoleVisible, refillDue, console, arrived, taken,
          messages, refilled>>

Init ==
    /\ splitLines \in BOOLEAN
    /\ fresh = <<>> /\ clearFirst = FALSE /\ freshBytes = 0
    /\ stored = <<>> /\ storedBytes = 0
    /\ sinceLine = 0 /\ stampNext = FALSE
    /\ log = <<>> /\ timer = FALSE
    /\ noConsoleVisible = FALSE /\ refillDue = FALSE
    /\ console = <<>>
    /\ arrived = 0 /\ taken = {} /\ messages = {} /\ refilled = FALSE
-----------------------------------------------------------------------------
IsByte(x) == x \notin Marks

(***************************************************************************)
(* appendUnprocessConsoleData.                                             *)
(***************************************************************************)
\* Data without special bytes are appended as they are.  Otherwise each byte
\* consoleNewLineAt is followed by a new line, ...
WithBreaks(data) ==
    LET Piece(i) == IF data[i] \in BreakBytes THEN <<data[i], NewLine>> ELSE <<data[i]>>
    IN FlattenSeq([i \in 1..Len(data) |-> Piece(i)])

\* ... or each byte consoleTimestampAt by a time stamp: the last one by the next
\* message's.  (Such a byte is only kept when others precede it.)
WithStamps(data) ==
    LET Kept(i) == data[i] \notin StampBytes \/ (i > 1 /\ data[i - 1] \notin StampBytes)
        Piece(i) == (IF Kept(i) THEN <<data[i]>> ELSE <<>>)
                    \o (IF data[i] \in StampBytes /\ i < Len(data) THEN <<Stamp>> ELSE <<>>)
    IN FlattenSeq([i \in 1..Len(data) |-> Piece(i)])

Where(data, bytes) == {i \in 1..Len(data) : data[i] \in bytes}
Has(data, bytes) == Where(data, bytes) # {}

\* Mutant of EndsWithStamp: the stamp after the last byte is forgotten.
NeverAtEnd(data) == FALSE

EndsWithStamp(data) == data[Len(data)] \in StampBytes

\* What a message adds.  Messages of the user are not searched; a stamp may be
\* due, or a new line after a pause.
Formatted(data, isUserMessage, stampDue, pause) ==
    LET stamp == IF isUserMessage THEN MessageStamp ELSE Stamp IN
    (IF stampNext THEN <<stamp>> ELSE <<>>)
    \o IF Has(data, StampBytes) /\ ~isUserMessage THEN WithStamps(data)
       ELSE (IF stampDue THEN <<stamp>> ELSE <<>>)
            \o IF Has(data, BreakBytes) /\ ~isUserMessage THEN WithBreaks(data)
               ELSE (IF pause THEN <<NewLine>> ELSE <<>>) \o data

\* What is added to m_bytesInUnprocessedConsoleData meanwhile.  With new lines:
\* the parts between the bytes consoleNewLineAt, these, and the new lines.
CountedBreaks(data) ==
    LET breaks == Cardinality(Where(data, BreakBytes))
    IN (Len(data) - breaks) + breaks + breaks

\* With time stamps: the parts between the bytes consoleTimestampAt, these where
\* they follow a part, and the stamps.
CountedStamps(data) ==
    LET at == Where(data, StampBytes)
    IN (Len(data) - Cardinality(at))
       + Cardinality({i \in at : i > 1 /\ i - 1 \notin at})
       + Cardinality(at \ {Len(data)})

\* Mutant of Counted: bytes put back before a new line are not counted.
CountedWithoutBreaks(data, isUserMessage, stampDue, pause) ==
    (IF stampNext THEN 1 ELSE 0)
    + IF Has(data, StampBytes) /\ ~isUserMessage THEN CountedStamps(data)
      ELSE (IF stampDue THEN 1 ELSE 0) + (IF pause THEN 1 ELSE 0) + Len(data)

Counted(data, isUserMessage, stampDue, pause) ==
    (IF stampNext THEN 1 ELSE 0)
    + IF Has(data, StampBytes) /\ ~isUserMessage THEN CountedStamps(data)
      ELSE (IF stampDue THEN 1 ELSE 0)
           + IF Has(data, BreakBytes) /\ ~isUserMessage THEN CountedBreaks(data)
             ELSE (IF pause THEN 1 ELSE 0) + Len(data)

StampStillDue(data, isUserMessage) ==
    Has(data, StampBytes) /\ ~isUserMessage /\ EndsWithStamp(data)
-----------------------------------------------------------------------------
(***************************************************************************)
(* appendDataToStoredData.                                                 *)
(***************************************************************************)
\* Mutant of Cut: one byte too many goes.
CutOneMore(s, bytes, limit) == SubSeq(s, bytes - limit + 2, Len(s))

\* The while loop: pieces go, and the front of one, until limit bytes are left.
Cut(s, bytes, limit) == SubSeq(s, bytes - limit + 1, Len(s))

\* Too much came since the timer expired: the consoles will be cleared.
Overflow(s, bytes) ==
    /\ fresh' = Cut(s, bytes, MaxChars) /\ clearFirst' = TRUE
    /\ freshBytes' = MaxChars

Collect(data, isUserMessage) ==
    \E stampDue \in BOOLEAN, pause \in BOOLEAN :
        LET added == Formatted(data, isUserMessage, stampDue, pause)
            bytes == freshBytes + Counted(data, isUserMessage, stampDue, pause)
        IN /\ stampNext' = StampStillDue(data, isUserMessage)
           /\ IF bytes > MaxChars THEN Overflow(fresh \o added, bytes)
              ELSE fresh' = fresh \o added /\ freshBytes' = bytes /\ UNCHANGED clearFirst

\* A message is sent or received, or added by the user.
Arrive(n, d, isUserMessage) ==
    LET data == [i \in 1..n |-> arrived + i]
        shown == isUserMessage \/ d \in Shown
    IN /\ arrived + n <= MaxBytes /\ arrived' = arrived + n
       /\ messages' = messages \cup IF isUserMessage THEN ToSet(data) \cap StampBytes ELSE {}
       /\ IF isUserMessage \/ d \in Logged
          THEN log' = log \o data
          ELSE UNCHANGED log
       /\ IF shown /\ ~noConsoleVisible
          THEN Collect(data, isUserMessage) /\ taken' = taken \cup ToSet(data)
          ELSE UNCHANGED <<fresh, clearFirst, freshBytes, stampNext, taken>>
       /\ timer' = (timer \/ shown)
       /\ UNCHANGED <<splitLines, stored, storedBytes, sinceLine, noConsoleVisible, refillDue,
                      console, refilled>>
-----------------------------------------------------------------------------
(***************************************************************************)
(* updateConsoleAndLog.                                                    *)
(***************************************************************************)
\* Mutant of EndsLine: one byte late.
EndsLineLate(n) == n >= LineBytes + 1

\* After n bytes a line ends.
EndsLine(n) == n >= LineBytes

\* m_bytesSinceLastNewLineInConsole after one element.  New lines and time stamps
\* reset it, but count at a high data rate: a new line may then be due before the
\* next byte.
Column(n, x, highRate) ==
    LET first == IF EndsLine(n) THEN 0 ELSE n
    IN IF x \in LineMarks THEN IF highRate THEN n + 1 ELSE 0
       ELSE IF EndsLine(first + 1) THEN 0 ELSE first + 1

\* ... and before and after each element of what is fresh
Columns(since, highRate) ==
    LET column[i \in 0..Len(fresh)] ==
            IF i = 0 THEN since ELSE Column(column[i - 1], fresh[i], highRate)
    IN column

\* processDataInStoredData: what is fresh, with the new lines after LineBytes
\* bytes, before and after a byte.
WithLines(since, highRate) ==
    LET column == Columns(since, highRate)
        Line(i, due) == IF splitLines /\ fresh[i] \notin LineMarks /\ due
                        THEN <<NewLine>> ELSE <<>>
        Piece(i) == Line(i, EndsLine(column[i - 1])) \o <<fresh[i]>> \o Line(i, column[i] = 0)
    IN FlattenSeq([i \in 1..Len(fresh) |-> Piece(i)])

\* STORED_DATA_CLEAR_ALL_STANDARD_CONSOLES empties the consoles and what is
\* stored.
Emptied == [shown |-> <<>>, stored |-> <<>>, bytes |-> 0]

Before(s) == IF clearFirst THEN Emptied
             ELSE [shown |-> s, stored |-> stored, bytes |-> storedBytes]

\* Mutant of Limit: the counter is compared, but not set.
LimitUncounted(s, bytes) ==
    IF bytes > MaxChars + MaxChars \div 5
    THEN stored' = Cut(s, bytes, MaxChars) /\ storedBytes' = bytes
    ELSE stored' = s /\ storedBytes' = bytes

\* m_storedConsoleData is cut when it is a fifth too long.
Limit(s, bytes) ==
    IF bytes > MaxChars + MaxChars \div 5
    THEN stored' = Cut(s, bytes, MaxChars) /\ storedBytes' = MaxChars
    ELSE stored' = s /\ storedBytes' = bytes

\* What comes to the consoles.
Displayed(items) == IF noConsoleVisible THEN <<>> ELSE items

\* The consoles show filled, and then what is fresh.
Update(filled, since, highRate) ==
    LET before == Before(filled)
        items == WithLines(since, highRate)
    IN /\ Limit(before.stored \o items, before.bytes + Len(items))
       /\ console' = before.shown \o Displayed(items)
       /\ sinceLine' = IF splitLines THEN Columns(since, highRate)[Len(fresh)] ELSE 0
       /\ fresh' = <<>> /\ clearFirst' = FALSE /\ freshBytes' = 0
       /\ log' = <<>>
       /\ timer' = FALSE

TimerExpires ==
    /\ timer
    /\ \E highRate \in BOOLEAN : Update(console, sinceLine, highRate)
    /\ UNCHANGED <<splitLines, stampNext, noConsoleVisible, refillDue, arrived, taken,
                   messages, refilled>>

\* inititializeTab: other consoles are shown, or none.  It runs the event loop ...
SetUp ==
    /\ noConsoleVisible' \in BOOLEAN
    /\ refillDue' = TRUE /\ refilled' = TRUE
    /\ UNCHANGED <<splitLines, fresh, clearFirst, freshBytes, stored, storedBytes, sinceLine,
                   stampNext, log, timer, console, arrived, taken, messages>>

\* ... and calls reInsertDataInConsole.
Refill ==
    /\ refillDue /\ refillDue' = FALSE
    /\ \E highRate \in BOOLEAN : Update(Displayed(stored), 0, highRate)
    /\ UNCHANGED <<splitLines, stampNext, noConsoleVisible, arrived, taken, messages, refilled>>

\* reInsertDataInMixecConsoleSlot: the mixed console, when the window is resized
RefillMixed ==
    /\ ~noConsoleVisible
    /\ console' = stored
    /\ refilled' = TRUE
    /\ UNCHANGED <<splitLines, fresh, clearFirst, freshBytes, stored, storedBytes, sinceLine,
                   stampNext, log, timer, noConsoleVisible, refillDue, arrived, taken, messages>>

\* MainWindow::clearConsoleSlot and clear()
ClearConsole ==
    /\ fresh' = <<>> /\ clearFirst' = FALSE /\ freshBytes' = 0
    /\ stored' = <<>> /\ storedBytes' = 0
    /\ sinceLine' = 0
    /\ console' = <<>> /\ taken' = {}
    /\ UNCHANGED <<splitLines, stampNext, log, timer, noConsoleVisible, refillDue, arrived,
                   messages, refilled>>

Next ==
    \/ \E n \in Sizes : (\E d \in Dirs : Arrive(n, d, FALSE)) \/ Arrive(n, "sent", TRUE)
    \/ TimerExpires \/ SetUp \/ Refill \/ RefillMixed \/ ClearConsole

Spec == Init /\ [][Next]_vars
-----------------------------------------------------------------------------
Items == Marks \cup 1..MaxBytes

TypeOK ==
    /\ splitLines \in BOOLEAN /\ clearFirst \in BOOLEAN
    /\ fresh \in Seq(Items) /\ stored \in Seq(Items) /\ console \in Seq(Items)
    /\ log \in Seq(1..MaxBytes)
    /\ freshBytes \in 0..MaxChars /\ storedBytes \in Nat
    /\ sinceLine \in Nat
    /\ stampNext \in BOOLEAN /\ timer \in BOOLEAN /\ refilled \in BOOLEAN
    /\ noConsoleVisible \in BOOLEAN /\ refillDue \in BOOLEAN
    /\ arrived \in 0..MaxBytes
    /\ taken \subseteq 1..arrived
    /\ messages \subseteq StampBytes

\* What is kept: the consoles would show it if they were filled again now.
Kept == IF clearFirst THEN fresh ELSE stored \o fresh

(***************************************************************************)
(* The counters that limit the buffers are the sizes of the buffers.  They *)
(* are counted piece by piece as data are formatted, cut, shown and        *)
(* cleared, and cutting relies on them (it would run over the end of the   *)
(* buffer, or never end).                                                  *)
(***************************************************************************)
CountersAreSizes == freshBytes = Len(fresh) /\ storedBytes = Len(stored)

\* The bytes are in the order in which they arrived, each once, ...
InOrder(s) ==
    \A i, j \in 1..Len(s) : i < j /\ IsByte(s[i]) /\ IsByte(s[j]) => s[i] < s[j]

\* ... and none of all is missing after one of them.
NoGaps(s, all) ==
    \A b \in ToSet(s) : IsByte(b) => \A c \in all : b <= c => c \in ToSet(s)

(***************************************************************************)
(* What is kept for the consoles is the end of what arrived while one was  *)
(* visible, in its order, without gaps, however buffers overflow and are   *)
(* cut, cleared and shown: all of it, or as much as maxCharsInConsole      *)
(* allows.  (Except for bytes consoleTimestampAt, which may get lost.)     *)
(***************************************************************************)
KeepsTheEnd ==
    LET searched == taken \ StampBytes IN
    /\ \A b \in ToSet(Kept) : IsByte(b) => b \in taken
    /\ InOrder(Kept)
    /\ NoGaps(Kept, searched)
    /\ searched \subseteq ToSet(Kept) \/ Len(Kept) >= MaxChars
    /\ Len(stored) <= MaxChars + MaxChars \div 5

Lineless(s, i, j) == \A k \in i..j : s[k] \notin LineMarks
(***************************************************************************)
(* With consoleNewLineAfterBytes no line gets longer than that, whatever   *)
(* messages, flushes and stamps come between and whatever the data rate:   *)
(* unless the consoles were filled again (which restarts the count in the  *)
(* middle of a line).  A time stamp is taken for a line of its own.        *)
(***************************************************************************)
LinesAreShort ==
    splitLines /\ ~refilled =>
        \A i, j \in 1..Len(console) :
            i <= j /\ Lineless(console, i, j) => j - i + 1 <= LineBytes

\* Up to k, what follows position i are new lines only.
OnlyLines(s, i, k) == \A l \in (i + 1)..k : s[l] = NewLine

(***************************************************************************)
(* After each byte consoleTimestampAt there is a time stamp, also when it  *)
(* ended its message and the next one came much later, after an update or  *)
(* an overflow; or it is still to come.                                    *)
(***************************************************************************)
StampsFollow ==
    \A i \in 1..Len(Kept) :
        Kept[i] \in StampBytes \ messages =>
            \/ \E j \in (i + 1)..Len(Kept) :
                  Kept[j] \in {Stamp, MessageStamp} /\ OnlyLines(Kept, i, j - 1)
            \/ stampNext /\ OnlyLines(Kept, i, Len(Kept))
=============================================================================
